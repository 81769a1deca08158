----------------------------- MODULE AccountsMC -----------------------------
(***************************************************************************)
(* Instances of Accounts for TLC: two users, small amounts and workloads   *)
(* that dwell on one part each, and one that mixes them.                   *)
(***************************************************************************)
EXTENDS Accounts

Load(most) == [op \in Op |-> IF op \in DOMAIN most THEN most[op] ELSE 0]

Depositing == Load([login |-> 1, connect |-> 1, send |-> 2, claim |-> 2, block |-> 3,
                    reorg |-> 1, crash |-> 1])
Resending == Load([login |-> 1, connect |-> 2, send |-> 3, claim |-> 1, block |-> 2])
TwoAddresses == Load([login |-> 2, connect |-> 1, send |-> 3, claim |-> 2, block |-> 2])
Withdrawing == Load([login |-> 2, job |-> 1, withdrawal |-> 2, day |-> 1])
Dying == Load([login |-> 1, job |-> 1, withdrawal |-> 1, crash |-> 1])
Clicking == Load([signin |-> 2, job |-> 1, panel |-> 3])
Switching == Load([signin |-> 2, panel |-> 4])
StakeAndEarn == Load([login |-> 2, job |-> 2, stake |-> 3])
Mixed == Load([login |-> 1, connect |-> 1, send |-> 2, block |-> 2, claim |-> 1,
               job |-> 1, stake |-> 1, withdrawal |-> 1])
Pricing == Load([quote |-> 3, tick |-> 6])
Linking == Load([login |-> 2, wallet |-> 4, tick |-> 2])
BuyingBack == Load([keeper |-> 5, death |-> 2])

MCWorkload == {Depositing, Resending, TwoAddresses, Withdrawing, Dying, Clicking, Switching, StakeAndEarn, Mixed,
               Pricing, Linking, BuyingBack}

OneDeposit == {Load([login |-> 1, connect |-> 1, send |-> 2, claim |-> 1, block |-> 3])}
OneWithdrawal == {Load([login |-> 1, job |-> 1, withdrawal |-> 1])}
=============================================================================
