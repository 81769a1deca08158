------------------------------ MODULE Staking -------------------------------
(***************************************************************************)
(* db.stake, db.unstake, db.claimStake and addStakingRewardRaw: stakers     *)
(* share a fee through an accumulated reward per staked credit.  The source *)
(* keeps it in doubles scaled by ACC_SCALE = 1e12; here AccScale is a       *)
(* multiple of every total staked, so that it is exact, and the rounding of *)
(* the doubles is the choice in Pending.                                   *)
(***************************************************************************)
EXTENDS Ledger

CONSTANT AccScale

ASSUME StakingAssumption == AccScale \in Nat \ {0}

VARIABLES
    staked,         \* stakes.amount
    debt,           \* stakes.reward_debt
    totalStaked, acc, lifetimeRewards,  \* the row of staking_state
    rewarded        \* rewarded[u]: the sum of u's 'stake_reward' entries

stakingVars == <<staked, debt, totalStaked, acc, lifetimeRewards, rewarded>>

StakingInit ==
    /\ staked = [u \in User |-> 0]
    /\ debt = [u \in User |-> 0]
    /\ totalStaked = 0
    /\ acc = 0
    /\ lifetimeRewards = 0
    /\ rewarded = [u \in User |-> 0]

\* addStakingRewardRaw: with nothing staked the fee stays margin.
PayFee(fee) ==
    /\ IF totalStaked > 0
       THEN /\ acc' = acc + (fee * AccScale) \div totalStaked
            /\ lifetimeRewards' = lifetimeRewards + fee
       ELSE UNCHANGED <<acc, lifetimeRewards>>
    /\ UNCHANGED <<staked, debt, totalStaked, rewarded>>

Accrued(u) == staked[u] * acc - debt[u]

\* pendingReward, payPending: the floor of the exact reward, or, where a double
\* falls just short of an integer, one credit less; never a negative entry.
Pending(u) ==
    LET paid(n) == IF n > 0 THEN n ELSE 0
    IN  {paid(Accrued(u) \div AccScale), paid((Accrued(u) - 1) \div AccScale)}

\* Mutant of Restaked: the debt is left as it was.
MutRestaked(u, amount) ==
    /\ staked' = [staked EXCEPT ![u] = amount]
    /\ UNCHANGED debt

\* upsStake
Restaked(u, amount) ==
    /\ staked' = [staked EXCEPT ![u] = amount]
    /\ debt' = [debt EXCEPT ![u] = amount * acc]

\* payPending's entry, of a source that cashes, next to the operation's own.
PaidOut(u, reward, delta) ==
    /\ balance' = Posted(balance, u, reward + delta)
    /\ hardIn' = Posted(hardIn, u, reward)
    /\ rewarded' = Posted(rewarded, u, reward)
    /\ UNCHANGED <<users, sessions, grants, job, acc, lifetimeRewards>>

Stake(u, amount) ==
    /\ Authorised(u)
    /\ balance[u] >= amount
    /\ \E reward \in Pending(u) : PaidOut(u, reward, -amount)
    /\ Restaked(u, staked[u] + amount)
    /\ totalStaked' = totalStaked + amount

Unstake(u, amount) ==
    /\ Authorised(u)
    /\ staked[u] >= amount
    /\ \E reward \in Pending(u) : PaidOut(u, reward, amount)
    /\ Restaked(u, staked[u] - amount)
    /\ totalStaked' = totalStaked - amount

ClaimStake(u) ==
    /\ Authorised(u)
    /\ \E reward \in Pending(u) : PaidOut(u, reward, 0)
    /\ Restaked(u, staked[u])
    /\ UNCHANGED totalStaked
=============================================================================
