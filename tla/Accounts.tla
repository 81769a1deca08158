------------------------------ MODULE Accounts ------------------------------
(***************************************************************************)
(* Everything that moves credits: logins, jobs, deposits, withdrawals and   *)
(* stakes over one database, with the clients, the chain and the treasury   *)
(* wallet they wait for, and what stands beside it: the price, the linked   *)
(* wallets, the buyback.  A behaviour has a workload: how often each kind   *)
(* of thing happens (the bound).                                           *)
(***************************************************************************)
EXTENDS Staking, Deposits, Dashboard, Wallets, Keeper

CONSTANTS
    Charge,     \* what a job may cost, whatever was reserved
    Workload    \* functions from Op to the number of such requests

Op == {"login", "signin", "job", "stake", "connect", "send", "claim", "block", "reorg",
       "withdrawal", "day", "crash", "panel", "tick", "quote", "wallet",
       "keeper", "death"}

ASSUME AccountsAssumption ==
    /\ Charge \subseteq Nat
    /\ Workload \subseteq [Op -> Nat]

VARIABLES
    budget,     \* what is left of the workload
    fair,       \* history: u's exact share of the fees so far, by AccScale
    rounds      \* history: how often u's reward was rounded down and paid

\* What moves no credits.
sideVars == <<dashVars, priceVars, walletVars, keeperVars>>

vars == <<ledgerVars, stakingVars, depositVars, withdrawalVars, sideVars,
          budget, fair, rounds>>

Init ==
    /\ LedgerInit /\ StakingInit /\ DepositsInit /\ WithdrawalsInit
    /\ DashInit /\ PriceInit /\ WalletsInit /\ KeeperInit
    /\ budget \in Workload
    /\ fair = [u \in User |-> 0]
    /\ rounds = [u \in User |-> 0]

Spend(op) ==
    /\ budget[op] > 0
    /\ budget' = [budget EXCEPT ![op] = @ - 1]

\* Ids are interchangeable: a new one is any of those that are free.
AnyOf(free) == IF free = {} THEN {} ELSE {CHOOSE x \in free : TRUE}

NewJob == AnyOf({j \in Job : job[j].status = "none"})
NewWithdrawal == AnyOf({w \in Withdrawal : withdrawal[w].status = "none"})
NewClaim == AnyOf({c \in Claim : claim[c].phase = "free"})
NewCaller == AnyOf({c \in Caller : call[c].phase = "idle"})

\* u's share of a fee, in units of 1 / AccScale.
ShareOf(u, fee) ==
    IF staked[u] = 0 THEN 0 ELSE (staked[u] * fee * AccScale) \div Total(staked)

LoginStep(u) ==
    /\ Spend("login")
    /\ Login(u)
    /\ UNCHANGED <<stakingVars, depositVars, withdrawalVars, sideVars, fair, rounds>>

JobStep ==
    /\ \/ /\ Spend("job")
          /\ \E j \in NewJob, u \in User, amount \in Amounts : Reserve(j, u, amount)
          /\ UNCHANGED <<stakingVars, fair>>
       \/ /\ \E j \in Job, charge \in Charge, p \in User :
               /\ SettleJob(j, charge, p)
               /\ PayFee(StakingFee(charge))
               /\ fair' = [u \in User |-> fair[u] + ShareOf(u, StakingFee(charge))]
          /\ UNCHANGED budget
       \/ /\ \E j \in Job : RefundJob(j)
          /\ UNCHANGED <<stakingVars, budget, fair>>
    /\ UNCHANGED <<depositVars, withdrawalVars, sideVars, rounds>>

StakeStep(u) ==
    /\ Spend("stake")
    /\ \/ \E amount \in Amounts : Stake(u, amount) \/ Unstake(u, amount)
       \/ ClaimStake(u)
    /\ rounds' = [rounds EXCEPT ![u] = @ + 1]
    /\ UNCHANGED <<depositVars, withdrawalVars, sideVars, fair>>

DepositStep(u) ==
    /\ \/ /\ Spend("send")
          /\ LoadAddress(u) \/ StartDeposit(u)
       \/ Spend("connect") /\ Connect(u)
       \/ /\ \/ Connected(u) \/ WalletDeclines(u) \/ GiveUpWaiting(u)
             \/ \E h \in Hash : WalletSends(u, h)
          /\ UNCHANGED budget
    /\ UNCHANGED <<stakingVars, withdrawalVars, sideVars, fair, rounds>>

ChainStep ==
    /\ \/ Spend("block") /\ MineBlock
       \/ Spend("reorg") /\ \E depth \in 1 .. Confirmations : Reorg(depth)
    /\ UNCHANGED <<stakingVars, withdrawalVars, sideVars, fair, rounds>>

AskStep ==
    /\ Spend("claim")
    /\ \E c \in NewClaim, u \in User :
         PanelClaim(c, u) \/ \E h \in Hash : RepeatClaim(c, u, h)
    /\ UNCHANGED <<stakingVars, withdrawalVars, sideVars, fair, rounds>>

ClaimStep(c) ==
    /\ Verify(c) \/ CreditDeposit(c)
    /\ UNCHANGED <<stakingVars, withdrawalVars, sideVars, budget, fair, rounds>>

WithdrawStep ==
    /\ Spend("withdrawal")
    /\ \E w \in NewWithdrawal, u \in User, credits \in Amounts : RequestWithdrawal(w, u, credits)
    /\ UNCHANGED <<stakingVars, depositVars, sideVars, fair, rounds>>

PayoutStep(w) ==
    /\ \/ SendRejected(w) \/ SendAccepted(w)
       \/ RecordSignature(w) \/ Unrecorded(w)
       \/ ReceiptArrives(w) \/ ReceiptLost(w)
    /\ UNCHANGED <<stakingVars, depositVars, sideVars, budget, fair, rounds>>

TreasuryStep ==
    /\ \/ Spend("day") /\ NextDay
       \/ /\ \E w \in Withdrawal, outcome \in {"success", "reverted"} :
               PaymentMined(w, outcome)
          /\ UNCHANGED budget
    /\ UNCHANGED <<stakingVars, depositVars, sideVars, fair, rounds>>

\* The orchestrator's process dies and starts again.  (With a reservation open
\* this is the restart of Engine.)
Crash ==
    /\ Spend("crash")
    /\ Held = 0
    /\ ClaimsLost
    /\ HandlersLost
    /\ UNCHANGED <<ledgerVars, stakingVars, sideVars, fair, rounds>>

DashStep ==
    /\ \/ Spend("signin") /\ \E u \in User : SignIn(u)
       \/ /\ Spend("panel")
          /\ \/ SignOut \/ Poll
             \/ \E w \in NewWithdrawal, credits \in Amounts : Press(w, credits)
       \/ /\ PollArrives \/ Told \/ RequestCut
          /\ UNCHANGED budget
    /\ UNCHANGED <<stakingVars, depositVars, priceVars, walletVars, keeperVars, fair, rounds>>

PriceStep ==
    /\ \/ Spend("tick") /\ Tick
       \/ Spend("quote") /\ \E c \in NewCaller : AskPrice(c)
       \/ /\ \E c \in Caller : SourceAnswers(c) \/ SourceFails(c)
          /\ UNCHANGED budget
    /\ UNCHANGED <<ledgerVars, stakingVars, depositVars, withdrawalVars,
                   dashVars, walletVars, keeperVars, fair, rounds>>

WalletStep(u) ==
    /\ \/ /\ Spend("wallet")
          /\ AskChallenge(u) \/ Unlink(u) \/ \E s \in signatures : SendAgain(u, s)
       \/ /\ \/ \E a \in Address : SignChallenge(u, a)
             \/ SaveWallet(u) \/ LinkFails(u)
          /\ UNCHANGED budget
    /\ UNCHANGED <<ledgerVars, stakingVars, depositVars, withdrawalVars,
                   dashVars, priceVars, keeperVars, fair, rounds>>

BuybackStep ==
    /\ \/ Spend("keeper") /\ (StartKeeper \/ RateMoves)
       \/ Spend("death") /\ KeeperDies
       \/ UNCHANGED budget /\ KeeperStep
    /\ UNCHANGED <<ledgerVars, stakingVars, depositVars, withdrawalVars,
                   dashVars, priceVars, walletVars, fair, rounds>>

Next ==
    \/ \E u \in User : LoginStep(u) \/ StakeStep(u) \/ DepositStep(u)
    \/ JobStep \/ ChainStep \/ TreasuryStep \/ Crash
    \/ DashStep \/ PriceStep \/ BuybackStep \/ \E u \in User : WalletStep(u)
    \/ AskStep \/ \E c \in Claim : ClaimStep(c)
    \/ WithdrawStep \/ \E w \in Withdrawal : PayoutStep(w)

Spec == Init /\ [][Next]_vars

(***************************************************************************)
(* Properties.                                                             *)
(***************************************************************************)
\* The types of every variable.
TypeOK ==
    /\ sessions \subseteq users /\ users \subseteq User
    /\ grants \in [User -> {0, Grant}]
    /\ balance \in [User -> Int]
    /\ hardIn \in [User -> Nat]
    /\ staked \in [User -> Nat] /\ debt \in [User -> Nat] /\ rewarded \in [User -> Nat]
    /\ totalStaked \in Nat /\ acc \in Nat /\ lifetimeRewards \in Nat
    /\ depositIndex \in [User -> Nat \cup {NoIndex}]
    /\ \A i \in DOMAIN deposits :
         deposits[i] \in [ref : Hash, user : User, credits : Worth]
    /\ tx \in [Hash -> [state : {"unsent", "pending", "success", "reverted"},
                        to : Nat \cup {NoIndex}, block : Nat]]
    /\ \A u \in User :
         /\ panel[u].phase = "mining" => panel[u].sent # {}
         /\ panel[u].asked # {} <=> panel[u].phase = "verifying"
    /\ handler \in [Withdrawal -> {"idle", "sending", "waiting", "answered", "dead"}]
    /\ payment \in [Withdrawal -> {"none", "pending", "success", "reverted"}]
    /\ \A w \in Withdrawal :
         withdrawal[w].status \in {"none", "requested", "paid", "failed", "review"}
    /\ session \in User \cup {NoUser} /\ shown \in Int /\ cash \in Nat \cup {Unknown}
    /\ asking.phase \in {"idle", "sending", "done", "error"}
    /\ clock \in Nat /\ cached \in 0 .. clock /\ at \in 0 .. clock
    /\ \A c \in Caller : call[c].phase \in {"idle", "pyth", "coingecko", "answered"}
    /\ wallet \in [User -> Address \cup {NoAddress}]
    /\ tokens \in Nat /\ burned \in Nat /\ rate \in Rates

\* Credits of u's withdrawals of some days that have not come back.
CashedOut(u, days) ==
    SumCredits({w \in Withdrawal :
        /\ withdrawal[w].status \in {"requested", "paid", "review"}
        /\ withdrawal[w].user = u /\ withdrawal[w].day \in days})

\* What the accounts hold, have staked, reserved or cashed out, and the rewards
\* still owed, is covered by grants and deposits: no sequence of operations of
\* the five parts, and no failure between them, makes credits.
NoCreditsFromNothing ==
    Total([u \in User |-> balance[u] + staked[u] + CashedOut(u, 0 .. day)
                          + Accrued(u) \div AccScale])
      + Held
    <= Total(grants) + Total([i \in DOMAIN deposits |-> deposits[i].credits])

\* An account never cashes out more than it deposited and earned: promotional
\* credits "can be spent but not cashed out" (db index.ts:419), under any
\* interleaving of payouts that succeed, fail and are refunded; nor more on a
\* day than the daily cap.
CashOutCovered ==
    \A u \in User :
        /\ CashedOut(u, 0 .. day) <= hardIn[u]
        /\ \A d \in 0 .. day : CashedOut(u, {d}) <= MaxPerDay

\* The addresses of two accounts never coincide, and what was credited to an
\* account was paid to its address.
CreditedToAddressee ==
    /\ \A u, v \in User : depositIndex[u] = depositIndex[v] /\ u # v
                            => depositIndex[u] = NoIndex
    /\ \A i \in DOMAIN deposits : tx[deposits[i].ref].to = depositIndex[deposits[i].user]

\* A transaction is credited once, whoever asks, however often and concurrently,
\* and no reorganisation takes it back out of the chain.
CreditedOnce ==
    /\ \A i, j \in DOMAIN deposits : deposits[i].ref = deposits[j].ref => i = j
    /\ \A i \in DOMAIN deposits : tx[deposits[i].ref].state = "success"

\* What a user is told of a withdrawal is so, and stays so: a row shown as paid
\* was paid on the chain, credits said to be refunded came back, and those of a
\* withdrawal under review did not, whatever the account, the connection and the
\* process did while it was asked for.
PanelTellsTruth ==
    /\ \A w \in Withdrawal : withdrawal[w].status = "paid" => payment[w] = "success"
    /\ asking.said \in {"paid", "failed", "review"} =>
         withdrawal[asking.withdrawal].status = asking.said

\* Once the signature is on record the credits never come back: "Once it has,
\* credits must NOT be refunded on a later error" (payout.ts:36-37).
SignedIsNeverRefunded ==
    [][\A w \in Withdrawal :
         withdrawal[w].status # "none" /\ withdrawal[w].signed
           => withdrawal'[w].status # "failed" /\ withdrawal'[w].signed]_vars

\* A withdrawal whose credits came back was not paid out: "Refunded only if no
\* payout was submitted on-chain (never risk a double-pay)" (schema.ts:64-65).
FailedIsUnpaid ==
    \A w \in Withdrawal : withdrawal[w].status = "failed" => payment[w] # "success"

\* Each staker gets its exact share of every fee paid while it was staked,
\* "regardless of when each user staked" (schema.ts:44-46), but for less than a
\* credit (with a double's rounding, at most one) at each of its operations.
FairShare ==
    \A u \in User :
        LET got == rewarded[u] * AccScale + Accrued(u)
        IN  got <= fair[u] /\ fair[u] <= got + rounds[u] * AccScale

\* "a short cache" (price.ts:2): unless both sources failed it, no request is
\* served a price read longer than the TTL before, however the requests that
\* share the cache overlap.
PriceFresh ==
    \A c \in Caller :
        call[c].source \in {"hit", "pyth", "coingecko"} =>
            call[c].start < call[c].price + TTL

\* "a linked wallet can be trusted" (wallet-panel.tsx:13): its key signed for
\* this very account, whatever other signatures are around.
WalletProven ==
    \A u \in User : wallet[u] # NoAddress =>
        \E s \in signatures : s.by = wallet[u] /\ s.message[1] = u

\* A run of the keeper that ends by itself leaves none of what was bought
\* unburned, by earlier runs that died included.
BoughtIsBurned == keeper.phase = "done" => tokens = 0 /\ mempool = <<>>

\* Fairness: handlers run, the RPC answers or fails, and blocks are mined.
Fairness ==
    /\ WF_vars(ChainStep)
    /\ \A c \in Claim : WF_vars(ClaimStep(c))
    /\ \A w \in Withdrawal : WF_vars(PayoutStep(w))

FairSpec == Spec /\ Fairness

\* When no more is asked, every request to withdraw has been answered, and no row
\* stays 'requested' but those of requests that the process died over.
WithdrawalResolves ==
    <>[](\A w \in Withdrawal :
           /\ handler[w] \in {"idle", "answered", "dead"}
           /\ withdrawal[w].status = "requested" => handler[w] = "dead")

\* The orchestrator "credits it once `ETH_CONFIRMATIONS` blocks have passed"
\* (DEPLOY.md:88-89): a deposit the panel asked for is credited when it has
\* its confirmations.
AskedIsCredited ==
    \A h \in Hash, u \in User :
        (/\ panel[u].sent = {h}
         /\ panel[u].phase \in {"verifying", "error"}
         /\ Confirmed(h))
          ~> Credited(h)
=============================================================================
