---------------------------- MODULE MoneyProofs ----------------------------
(***************************************************************************)
(* Proofs about the credits of Accounts: for any number of users, jobs,    *)
(* withdrawals and deposits, no credits are made, none are cashed out that *)
(* were only granted, stakers get their shares, and every variable of      *)
(* Accounts has its type.                                                  *)
(***************************************************************************)
EXTENDS AccountsProofs

-----------------------------------------------------------------------------
(***************************************************************************)
(* What moves credits.                                                     *)
(***************************************************************************)
shareVars == <<stakingVars, fair, rounds>>
outVars == <<withdrawal, day>>
moneyVars == <<ledgerVars, shareVars, deposits, outVars>>

\* An answer, or the signature, of a request that is under way.
Handled(w) ==
    /\ handler[w] \in {"sending", "waiting"}
    /\ \/ \E submitted \in BOOLEAN : MarkFailed(w, submitted)
       \/ /\ \/ withdrawal' = [withdrawal EXCEPT ![w].signed = TRUE]
             \/ withdrawal' = [withdrawal EXCEPT ![w].status = "paid", ![w].signed = TRUE]
          /\ UNCHANGED ledgerVars

JobMove ==
    \/ /\ \/ \E j \in Job, u \in User, amount \in Amounts : Reserve(j, u, amount)
          \/ \E j \in Job : RefundJob(j)
       /\ UNCHANGED <<stakingVars, fair>>
    \/ \E j \in Job, charge \in Charge, p \in User :
         /\ SettleJob(j, charge, p)
         /\ PayFee(StakingFee(charge))
         /\ fair' = [u \in User |-> fair[u] + ShareOf(u, StakingFee(charge))]

StakeMove(u) ==
    /\ \/ \E amount \in Amounts : Stake(u, amount) \/ Unstake(u, amount)
       \/ ClaimStake(u)
    /\ rounds' = [rounds EXCEPT ![u] = @ + 1]
    /\ UNCHANGED fair

MoneyNext ==
    \/ \E u \in User : Login(u) /\ UNCHANGED <<shareVars, deposits, outVars>>
    \/ JobMove /\ UNCHANGED <<rounds, deposits, outVars>>
    \/ \E u \in User : StakeMove(u) /\ UNCHANGED <<deposits, outVars>>
    \/ \E c \in Claim : CreditDeposit(c) /\ UNCHANGED <<shareVars, outVars>>
    \/ /\ \E w \in Withdrawal, credits \in Amounts : \E u : RequestWithdrawal(w, u, credits)
       /\ UNCHANGED <<shareVars, deposits>>
    \/ \E w \in Withdrawal : Handled(w) /\ UNCHANGED <<shareVars, deposits, day>>
    \/ NextDay /\ UNCHANGED <<shareVars, deposits>>

LEMMA FreshJob == NewJob \subseteq Job
BY DEF NewJob, AnyOf

LEMMA MoneyMoves == [Next]_vars => [MoneyNext]_moneyVars
<1> SUFFICES ASSUME [Next]_vars PROVE MoneyNext \/ UNCHANGED moneyVars
  BY DEF MoneyNext
<1> USE DEF moneyVars, shareVars, outVars, depositVars, withdrawalVars
<1>1. CASE UNCHANGED vars
  BY <1>1 DEF vars
<1>2. ASSUME NEW u \in User, LoginStep(u) PROVE MoneyNext
  BY <1>2 DEF LoginStep, MoneyNext
<1>3. CASE JobStep
  BY <1>3, FreshJob DEF JobStep, MoneyNext, JobMove
<1>4. ASSUME NEW u \in User, StakeStep(u) PROVE MoneyNext
  BY <1>4 DEF StakeStep, MoneyNext, StakeMove
<1>5. ASSUME NEW u \in User, DepositStep(u) PROVE UNCHANGED moneyVars
  <2>1. UNCHANGED <<ledgerVars, deposits>>
    <3>1. CASE LoadAddress(u) \/ StartDeposit(u)
      BY <3>1 DEF LoadAddress, StartDeposit
    <3>2. CASE Connect(u) \/ Connected(u) \/ WalletDeclines(u)
      BY <3>2 DEF Connect, Connected, WalletDeclines
    <3>3. CASE GiveUpWaiting(u) \/ \E h \in Hash : WalletSends(u, h)
      BY <3>3 DEF GiveUpWaiting, WalletSends
    <3> QED  BY <1>5, <3>1, <3>2, <3>3 DEF DepositStep
  <2> QED  BY <1>5, <2>1 DEF DepositStep
<1>6. CASE ChainStep
  <2>1. UNCHANGED <<ledgerVars, deposits>>
    BY <1>6 DEF ChainStep, MineBlock, Reorg
  <2> QED  BY <1>6, <2>1 DEF ChainStep
<1>7. CASE AskStep
  <2>1. UNCHANGED <<ledgerVars, deposits>>
    BY <1>7 DEF AskStep, PanelClaim, RepeatClaim, StartClaim
  <2> QED  BY <1>7, <2>1 DEF AskStep
<1>8. ASSUME NEW c \in Claim, ClaimStep(c) PROVE MoneyNext \/ UNCHANGED moneyVars
  <2>1. CASE Verify(c)
    BY <1>8, <2>1 DEF ClaimStep, Verify
  <2>2. CASE CreditDeposit(c)
    BY <1>8, <2>2 DEF ClaimStep, MoneyNext
  <2> QED  BY <1>8, <2>1, <2>2 DEF ClaimStep
<1>9. CASE WithdrawStep
  <2>1. PICK w \in Withdrawal, u \in User, credits \in Amounts : RequestWithdrawal(w, u, credits)
    BY <1>9, FreshWithdrawal DEF WithdrawStep
  <2>2. UNCHANGED <<shareVars, deposits>>
    BY <1>9 DEF WithdrawStep
  <2> QED  BY <2>1, <2>2 DEF MoneyNext
<1>10. ASSUME NEW w \in Withdrawal, PayoutStep(w) PROVE MoneyNext \/ UNCHANGED moneyVars
  <2>1. CASE SendRejected(w) \/ Unrecorded(w) \/ ReceiptLost(w) \/ ReceiptArrives(w)
    <3>1. Handled(w) /\ UNCHANGED day
      BY <2>1 DEF SendRejected, Unrecorded, ReceiptLost, ReceiptArrives, Handled
    <3> QED  BY <1>10, <3>1 DEF PayoutStep, MoneyNext
  <2>2. CASE RecordSignature(w)
    <3>1. Handled(w) /\ UNCHANGED day
      BY <2>2 DEF RecordSignature, Handled
    <3> QED  BY <1>10, <3>1 DEF PayoutStep, MoneyNext
  <2>3. CASE SendAccepted(w)
    BY <1>10, <2>3 DEF PayoutStep, SendAccepted
  <2> QED  BY <1>10, <2>1, <2>2, <2>3 DEF PayoutStep
<1>11. CASE TreasuryStep
  BY <1>11 DEF TreasuryStep, PaymentMined, MoneyNext
<1>12. CASE Crash
  BY <1>12 DEF Crash, ClaimsLost, HandlersLost
<1>13. CASE DashStep
  <2>1. CASE \E u \in User : SignIn(u)
    BY <1>13, <2>1 DEF DashStep, SignIn, MoneyNext
  <2>2. CASE SignOut \/ Poll \/ PollArrives \/ Told \/ RequestCut
    <3>1. UNCHANGED <<ledgerVars, outVars>>
      BY <2>2 DEF SignOut, Poll, PollArrives, Told, RequestCut
    <3> QED  BY <1>13, <3>1 DEF DashStep
  <2>3. CASE \E w \in NewWithdrawal, credits \in Amounts : Press(w, credits)
    <3>1. PICK w \in Withdrawal, credits \in Amounts : Press(w, credits)
      BY <2>3, FreshWithdrawal
    <3>2. UNCHANGED <<shareVars, deposits>>
      BY <1>13 DEF DashStep
    <3>3. RequestWithdrawal(w, session, credits) \/ UNCHANGED <<ledgerVars, outVars>>
      BY <3>1 DEF Press
    <3>4. CASE RequestWithdrawal(w, session, credits)
      BY <3>2, <3>4 DEF MoneyNext
    <3> QED  BY <3>2, <3>3, <3>4
  <2> QED  BY <1>13, <2>1, <2>2, <2>3 DEF DashStep
<1>14. CASE PriceStep \/ BuybackStep \/ \E u \in User : WalletStep(u)
  BY <1>14 DEF PriceStep, BuybackStep, WalletStep
<1> QED
  BY <1>1, <1>2, <1>3, <1>4, <1>5, <1>6, <1>7, <1>8, <1>9, <1>10, <1>11, <1>12,
     <1>13, <1>14 DEF Next

-----------------------------------------------------------------------------
(***************************************************************************)
(* Accounts, jobs and stakes.                                              *)
(***************************************************************************)
\* An account without a row was granted nothing; an open job is someone's.
AccountInv ==
    /\ sessions \subseteq users /\ users \subseteq User
    /\ grants \in [User -> {0, Grant}]
    /\ \A u \in User \ users : grants[u] = 0
    /\ balance \in [User -> Int]
    /\ hardIn \in [User -> Nat]
    /\ DOMAIN job = Job
    /\ \A j \in Job :
         /\ DOMAIN job[j] = {"status", "user", "reserve"}
         /\ job[j].status = "reserved" => job[j].user \in User /\ job[j].reserve \in Nat

\* No staker owes anything.
StakeInv ==
    /\ staked \in [User -> Nat] /\ debt \in [User -> Nat] /\ rewarded \in [User -> Nat]
    /\ acc \in Nat /\ lifetimeRewards \in Nat
    /\ totalStaked \in Nat /\ totalStaked = Total(staked)
    /\ \A u \in User : debt[u] <= staked[u] * acc

\* Sums over the users.
LEMMA UserTotals ==
    ASSUME NEW f \in [User -> Int]
    PROVE  /\ Total(f) \in Int
           /\ (\A x \in User : f[x] \in Nat) => Total(f) \in Nat
           /\ \A u \in User, v \in Int :
                Total([f EXCEPT ![u] = v]) = Total(f) - f[u] + v
<1>1. IsFiniteSet(User)
  BY LedgerAssumption
<1>2. Total(f) \in Int
  BY <1>1, TotalType
<1>3. ASSUME \A x \in User : f[x] \in Nat
      PROVE  Total(f) \in Nat
  <2>1. \A x \in User : 0 * f[x] <= f[x]
    BY <1>3
  <2>2. 0 * Total(f) <= Total(f)
    BY <1>1, <2>1, TotalScaled
  <2> QED  BY <1>2, <2>2
<1>4. ASSUME NEW u \in User, NEW v \in Int
      PROVE  Total([f EXCEPT ![u] = v]) = Total(f) - f[u] + v
  BY <1>1, TotalUpdate
<1> QED
  BY <1>2, <1>3, <1>4

LEMMA TimesMonotone ==
    \A n, a, b \in Nat : a <= b => n * a <= n * b
OBVIOUS

LEMMA DivBounds ==
    \A a \in Nat \ {0}, n \in Int :
        /\ n \div a \in Int
        /\ a * (n \div a) <= n /\ n < a * (n \div a) + a
        /\ n >= 0 => n \div a >= 0
OBVIOUS

\* A reward is what accrued, rounded down, or at worst a credit less.
LEMMA PendingBounds ==
    ASSUME StakeInv, NEW u \in User, NEW reward \in Pending(u)
    PROVE  /\ reward \in Nat /\ Accrued(u) \in Nat
           /\ AccScale * reward <= Accrued(u)
           /\ Accrued(u) <= AccScale * reward + AccScale
<1> DEFINE n == Accrued(u)
<1>1. n \in Nat
  <2>1. staked[u] \in Nat /\ acc \in Nat /\ debt[u] \in Nat /\ debt[u] <= staked[u] * acc
    BY DEF StakeInv
  <2>2. staked[u] * acc \in Nat
    BY <2>1
  <2> QED  BY <2>1, <2>2 DEF Accrued
<1>2. AccScale \in Nat \ {0}
  BY StakingAssumption
<1>3. \/ reward = 0 /\ (n \div AccScale <= 0 \/ (n - 1) \div AccScale <= 0)
      \/ reward = n \div AccScale /\ n \div AccScale > 0
      \/ reward = (n - 1) \div AccScale /\ (n - 1) \div AccScale > 0
  <2>1. n \div AccScale \in Int /\ (n - 1) \div AccScale \in Int
    BY <1>1, <1>2
  <2> QED  BY <2>1 DEF Pending
<1> HIDE DEF n
<1> DEFINE q == n \div AccScale  r == (n - 1) \div AccScale
<1>4. /\ q \in Int /\ AccScale * q <= n /\ n < AccScale * q + AccScale
      /\ r \in Int /\ AccScale * r <= n - 1 /\ n - 1 < AccScale * r + AccScale
  BY <1>1, <1>2, DivBounds
<1>5. \A k \in Int : k <= 0 => AccScale * k <= 0
  BY <1>2
<1> HIDE DEF q, r
<1>6. CASE reward = 0 /\ (q <= 0 \/ r <= 0)
  <2>1. n <= AccScale
    BY <1>1, <1>2, <1>4, <1>5, <1>6
  <2>2. AccScale * reward = 0
    BY <1>2, <1>6
  <2> QED  BY <1>1, <1>2, <1>6, <2>1, <2>2 DEF n
<1>7. CASE reward = q /\ q > 0
  BY <1>1, <1>2, <1>4, <1>7 DEF n
<1>8. CASE reward = r /\ r > 0
  BY <1>1, <1>2, <1>4, <1>8 DEF n
<1> QED
  BY <1>3, <1>6, <1>7, <1>8 DEF q, r

\* A row of the withdrawals table names an account, a sum and a day.
RowInv ==
    /\ DOMAIN withdrawal = Withdrawal
    /\ day \in Nat
    /\ \A w \in Withdrawal :
         /\ withdrawal[w].status \in {"none", "requested", "paid", "failed", "review"}
         /\ withdrawal[w].status # "none" =>
              /\ withdrawal[w].user \in User
              /\ withdrawal[w].credits \in Nat \ {0}
              /\ withdrawal[w].day \in 0 .. day

LEMMA AccountInvNext ==
    ASSUME AccountInv, StakeInv, RowInv, PayInv, CreditInv, MoneyNext
    PROVE  AccountInv'
<1> USE DEF AccountInv, Posted
<1>0. Grant \in Nat /\ Amounts \subseteq Nat \ {0}
  BY LedgerAssumption
<1>1. ASSUME NEW u \in User, Login(u) PROVE AccountInv'
  <2>1. /\ grants[u] + (IF u \in users THEN 0 ELSE Grant) \in {0, Grant}
        /\ \A v \in User : v \notin users' => v \notin users /\ v # u
    BY <1>0, <1>1 DEF Login
  <2> QED  BY <1>0, <1>1, <2>1 DEF Login
<1>2. ASSUME NEW j \in Job, NEW u \in User, NEW amount \in Amounts, Reserve(j, u, amount)
      PROVE  AccountInv'
  <2>1. amount \in Nat /\ -amount \in Int
    BY <1>0
  <2> QED  BY <1>2, <2>1 DEF Reserve
<1>3. ASSUME NEW j \in Job, RefundJob(j) PROVE AccountInv'
  BY <1>3 DEF RefundJob
<1>4. ASSUME NEW j \in Job, NEW charge \in Charge, NEW p \in User, SettleJob(j, charge, p)
      PROVE  AccountInv'
  <2>1. charge \in Nat /\ WorkerEarn(charge) \in Nat
    BY AccountsAssumption, WorkerEarnType
  <2>2. job[j].user \in User /\ job[j].reserve - charge \in Int
    BY <1>4, <2>1 DEF SettleJob
  <2>3. balance' \in [User -> Int] /\ hardIn' \in [User -> Nat]
    BY <1>4, <2>1, <2>2 DEF SettleJob
  <2> QED  BY <1>4, <2>3 DEF SettleJob
<1>5. ASSUME NEW u \in User, StakeMove(u) PROVE AccountInv'
  <2>1. PICK reward \in Pending(u), delta \in Int : PaidOut(u, reward, delta)
    <3>1. \A amount \in Amounts : amount \in Int /\ -amount \in Int
      BY <1>0
    <3> QED  BY <1>5, <3>1 DEF StakeMove, Stake, Unstake, ClaimStake
  <2>2. reward \in Nat
    BY PendingBounds
  <2> QED  BY <2>1, <2>2 DEF PaidOut
<1>6. ASSUME NEW c \in Claim, CreditDeposit(c) PROVE AccountInv'
  <2>1. claim[c].user \in User /\ claim[c].credits \in Nat
    BY <1>6, DepositsAssumption DEF CreditDeposit, CreditInv, ClaimInv
  <2>2. CASE UNCHANGED ledgerVars
    BY <2>2 DEF ledgerVars
  <2>3. CASE ~Credited(claim[c].hash)
    <3>1. /\ users' = users \cup {claim[c].user}
          /\ balance' = Posted(balance, claim[c].user, claim[c].credits)
          /\ hardIn' = Posted(hardIn, claim[c].user, claim[c].credits)
          /\ UNCHANGED <<sessions, grants, job>>
      BY <1>6, <2>3 DEF CreditDeposit
    <3> QED  BY <2>1, <3>1
  <2> QED  BY <1>6, <2>2, <2>3 DEF CreditDeposit
<1>7. ASSUME NEW w \in Withdrawal, NEW credits \in Amounts, NEW u,
             RequestWithdrawal(w, u, credits)
      PROVE  AccountInv'
  <2>1. u \in User
    BY <1>7 DEF RequestWithdrawal, Authorised
  <2>2. credits \in Nat /\ -credits \in Int
    BY <1>0
  <2> QED  BY <1>7, <2>1, <2>2 DEF RequestWithdrawal
<1>8. ASSUME NEW w \in Withdrawal, Handled(w) PROVE AccountInv'
  <2>1. withdrawal[w].user \in User /\ withdrawal[w].credits \in Nat
    BY <1>8 DEF Handled, PayInv, RowInv
  <2>2. CASE UNCHANGED ledgerVars
    BY <2>2 DEF ledgerVars
  <2>3. ASSUME NEW submitted \in BOOLEAN, MarkFailed(w, submitted) PROVE AccountInv'
    BY <2>1, <2>3 DEF MarkFailed
  <2> QED  BY <1>8, <2>2, <2>3 DEF Handled
<1>9. CASE NextDay
  BY <1>9 DEF NextDay, ledgerVars
<1> QED
  BY <1>1, <1>2, <1>3, <1>4, <1>5, <1>6, <1>7, <1>8, <1>9 DEF MoneyNext, JobMove

\* What the three operations of a staker do to its stake.
LEMMA StakeDelta ==
    ASSUME AccountInv, StakeInv, NEW u \in User, StakeMove(u)
    PROVE  \E reward \in Pending(u), delta \in Int, back \in Int :
             /\ PaidOut(u, reward, back) /\ back + delta = 0
             /\ staked[u] + delta \in Nat
             /\ Restaked(u, staked[u] + delta)
             /\ totalStaked' = totalStaked + delta
<1>1. staked[u] \in Nat /\ totalStaked \in Nat
  BY DEF StakeInv
<1>2. \A amount \in Amounts :
        amount \in Nat /\ amount \in Int /\ -amount \in Int /\ -amount + amount = 0
  BY LedgerAssumption
<1>3. ASSUME NEW amount \in Amounts, Stake(u, amount)
      PROVE  \E reward \in Pending(u) :
               /\ PaidOut(u, reward, -amount)
               /\ staked[u] + amount \in Nat
               /\ Restaked(u, staked[u] + amount)
               /\ totalStaked' = totalStaked + amount
  BY <1>1, <1>2, <1>3 DEF Stake
<1>4. ASSUME NEW amount \in Amounts, Unstake(u, amount)
      PROVE  \E reward \in Pending(u) :
               /\ PaidOut(u, reward, amount) /\ amount + (-amount) = 0
               /\ staked[u] + (-amount) \in Nat
               /\ Restaked(u, staked[u] + (-amount))
               /\ totalStaked' = totalStaked + (-amount)
  <2>1. /\ amount + (-amount) = 0 /\ staked[u] + (-amount) = staked[u] - amount
        /\ staked[u] - amount \in Nat /\ totalStaked + (-amount) = totalStaked - amount
    BY <1>1, <1>2, <1>4 DEF Unstake
  <2> QED  BY <1>4, <2>1 DEF Unstake
<1>5. ASSUME ClaimStake(u)
      PROVE  \E reward \in Pending(u) :
               /\ PaidOut(u, reward, 0) /\ 0 + 0 = 0
               /\ staked[u] + 0 \in Nat
               /\ Restaked(u, staked[u] + 0)
               /\ totalStaked' = totalStaked + 0
  <2>1. staked[u] + 0 = staked[u] /\ totalStaked + 0 = totalStaked /\ 0 + 0 = 0
    BY <1>1
  <2> QED  BY <1>1, <1>5, <2>1 DEF ClaimStake
<1>6. 0 \in Int
  OBVIOUS
<1> HIDE DEF Stake, Unstake, ClaimStake, PaidOut, Restaked, Pending
<1> QED
  BY <1>2, <1>3, <1>4, <1>5, <1>6, Zenon DEF StakeMove

LEMMA StakeInvNext ==
    ASSUME AccountInv, StakeInv, MoneyNext
    PROVE  StakeInv'
<1>0. IsFiniteSet(User) /\ AccScale \in Nat \ {0}
  BY LedgerAssumption, StakingAssumption
<1>1. CASE UNCHANGED stakingVars
  BY <1>1 DEF StakeInv, stakingVars
<1>2. ASSUME NEW charge \in Charge, PayFee(StakingFee(charge)) PROVE StakeInv'
  <2> DEFINE fee == StakingFee(charge)
  <2>1. fee \in Nat
    BY AccountsAssumption, StakingFeeType
  <2> HIDE DEF fee
  <2>2. fee * AccScale \in Nat
    BY <1>0, <2>1
  <2>3. totalStaked > 0 => (fee * AccScale) \div totalStaked \in Nat
    BY <2>2, DivBounds DEF StakeInv
  <2>4. acc' \in Nat /\ acc <= acc' /\ lifetimeRewards' \in Nat
    BY <1>2, <2>1, <2>3 DEF PayFee, fee, StakeInv
  <2>5. UNCHANGED <<staked, debt, totalStaked, rewarded>>
    BY <1>2 DEF PayFee
  <2>6. ASSUME NEW u \in User PROVE debt[u] <= staked[u] * acc'
    <3>1. staked[u] * acc <= staked[u] * acc'
      <4>1. staked[u] \in Nat /\ acc \in Nat /\ acc' \in Nat /\ acc <= acc'
        BY <2>4 DEF StakeInv
      <4> QED  BY <4>1, TimesMonotone
    <3>2. debt[u] \in Nat /\ debt[u] <= staked[u] * acc /\ staked[u] * acc \in Nat
          /\ staked[u] * acc' \in Nat
      BY <2>4 DEF StakeInv
    <3> QED  BY <3>1, <3>2
  <2> QED  BY <2>4, <2>5, <2>6 DEF StakeInv
<1>3. ASSUME NEW u \in User, StakeMove(u) PROVE StakeInv'
  <2>1. PICK reward \in Pending(u), delta \in Int, back \in Int :
          /\ PaidOut(u, reward, back) /\ back + delta = 0
          /\ staked[u] + delta \in Nat
          /\ Restaked(u, staked[u] + delta)
          /\ totalStaked' = totalStaked + delta
    BY <1>3, StakeDelta
  <2>2. reward \in Nat
    BY PendingBounds
  <2>3. /\ staked' = [staked EXCEPT ![u] = staked[u] + delta]
        /\ debt' = [debt EXCEPT ![u] = (staked[u] + delta) * acc]
        /\ UNCHANGED <<acc, lifetimeRewards>>
        /\ rewarded' = [rewarded EXCEPT ![u] = @ + reward]
    BY <2>1 DEF Restaked, PaidOut, Posted
  <2>4. Total(staked') = Total(staked) - staked[u] + (staked[u] + delta) /\ Total(staked) \in Int
    <3>1. staked \in [User -> Int] /\ staked[u] + delta \in Int
      BY <2>1 DEF StakeInv
    <3>2. /\ Total([staked EXCEPT ![u] = staked[u] + delta])
               = Total(staked) - staked[u] + (staked[u] + delta)
          /\ Total(staked) \in Int
      BY <3>1, UserTotals
    <3> QED  BY <2>3, <3>2
  <2>5. staked' \in [User -> Nat]
    BY <2>1, <2>3 DEF StakeInv
  <2>6. Total(staked') \in Nat
    BY <2>5, UserTotals
  <2>7. totalStaked' = Total(staked')
    <3>1. staked[u] \in Int
      BY DEF StakeInv
    <3> QED  BY <2>1, <2>4, <3>1 DEF StakeInv
  <2>8. (staked[u] + delta) * acc \in Nat
    BY <2>1 DEF StakeInv
  <2>9. debt' \in [User -> Nat] /\ \A v \in User : debt'[v] <= staked'[v] * acc'
    BY <2>1, <2>3, <2>8 DEF StakeInv
  <2> QED  BY <2>2, <2>3, <2>5, <2>6, <2>7, <2>9 DEF StakeInv
<1> QED
  BY <1>1, <1>2, <1>3 DEF MoneyNext, JobMove, shareVars

-----------------------------------------------------------------------------
(***************************************************************************)
(* Withdrawals.                                                            *)
(***************************************************************************)
Standing == {"requested", "paid", "review"}

\* What a row takes out of u's account on some days, for good or for now.
Taken(r, u, days) ==
    IF r.status \in Standing /\ r.user = u /\ r.day \in days THEN r.credits ELSE 0

Cash(u, days) == [w \in Withdrawal |-> Taken(withdrawal[w], u, days)]

LEMMA CashType ==
    ASSUME RowInv, NEW u, NEW days
    PROVE  /\ Cash(u, days) \in [Withdrawal -> Nat]
           /\ Cash(u, days) \in [Withdrawal -> Int]
           /\ Total(Cash(u, days)) \in Nat
<1>1. Cash(u, days) \in [Withdrawal -> Nat]
  BY DEF RowInv, Cash, Taken, Standing
<1>2. IsFiniteSet(Withdrawal)
  BY WithdrawalsAssumption
<1> DEFINE f == Cash(u, days)
<1> HIDE DEF f
<1>3. f \in [Withdrawal -> Nat] /\ f \in [Withdrawal -> Int]
  BY <1>1 DEF f
<1>4. \A w \in Withdrawal : 0 * f[w] <= f[w]
  BY <1>3
<1>5. 0 * Total(f) <= Total(f) /\ Total(f) \in Int
  BY <1>2, <1>3, <1>4, TotalScaled, TotalType
<1> QED
  BY <1>3, <1>5 DEF f

LEMMA CashTypeNext ==
    ASSUME NEW u, NEW days
    PROVE  RowInv' => Total(Cash(u, days)') \in Nat
<1>1. RowInv => Total(Cash(u, days)) \in Nat
  BY CashType
<1>2. RowInv' => (Total(Cash(u, days)) \in Nat)'
  BY <1>1, PTL
<1> QED
  BY <1>2

\* The sums of the code are sums over the whole table.
LEMMA CashedOutIsCash ==
    ASSUME RowInv, NEW u, NEW days
    PROVE  CashedOut(u, days) = Total(Cash(u, days))
<1> DEFINE T == {w \in Withdrawal :
                   /\ withdrawal[w].status \in {"requested", "paid", "review"}
                   /\ withdrawal[w].user = u /\ withdrawal[w].day \in days}
           f == [w \in T |-> withdrawal[w].credits]
           g == Cash(u, days)
<1>1. T \in SUBSET Withdrawal /\ f \in [T -> Int]
  BY DEF RowInv
<1>2. \A w \in Withdrawal : g[w] = IF w \in T THEN f[w] ELSE 0
  BY DEF Cash, Taken, Standing
<1>3. g \in [Withdrawal -> Int] /\ IsFiniteSet(Withdrawal)
  BY CashType, WithdrawalsAssumption
<1>4. Total(f) = CashedOut(u, days)
  BY DEF CashedOut, SumCredits
<1> HIDE DEF T, f, g
<1>5. Total(f) = Total(g)
  BY <1>1, <1>2, <1>3, TotalFilter
<1> QED
  BY <1>4, <1>5 DEF g

LEMMA WithdrawnIsCash ==
    ASSUME RowInv, NEW u
    PROVE  /\ Withdrawn(u) = Total(Cash(u, Nat))
           /\ WithdrawnToday(u) = Total(Cash(u, {day}))
           /\ CashedOut(u, 0 .. day) = Total(Cash(u, Nat))
<1> USE DEF RowInv
<1>1. Counted(u) = {w \in Withdrawal :
                      /\ withdrawal[w].status \in {"requested", "paid", "review"}
                      /\ withdrawal[w].user = u /\ withdrawal[w].day \in Nat}
  BY DEF Counted, Rows
<1>2. {w \in Counted(u) : withdrawal[w].day = day} =
        {w \in Withdrawal :
           /\ withdrawal[w].status \in {"requested", "paid", "review"}
           /\ withdrawal[w].user = u /\ withdrawal[w].day \in {day}}
  BY DEF Counted, Rows
<1>3. Withdrawn(u) = CashedOut(u, Nat) /\ WithdrawnToday(u) = CashedOut(u, {day})
  BY <1>1, <1>2, Zenon DEF Withdrawn, WithdrawnToday, CashedOut
<1>4. Cash(u, 0 .. day) = Cash(u, Nat)
  BY DEF Cash, Taken, Standing
<1> QED
  BY <1>3, <1>4, CashedOutIsCash

\* One row of the table changes.
LEMMA CashStep ==
    ASSUME RowInv, RowInv', NEW w \in Withdrawal, NEW row,
           withdrawal' = [withdrawal EXCEPT ![w] = row], NEW u, NEW days
    PROVE  Total(Cash(u, days)') =
             Total(Cash(u, days)) - Taken(withdrawal[w], u, days) + Taken(row, u, days)
<1> DEFINE f == Cash(u, days)  g == Cash(u, days)'  new == Taken(row, u, days)
<1>1. withdrawal'[w] = row /\ \A v \in Withdrawal : v # w => withdrawal'[v] = withdrawal[v]
  BY DEF RowInv
<1>2. g = [f EXCEPT ![w] = new]
  <2>1. g = [v \in Withdrawal |-> Taken(withdrawal'[v], u, days)]
    BY DEF Cash
  <2>2. f = [v \in Withdrawal |-> Taken(withdrawal[v], u, days)]
    BY DEF Cash
  <2>3. \A v \in Withdrawal : g[v] = IF v = w THEN new ELSE f[v]
    BY <1>1, <2>1, <2>2
  <2> HIDE DEF f, g, new
  <2> QED  BY <2>1, <2>2, <2>3
<1>3. f \in [Withdrawal -> Int] /\ f[w] = Taken(withdrawal[w], u, days)
  BY CashType DEF Cash
<1>4. new \in Int
  BY <1>1 DEF RowInv, Taken, Standing
<1>5. IsFiniteSet(Withdrawal)
  BY WithdrawalsAssumption
<1> HIDE DEF f, new, g
<1>6. Total([f EXCEPT ![w] = new]) = Total(f) - f[w] + new
  BY <1>3, <1>4, <1>5, TotalUpdate
<1>7. Total(g) = Total(f) - f[w] + new
  BY <1>2, <1>6
<1> QED
  BY <1>3, <1>7 DEF f, g, new

\* What became of a row whose handler runs, and of its user's credits.
HandledRow(w, row) ==
    /\ withdrawal' = [withdrawal EXCEPT ![w] = row]
    /\ withdrawal[w].status = "requested"
    /\ row.user = withdrawal[w].user /\ row.credits = withdrawal[w].credits
    /\ row.day = withdrawal[w].day
    /\ UNCHANGED <<users, sessions, grants, hardIn, job>>
    /\ \/ row.status \in Standing /\ UNCHANGED balance
       \/ /\ row.status = "failed"
          /\ balance' = Posted(balance, withdrawal[w].user, withdrawal[w].credits)

LEMMA HandledKeepsRow ==
    ASSUME PayInv, RowInv, NEW w \in Withdrawal, Handled(w)
    PROVE  \E row : HandledRow(w, row)
<1> DEFINE r == withdrawal[w]
           signed == [r EXCEPT !.signed = TRUE]
           paid == [r EXCEPT !.status = "paid", !.signed = TRUE]
           review == [r EXCEPT !.status = "review"]
           failed == [r EXCEPT !.status = "failed", !.signed = FALSE]
<1>1. IsRow(r) /\ r.status = "requested"
  BY DEF Handled, PayInv
<1>2. DOMAIN withdrawal = Withdrawal
  BY DEF RowInv
<1>3. DOMAIN r = {"status", "user", "credits", "day", "signed"}
  BY <1>1 DEF IsRow
<1>4. /\ signed.status = "requested" /\ signed.user = r.user
      /\ signed.credits = r.credits /\ signed.day = r.day
      /\ review.status = "review" /\ review.user = r.user
      /\ review.credits = r.credits /\ review.day = r.day
  BY <1>1, <1>3
<1>5. /\ paid.status = "paid" /\ paid.user = r.user
      /\ paid.credits = r.credits /\ paid.day = r.day
  BY <1>1, <1>3
<1>6. /\ failed.status = "failed" /\ failed.user = r.user
      /\ failed.credits = r.credits /\ failed.day = r.day
  BY <1>1, <1>3
<1>7. ASSUME NEW submitted \in BOOLEAN, MarkFailed(w, submitted)
      PROVE  HandledRow(w, review) \/ HandledRow(w, failed)
  <2>1. UNCHANGED <<users, sessions, grants, hardIn, job>>
    BY <1>7 DEF MarkFailed
  <2>2. CASE submitted
    <3>1. withdrawal' = [withdrawal EXCEPT ![w] = review] /\ UNCHANGED balance
      BY <1>2, <1>7, <2>2 DEF MarkFailed
    <3> HIDE DEF review
    <3> QED  BY <1>1, <1>4, <2>1, <3>1 DEF HandledRow, Standing
  <2>3. CASE ~submitted
    <3>1. /\ withdrawal' = [withdrawal EXCEPT ![w] = failed]
          /\ balance' = Posted(balance, withdrawal[w].user, withdrawal[w].credits)
      BY <1>2, <1>7, <2>3 DEF MarkFailed
    <3> HIDE DEF failed
    <3> QED  BY <1>1, <1>6, <2>1, <3>1 DEF HandledRow
  <2> QED  BY <2>2, <2>3
<1>8. ASSUME withdrawal' = [withdrawal EXCEPT ![w].signed = TRUE], UNCHANGED ledgerVars
      PROVE  HandledRow(w, signed)
  <2>1. withdrawal' = [withdrawal EXCEPT ![w] = signed]
    BY <1>2, <1>8
  <2> HIDE DEF signed
  <2> QED  BY <1>1, <1>4, <1>8, <2>1 DEF HandledRow, Standing, ledgerVars
<1>9. ASSUME withdrawal' = [withdrawal EXCEPT ![w].status = "paid", ![w].signed = TRUE],
             UNCHANGED ledgerVars
      PROVE  HandledRow(w, paid)
  <2>1. withdrawal' = [withdrawal EXCEPT ![w] = paid]
    BY <1>2, <1>9
  <2> HIDE DEF paid
  <2> QED  BY <1>1, <1>5, <1>9, <2>1 DEF HandledRow, Standing, ledgerVars
<1> HIDE DEF r, signed, paid, review, failed
<1> QED
  BY <1>7, <1>8, <1>9 DEF Handled

LEMMA RowInvNext ==
    ASSUME AccountInv, RowInv, PayInv, [MoneyNext]_moneyVars
    PROVE  RowInv'
<1>1. CASE UNCHANGED outVars
  BY <1>1 DEF RowInv, outVars
<1>2. ASSUME NEW w \in Withdrawal, NEW credits \in Amounts, NEW u,
             RequestWithdrawal(w, u, credits)
      PROVE  RowInv'
  <2>1. u \in User /\ credits \in Nat \ {0}
    BY <1>2, LedgerAssumption DEF RequestWithdrawal, Authorised, AccountInv
  <2>2. /\ withdrawal' = [withdrawal EXCEPT ![w] =
             [status |-> "requested", user |-> u, credits |-> credits,
              day |-> day, signed |-> FALSE]]
        /\ day' = day
    BY <1>2 DEF RequestWithdrawal
  <2> QED  BY <2>1, <2>2 DEF RowInv
<1>3. ASSUME NEW w \in Withdrawal, Handled(w), UNCHANGED day PROVE RowInv'
  <2>1. PICK row : HandledRow(w, row)
    BY <1>3, HandledKeepsRow
  <2> QED  BY <1>3, <2>1 DEF RowInv, HandledRow, Standing
<1>4. CASE NextDay
  BY <1>4 DEF NextDay, RowInv
<1> QED
  BY <1>1, <1>2, <1>3, <1>4 DEF MoneyNext, moneyVars, outVars

\* An account has cashed out no more than its deposits and earnings, and no
\* more a day than the cap.
CashInv ==
    \A u \in User :
        /\ Total(Cash(u, Nat)) <= hardIn[u]
        /\ \A d \in Nat : Total(Cash(u, {d})) <= MaxPerDay

\* What came in never goes away.
LEMMA HardInGrows ==
    ASSUME AccountInv, StakeInv, RowInv, PayInv, CreditInv, [MoneyNext]_moneyVars
    PROVE  \A u \in User : hardIn[u] <= hardIn'[u]
<1> USE DEF AccountInv, Posted
<1>0. \A u \in User : hardIn[u] <= hardIn[u]
  OBVIOUS
<1>1. CASE UNCHANGED hardIn
  BY <1>0, <1>1
<1>2. ASSUME NEW u \in User, Login(u) PROVE UNCHANGED hardIn
  BY <1>2 DEF Login
<1>3. ASSUME NEW j \in Job,
             RefundJob(j) \/ \E u \in User, amount \in Amounts : Reserve(j, u, amount)
      PROVE  UNCHANGED hardIn
  BY <1>3 DEF RefundJob, Reserve
<1>4. ASSUME NEW j \in Job, NEW charge \in Charge, NEW p \in User, SettleJob(j, charge, p)
      PROVE  \A u \in User : hardIn[u] <= hardIn'[u]
  <2>1. WorkerEarn(charge) \in Nat
    BY AccountsAssumption, WorkerEarnType
  <2>2. hardIn' = Posted(hardIn, p, WorkerEarn(charge))
    BY <1>4 DEF SettleJob
  <2> QED  BY <2>1, <2>2
<1>5. ASSUME NEW u \in User, StakeMove(u)
      PROVE  \A v \in User : hardIn[v] <= hardIn'[v]
  <2>1. PICK reward \in Pending(u), delta \in Int, back \in Int : PaidOut(u, reward, back)
    BY <1>5, StakeDelta
  <2>2. reward \in Nat
    BY PendingBounds
  <2> QED  BY <2>1, <2>2 DEF PaidOut
<1>6. ASSUME NEW c \in Claim, CreditDeposit(c)
      PROVE  \A u \in User : hardIn[u] <= hardIn'[u]
  <2>1. claim[c].user \in User /\ claim[c].credits \in Nat
    BY <1>6, DepositsAssumption DEF CreditDeposit, CreditInv, ClaimInv
  <2>2. CASE Credited(claim[c].hash)
    BY <1>0, <1>6, <2>2 DEF CreditDeposit, ledgerVars
  <2>3. CASE ~Credited(claim[c].hash)
    <3>1. hardIn' = Posted(hardIn, claim[c].user, claim[c].credits)
      BY <1>6, <2>3 DEF CreditDeposit
    <3> QED  BY <2>1, <3>1
  <2> QED  BY <2>2, <2>3
<1>7. ASSUME NEW w \in Withdrawal, NEW credits, NEW u, RequestWithdrawal(w, u, credits)
      PROVE  UNCHANGED hardIn
  BY <1>7 DEF RequestWithdrawal
<1>8. ASSUME NEW w \in Withdrawal, Handled(w) PROVE UNCHANGED hardIn
  BY <1>8, HandledKeepsRow DEF HandledRow
<1>9. CASE NextDay
  BY <1>1, <1>9 DEF NextDay, ledgerVars
<1>10. CASE UNCHANGED moneyVars
  BY <1>1, <1>10 DEF moneyVars, ledgerVars
<1> HIDE DEF AccountInv, Posted
<1> QED
  BY <1>1, <1>2, <1>3, <1>4, <1>5, <1>6, <1>7, <1>8, <1>9, <1>10 DEF MoneyNext, JobMove

LEMMA CashInvNext ==
    ASSUME AccountInv, StakeInv, RowInv, PayInv, CreditInv, CashInv, [MoneyNext]_moneyVars
    PROVE  CashInv'
<1>1. RowInv' /\ \A u \in User : hardIn[u] <= hardIn'[u]
  BY RowInvNext, HardInGrows
<1>2. \A u \in User : hardIn[u] \in Int /\ hardIn'[u] \in Int
  <2>1. AccountInv'
    <3>1. CASE UNCHANGED moneyVars
      BY <3>1 DEF moneyVars, ledgerVars, AccountInv
    <3> QED  BY <3>1, AccountInvNext
  <2> QED  BY <2>1 DEF AccountInv
<1>3. ASSUME \A u \in User, days \in SUBSET Nat :
               Total(Cash(u, days)') <= Total(Cash(u, days))
      PROVE  CashInv'
  <2>1. ASSUME NEW u \in User PROVE Total(Cash(u, Nat)') <= hardIn'[u]
    <3>1. Total(Cash(u, Nat)) \in Int /\ Total(Cash(u, Nat)') \in Int
      BY <1>1, CashType, CashTypeNext
    <3> QED  BY <1>1, <1>2, <1>3, <3>1 DEF CashInv
  <2>2. ASSUME NEW u \in User, NEW d \in Nat PROVE Total(Cash(u, {d})') <= MaxPerDay
    <3>1. Total(Cash(u, {d})) \in Int /\ Total(Cash(u, {d})') \in Int /\ MaxPerDay \in Int
      BY <1>1, CashType, CashTypeNext, WithdrawalsAssumption
    <3>2. Total(Cash(u, {d})') <= Total(Cash(u, {d})) /\ Total(Cash(u, {d})) <= MaxPerDay
      BY <1>3 DEF CashInv
    <3> QED  BY <3>1, <3>2
  <2> QED  BY <2>1, <2>2 DEF CashInv
<1>4. ASSUME UNCHANGED withdrawal PROVE CashInv'
  <2>1. ASSUME NEW u \in User, NEW days \in SUBSET Nat
        PROVE  Total(Cash(u, days)') <= Total(Cash(u, days))
    <3>1. Cash(u, days)' = Cash(u, days)
      BY <1>4 DEF Cash
    <3>2. Total(Cash(u, days)) \in Nat
      BY CashType
    <3> QED  BY <3>1, <3>2
  <2> QED  BY <1>3, <2>1
<1>5. ASSUME NEW w \in Withdrawal, NEW credits \in Amounts, NEW v,
             RequestWithdrawal(w, v, credits)
      PROVE  CashInv'
  <2> DEFINE row == [status |-> "requested", user |-> v, credits |-> credits,
                     day |-> day, signed |-> FALSE]
  <2>1. /\ withdrawal' = [withdrawal EXCEPT ![w] = row] /\ withdrawal[w].status = "none"
        /\ Withdrawable(v) >= credits /\ WithdrawnToday(v) + credits <= MaxPerDay
        /\ v \in User /\ UNCHANGED hardIn
    BY <1>5 DEF RequestWithdrawal, MayWithdraw, Authorised, AccountInv
  <2>2. credits \in Nat \ {0} /\ day \in Nat
    BY LedgerAssumption DEF RowInv
  <2>3. hardIn[v] \in Int /\ balance[v] \in Int
    BY <2>1 DEF AccountInv
  <2>4. \A days \in SUBSET Nat : Total(Cash(v, days)) \in Int
    BY CashType
  <2>5. Total(Cash(v, Nat)) + credits <= hardIn[v]
    <3>1. Withdrawn(v) = Total(Cash(v, Nat))
      BY <2>1, WithdrawnIsCash
    <3> QED  BY <2>1, <2>2, <2>3, <2>4, <3>1 DEF Withdrawable
  <2>6. Total(Cash(v, {day})) + credits <= MaxPerDay
    BY <2>1, WithdrawnIsCash
  <2>7. \A u, days : Taken(withdrawal[w], u, days) = 0
    BY <2>1 DEF Taken, Standing
  <2>8. \A u, days : Taken(row, u, days) = IF u = v /\ day \in days THEN credits ELSE 0
    BY DEF Taken, Standing
  <2>0. withdrawal' = [withdrawal EXCEPT ![w] = row]
    BY <2>1
  <2> HIDE DEF row
  <2>9. ASSUME NEW u \in User, NEW days \in SUBSET Nat
        PROVE  Total(Cash(u, days)') =
                 Total(Cash(u, days)) + (IF u = v /\ day \in days THEN credits ELSE 0)
    <3>1. Total(Cash(u, days)') =
            Total(Cash(u, days)) - Taken(withdrawal[w], u, days) + Taken(row, u, days)
      BY <1>1, <2>0, CashStep, Zenon
    <3>2. Total(Cash(u, days)) \in Int
      BY CashType
    <3> QED  BY <2>2, <2>7, <2>8, <3>1, <3>2
  <2>10. ASSUME NEW u \in User PROVE Total(Cash(u, Nat)') <= hardIn'[u]
    <3>1. Nat \in SUBSET Nat
      OBVIOUS
    <3>2. Total(Cash(u, Nat)') = Total(Cash(u, Nat)) + (IF u = v /\ day \in Nat THEN credits ELSE 0)
      BY <2>9, <3>1
    <3>3. Total(Cash(u, Nat)) \in Int /\ Total(Cash(u, Nat)) <= hardIn[u]
      BY CashType DEF CashInv
    <3> QED  BY <2>1, <2>2, <2>5, <3>2, <3>3
  <2>11. ASSUME NEW u \in User, NEW d \in Nat PROVE Total(Cash(u, {d})') <= MaxPerDay
    <3>1. {d} \in SUBSET Nat
      OBVIOUS
    <3>2. Total(Cash(u, {d})') = Total(Cash(u, {d})) + (IF u = v /\ day \in {d} THEN credits ELSE 0)
      BY <2>9, <3>1
    <3>3. Total(Cash(u, {d})) \in Int /\ Total(Cash(u, {d})) <= MaxPerDay
      BY CashType DEF CashInv
    <3>4. CASE u = v /\ day = d
      BY <2>2, <2>6, <3>2, <3>4
    <3>5. CASE ~(u = v /\ day = d)
      BY <3>2, <3>3, <3>5
    <3> QED  BY <3>4, <3>5
  <2> QED  BY <2>10, <2>11 DEF CashInv
<1>6. ASSUME NEW w \in Withdrawal, Handled(w) PROVE CashInv'
  <2>1. PICK row : HandledRow(w, row)
    BY <1>6, HandledKeepsRow
  <2>2. ASSUME NEW u \in User, NEW days \in SUBSET Nat
        PROVE  Total(Cash(u, days)') <= Total(Cash(u, days))
    <3>1. Total(Cash(u, days)') =
            Total(Cash(u, days)) - Taken(withdrawal[w], u, days) + Taken(row, u, days)
      BY <1>1, <2>1, CashStep DEF HandledRow
    <3>2. Total(Cash(u, days)) \in Int /\ withdrawal[w].credits \in Nat
      BY <2>1, CashType DEF HandledRow, RowInv
    <3>3. \/ Taken(row, u, days) = Taken(withdrawal[w], u, days)
          \/ Taken(row, u, days) = 0
      BY <2>1 DEF HandledRow, Taken, Standing
    <3>4. Taken(withdrawal[w], u, days) \in Nat
      BY <3>2 DEF Taken
    <3> QED  BY <3>1, <3>2, <3>3, <3>4
  <2> QED  BY <1>3, <2>2
<1>7. \/ UNCHANGED withdrawal
      \/ \E w \in Withdrawal, credits \in Amounts : \E u : RequestWithdrawal(w, u, credits)
      \/ \E w \in Withdrawal : Handled(w)
  BY DEF MoneyNext, moneyVars, outVars, NextDay
<1> QED
  BY <1>4, <1>5, <1>6, <1>7

\* All of it.
MoneyInv == AccountInv /\ StakeInv /\ RowInv /\ PayInv /\ CreditInv /\ CashInv

LEMMA MoneyInvInit == Init => MoneyInv
<1> SUFFICES ASSUME Init PROVE MoneyInv
  OBVIOUS
<1> USE DEF Init
<1>1. AccountInv
  BY LedgerAssumption DEF LedgerInit, AccountInv, NoJob
<1>2. StakeInv
  <2>1. \A u \in User : 0 * 0 = 0
    OBVIOUS
  <2>2. staked = [u \in User |-> 0] /\ staked \in [User -> Int] /\ IsFiniteSet(User)
    BY LedgerAssumption DEF StakingInit
  <2>3. Total(staked) = 0
    BY <2>2, TotalZero
  <2> QED  BY <2>1, <2>3 DEF StakingInit, StakeInv
<1>3. RowInv
  BY DEF WithdrawalsInit, RowInv, NoWithdrawal
<1>4. PayInv /\ CreditInv
  BY PayInvInit, CreditInvInit
<1>5. ASSUME NEW u \in User, NEW days \in SUBSET Nat PROVE Total(Cash(u, days)) = 0
  <2> DEFINE f == Cash(u, days)
  <2>1. f \in [Withdrawal -> Int] /\ IsFiniteSet(Withdrawal)
    BY <1>3, CashType, WithdrawalsAssumption
  <2>2. \A w \in Withdrawal : f[w] = 0
    BY DEF Cash, Taken, Standing, WithdrawalsInit, NoWithdrawal
  <2> HIDE DEF f
  <2>3. Total(f) = 0
    BY <2>1, <2>2, TotalZero
  <2> QED  BY <2>3 DEF f
<1>6. CashInv
  <2>1. \A u \in User : hardIn[u] = 0
    BY DEF LedgerInit
  <2>2. Nat \in SUBSET Nat /\ (\A d \in Nat : {d} \in SUBSET Nat) /\ MaxPerDay \in Nat
    BY WithdrawalsAssumption
  <2> QED  BY <1>5, <2>1, <2>2 DEF CashInv
<1> QED
  BY <1>1, <1>2, <1>3, <1>4, <1>6 DEF MoneyInv

LEMMA MoneyInvNext == MoneyInv /\ [Next]_vars => MoneyInv'
<1> SUFFICES ASSUME MoneyInv, [Next]_vars PROVE MoneyInv'
  OBVIOUS
<1> USE DEF MoneyInv
<1>1. [MoneyNext]_moneyVars
  BY MoneyMoves
<1>2. PayInv' /\ CreditInv'
  BY PayInvNext, PayMoves, PanelInvNext, ChainInvNext, ClaimInvNext, DepositInvNext,
     CreditMoves DEF CreditInv
<1>3. AccountInv'
  <2>1. CASE UNCHANGED moneyVars
    BY <2>1 DEF moneyVars, ledgerVars, AccountInv
  <2> QED  BY <1>1, <2>1, AccountInvNext
<1>4. StakeInv'
  <2>1. CASE UNCHANGED moneyVars
    BY <2>1 DEF moneyVars, shareVars, stakingVars, StakeInv
  <2> QED  BY <1>1, <2>1, StakeInvNext
<1>5. RowInv' /\ CashInv'
  BY <1>1, RowInvNext, CashInvNext
<1> QED
  BY <1>2, <1>3, <1>4, <1>5

LEMMA MoneyInvAlways == Spec => []MoneyInv
BY MoneyInvInit, MoneyInvNext, PTL DEF Spec

\* CashOutCovered of Accounts, for any number of accounts and of withdrawals
\* asked for, paid, failed and refunded in any order: granted credits are never
\* cashed out, nor more on a day than the cap.
THEOREM GrantsAreNotCashedOut == Spec => []CashOutCovered
<1>1. ASSUME MoneyInv PROVE CashOutCovered
  <2>1. ASSUME NEW u \in User PROVE CashedOut(u, 0 .. day) <= hardIn[u]
    BY <1>1, WithdrawnIsCash DEF MoneyInv, CashInv
  <2>2. ASSUME NEW u \in User, NEW d \in 0 .. day PROVE CashedOut(u, {d}) <= MaxPerDay
    BY <1>1, CashedOutIsCash DEF MoneyInv, CashInv, RowInv
  <2> QED  BY <2>1, <2>2 DEF CashOutCovered
<1> QED
  BY <1>1, MoneyInvAlways, PTL

-----------------------------------------------------------------------------
(***************************************************************************)
(* Every credit was granted or deposited.                                  *)
(***************************************************************************)
HeldBy(r) == IF r.status = "reserved" THEN r.reserve ELSE 0
DepositCredits == [i \in DOMAIN deposits |-> deposits[i].credits]
CashOf == [u \in User |-> Total(Cash(u, Nat))]
Accruals == [u \in User |-> Accrued(u)]

\* What was put in and is nowhere to be found.
Slack ==
    Total(grants) + Total(DepositCredits)
      - Total(balance) - Total(staked) - Total(CashOf) - Held

\* It pays for what the stakers have accrued.
Covered == Total(Accruals) <= AccScale * Slack

LEMMA PostedTotal ==
    ASSUME NEW f \in [User -> Int], NEW u \in User, NEW delta \in Int
    PROVE  /\ Posted(f, u, delta) \in [User -> Int]
           /\ Total(Posted(f, u, delta)) = Total(f) + delta
<1> DEFINE v == f[u] + delta
<1>1. v \in Int /\ Total(f) \in Int
  BY UserTotals
<1>2. Posted(f, u, delta) = [f EXCEPT ![u] = v]
  BY DEF Posted
<1>3. Total([f EXCEPT ![u] = v]) = Total(f) - f[u] + v
  BY <1>1, UserTotals
<1> QED
  BY <1>1, <1>2, <1>3

LEMMA HeldType ==
    ASSUME AccountInv
    PROVE  /\ Held = Total([j \in Job |-> HeldBy(job[j])])
           /\ [j \in Job |-> HeldBy(job[j])] \in [Job -> Int]
           /\ Held \in Int
<1>1. Held = Total([j \in Job |-> HeldBy(job[j])])
  BY DEF Held, HeldBy
<1>2. [j \in Job |-> HeldBy(job[j])] \in [Job -> Int]
  BY DEF HeldBy, AccountInv
<1>3. Total([j \in Job |-> HeldBy(job[j])]) \in Int
  BY <1>2, LedgerAssumption, TotalType
<1> QED
  BY <1>1, <1>2, <1>3

LEMMA HeldStep ==
    ASSUME AccountInv, NEW j \in Job, NEW r, job' = [job EXCEPT ![j] = r], HeldBy(r) \in Int
    PROVE  Held' = Held - HeldBy(job[j]) + HeldBy(r)
<1> DEFINE f == [i \in Job |-> HeldBy(job[i])]
           g == [i \in Job |-> HeldBy(job'[i])]
           new == HeldBy(r)
<1>1. f \in [Job -> Int] /\ Held = Total(f)
  BY HeldType
<1>2. Held' = Total(g)
  BY DEF Held, HeldBy
<1>3. g = [f EXCEPT ![j] = new]
  <2>1. \A i \in Job : job'[i] = IF i = j THEN r ELSE job[i]
    BY DEF AccountInv
  <2> HIDE DEF new
  <2>2. \A i \in Job : g[i] = IF i = j THEN new ELSE f[i]
    BY <2>1 DEF new
  <2> QED  BY <2>2
<1>4. f[j] = HeldBy(job[j]) /\ new \in Int /\ IsFiniteSet(Job)
  BY LedgerAssumption
<1> HIDE DEF f, g, new
<1>5. Total([f EXCEPT ![j] = new]) = Total(f) - f[j] + new
  BY <1>1, <1>4, TotalUpdate
<1> QED
  BY <1>1, <1>2, <1>3, <1>4, <1>5 DEF new

LEMMA DepositCreditsType ==
    ASSUME CreditInv
    PROVE  /\ DepositCredits \in [1 .. Len(deposits) -> Int]
           /\ Total(DepositCredits) \in Int
<1>1. DepositCredits \in [1 .. Len(deposits) -> Int] /\ Len(deposits) \in Nat
  <2>1. deposits \in Seq(Entry)
    BY DEF CreditInv, DepositInv
  <2>2. Len(deposits) \in Nat /\ DOMAIN deposits = 1 .. Len(deposits)
        /\ \A i \in 1 .. Len(deposits) : deposits[i] \in Entry
    BY <2>1
  <2>3. \A e \in Entry : e.credits \in Int
    <3>1. Worth \subseteq Int
      BY DepositsAssumption
    <3> QED  BY <3>1 DEF Entry
  <2> QED  BY <2>2, <2>3 DEF DepositCredits
<1>2. IsFiniteSet(1 .. Len(deposits))
  BY <1>1, FS_Interval
<1> QED
  BY <1>1, <1>2, TotalType

LEMMA DepositAdded ==
    ASSUME CreditInv, NEW r, r.credits \in Int, deposits' = Append(deposits, r)
    PROVE  Total(DepositCredits)' = Total(DepositCredits) + r.credits
<1> DEFINE n == Len(deposits)  S == 1 .. n + 1  T == 1 .. n  x == n + 1
           f == DepositCredits'
<1>1. n \in Nat /\ deposits \in Seq(Entry)
  BY DEF CreditInv, DepositInv
<1>2. DOMAIN deposits' = S /\ deposits'[x] = r /\ \A i \in T : deposits'[i] = deposits[i]
  BY <1>1
<1>3. f = [i \in S |-> deposits'[i].credits] /\ DOMAIN deposits = T
  BY <1>1, <1>2 DEF DepositCredits
<1>4. DepositCredits \in [T -> Int]
  BY DepositCreditsType
<1>5. f \in [S -> Int] /\ f[x] = r.credits
  <2>1. \A i \in S : i \in T \/ i = x
    BY <1>1
  <2>2. \A i \in T : deposits'[i].credits = DepositCredits[i] /\ DepositCredits[i] \in Int
    BY <1>2, <1>3, <1>4 DEF DepositCredits
  <2>3. x \in S
    BY <1>1
  <2> QED  BY <1>2, <1>3, <2>1, <2>2, <2>3
<1>6. On(f, T) = DepositCredits /\ On(f, T \cup {x}) = f
  <2>1. T \cup {x} = S
    BY <1>1
  <2>2. \A i \in T : f[i] = DepositCredits[i]
    BY <1>1, <1>2, <1>3 DEF DepositCredits
  <2> HIDE DEF f
  <2> QED  BY <1>4, <1>5, <2>1, <2>2 DEF On
<1>7. IsFiniteSet(S) /\ T \in SUBSET S /\ x \in S \ T
  BY <1>1, FS_Interval
<1> HIDE DEF f, S, T, x
<1>8. Total(On(f, T \cup {x})) = f[x] + Total(On(f, T))
  BY <1>5, <1>7, TotalAdd
<1>9. Total(DepositCredits) \in Int
  BY DepositCreditsType
<1> QED
  BY <1>5, <1>6, <1>8, <1>9 DEF f

LEMMA CashOfType ==
    ASSUME RowInv
    PROVE  CashOf \in [User -> Int]
BY CashType DEF CashOf

\* u's withdrawals, by what one row of the table becomes.
LEMMA CashOfStep ==
    ASSUME RowInv, RowInv', NEW w \in Withdrawal, NEW row,
           withdrawal' = [withdrawal EXCEPT ![w] = row], NEW u \in User, NEW delta \in Int,
           \A v \in User : Taken(row, v, Nat) =
              Taken(withdrawal[w], v, Nat) + (IF v = u THEN delta ELSE 0)
    PROVE  Total(CashOf)' = Total(CashOf) + delta
<1> DEFINE f == CashOf  g == CashOf'
<1>1. f \in [User -> Int]
  BY CashOfType
<1>2. ASSUME NEW v \in User
      PROVE  Total(Cash(v, Nat)') = Total(Cash(v, Nat)) + (IF v = u THEN delta ELSE 0)
  <2>1. Total(Cash(v, Nat)') =
          Total(Cash(v, Nat)) - Taken(withdrawal[w], v, Nat) + Taken(row, v, Nat)
    BY CashStep
  <2>2. Total(Cash(v, Nat)) \in Int /\ Taken(withdrawal[w], v, Nat) \in Int
    BY CashType DEF RowInv, Taken, Standing
  <2> QED  BY <2>1, <2>2
<1>3. g = [v \in User |-> Total(Cash(v, Nat)')]
  BY DEF CashOf
<1>4. \A v \in User : g[v] = f[v] + (IF v = u THEN delta ELSE 0)
  BY <1>2, <1>3 DEF CashOf
<1> HIDE DEF f, g
<1>5. g = Posted(f, u, delta)
  <2>1. /\ Posted(f, u, delta) \in [User -> Int]
        /\ \A v \in User : Posted(f, u, delta)[v] = f[v] + (IF v = u THEN delta ELSE 0)
    BY <1>1 DEF Posted
  <2> QED  BY <1>3, <1>4, <2>1
<1>6. Total(Posted(f, u, delta)) = Total(f) + delta
  BY <1>1, PostedTotal
<1> QED
  BY <1>5, <1>6 DEF f, g

LEMMA CashOfSame ==
    ASSUME UNCHANGED withdrawal
    PROVE  Total(CashOf)' = Total(CashOf)
<1>1. CashOf' = CashOf
  BY DEF CashOf, Cash
<1> QED
  BY <1>1

\* The sums of the accounts.
LEMMA SumTypes ==
    ASSUME MoneyInv
    PROVE  /\ Total(grants) \in Int /\ Total(balance) \in Int /\ Total(staked) \in Int
           /\ Total(DepositCredits) \in Int /\ Total(CashOf) \in Int /\ Held \in Int
           /\ Total(Accruals) \in Int /\ Accruals \in [User -> Int]
           /\ Slack \in Int
<1> USE DEF MoneyInv
<1>1. grants \in [User -> Int] /\ balance \in [User -> Int] /\ staked \in [User -> Int]
  BY LedgerAssumption DEF AccountInv, StakeInv
<1>2. Accruals \in [User -> Int]
  <2>1. ASSUME NEW u \in User PROVE Accrued(u) \in Int
    <3>1. staked[u] \in Nat /\ acc \in Nat /\ debt[u] \in Nat
      BY DEF StakeInv
    <3> QED  BY <3>1 DEF Accrued
  <2> QED  BY <2>1 DEF Accruals
<1>3. Total(grants) \in Int /\ Total(balance) \in Int /\ Total(staked) \in Int
  BY <1>1, UserTotals
<1>4. Total(Accruals) \in Int
  BY <1>2, UserTotals
<1>5. Total(CashOf) \in Int
  BY CashOfType, UserTotals
<1>6. Total(DepositCredits) \in Int /\ Held \in Int
  BY DepositCreditsType, HeldType
<1> QED
  BY <1>2, <1>3, <1>4, <1>5, <1>6 DEF Slack

LEMMA SumTypesNext == MoneyInv' => Total(Accruals)' \in Int /\ Slack' \in Int
<1>1. MoneyInv => Total(Accruals) \in Int /\ Slack \in Int
  BY SumTypes
<1>2. MoneyInv' => (Total(Accruals) \in Int /\ Slack \in Int)'
  BY <1>1, PTL
<1> QED
  BY <1>2

\* An action keeps Covered when what it adds to the slack pays what it accrues.
LEMMA CoveredStep ==
    ASSUME MoneyInv, Covered, NEW s \in Int, NEW t \in Int, NEW x \in Int,
           s >= Slack + x, t <= Total(Accruals) + AccScale * x
    PROVE  t <= AccScale * s
<1>1. AccScale \in Nat
  BY StakingAssumption
<1>2. \A a, b, c \in Int : c >= a + b => AccScale * a + AccScale * b <= AccScale * c
  <2>1. ASSUME NEW a \in Int, NEW b \in Int, NEW c \in Int, c >= a + b
        PROVE  AccScale * a + AccScale * b <= AccScale * c
    <3>1. AccScale * (c - (a + b)) >= 0
      BY <1>1, <2>1
    <3>2. AccScale * (c - (a + b)) = AccScale * c - (AccScale * a + AccScale * b)
          /\ AccScale * a \in Int /\ AccScale * b \in Int /\ AccScale * c \in Int
      BY <1>1, <2>1
    <3> QED  BY <3>1, <3>2
  <2> QED  BY <2>1
<1>3. Total(Accruals) \in Int /\ Slack \in Int /\ Total(Accruals) <= AccScale * Slack
  BY SumTypes DEF Covered
<1>4. AccScale * Slack + AccScale * x <= AccScale * s
  BY <1>2, <1>3
<1>5. AccScale * Slack \in Int /\ AccScale * x \in Int /\ AccScale * s \in Int
  BY <1>1, <1>3
<1> QED
  BY <1>3, <1>4, <1>5

\* A step that adds to the slack what it lets the stakers accrue.
Pays(x) ==
    /\ Slack' >= Slack + x
    /\ Total(Accruals)' <= Total(Accruals) + AccScale * x

LEMMA AccrualsSame ==
    ASSUME MoneyInv, UNCHANGED <<staked, debt, acc>>, Slack' = Slack
    PROVE  Pays(0)
<1>1. Accruals' = Accruals
  BY DEF Accruals, Accrued
<1>2. Total(Accruals) \in Int /\ Slack \in Int /\ AccScale \in Int
  BY SumTypes, StakingAssumption
<1> DEFINE t == Total(Accruals)
<1> HIDE DEF t
<1>3. t' = t /\ t \in Int
  BY <1>1, <1>2 DEF t
<1>4. t' <= t + AccScale * 0 /\ Slack' >= Slack + 0
  BY <1>2, <1>3
<1> QED
  BY <1>4 DEF Pays, t

\* The parts of the slack that a step leaves alone.
LEMMA SlackSame ==
    /\ UNCHANGED grants => Total(grants') = Total(grants)
    /\ UNCHANGED deposits => Total(DepositCredits)' = Total(DepositCredits)
    /\ UNCHANGED balance => Total(balance') = Total(balance)
    /\ UNCHANGED staked => Total(staked') = Total(staked)
    /\ UNCHANGED withdrawal => Total(CashOf)' = Total(CashOf)
    /\ UNCHANGED job => Held' = Held
<1>1. UNCHANGED deposits => Total(DepositCredits)' = Total(DepositCredits)
  <2>1. UNCHANGED deposits => DepositCredits' = DepositCredits
    BY DEF DepositCredits
  <2> QED  BY <2>1
<1>2. UNCHANGED job => Held' = Held
  BY DEF Held
<1> QED
  BY <1>1, <1>2, CashOfSame

LEMMA LoginPays ==
    ASSUME MoneyInv, NEW u \in User, Login(u), UNCHANGED <<shareVars, deposits, outVars>>
    PROVE  Pays(0)
<1> DEFINE granted == IF u \in users THEN 0 ELSE Grant
<1>1. granted \in Int /\ grants \in [User -> Int] /\ balance \in [User -> Int]
  BY LedgerAssumption DEF MoneyInv, AccountInv
<1>2. grants' = Posted(grants, u, granted) /\ balance' = Posted(balance, u, granted)
      /\ UNCHANGED job
  BY DEF Login
<1> HIDE DEF granted
<1>3. Total(grants') = Total(grants) + granted /\ Total(balance') = Total(balance) + granted
  BY <1>1, <1>2, PostedTotal
<1>4. UNCHANGED <<staked, debt, acc, withdrawal, deposits>>
  BY DEF shareVars, stakingVars, outVars
<1>5. Slack' = Slack
  BY <1>1, <1>2, <1>3, <1>4, SlackSame, SumTypes DEF Slack
<1> QED
  BY <1>4, <1>5, AccrualsSame

LEMMA ReservePays ==
    ASSUME MoneyInv, NEW j \in Job, NEW u \in User, NEW amount \in Amounts,
           Reserve(j, u, amount), UNCHANGED <<shareVars, deposits, outVars>>
    PROVE  Pays(0)
<1> DEFINE r == [status |-> "reserved", user |-> u, reserve |-> amount]
<1>1. amount \in Nat /\ -amount \in Int /\ balance \in [User -> Int]
  BY LedgerAssumption DEF MoneyInv, AccountInv
<1>2. balance' = Posted(balance, u, -amount) /\ job' = [job EXCEPT ![j] = r]
      /\ UNCHANGED grants /\ HeldBy(job[j]) = 0
  BY DEF Reserve, HeldBy
<1>3. Total(balance') = Total(balance) + (-amount)
  BY <1>1, <1>2, PostedTotal
<1>4. HeldBy(r) = amount
  BY DEF HeldBy
<1> HIDE DEF r
<1>5. Held' = Held + amount
  <2>3. AccountInv /\ job' = [job EXCEPT ![j] = r] /\ HeldBy(r) \in Int
    BY <1>1, <1>2, <1>4 DEF MoneyInv
  <2>1. Held' = Held - HeldBy(job[j]) + HeldBy(r)
    BY <2>3, HeldStep, Zenon
  <2>2. Held \in Int
    BY SumTypes
  <2> QED  BY <1>1, <1>2, <1>4, <2>1, <2>2
<1>6. UNCHANGED <<staked, debt, acc, withdrawal, deposits>>
  BY DEF shareVars, stakingVars, outVars
<1>7. Slack' = Slack
  BY <1>1, <1>2, <1>3, <1>5, <1>6, SlackSame, SumTypes DEF Slack
<1> QED
  BY <1>6, <1>7, AccrualsSame

LEMMA RefundPays ==
    ASSUME MoneyInv, NEW j \in Job, RefundJob(j), UNCHANGED <<shareVars, deposits, outVars>>
    PROVE  Pays(0)
<1> DEFINE r == [job[j] EXCEPT !.status = "error"]  amount == job[j].reserve
<1>1. amount \in Nat /\ job[j].user \in User /\ balance \in [User -> Int]
      /\ HeldBy(job[j]) = amount /\ DOMAIN job = Job
      /\ DOMAIN job[j] = {"status", "user", "reserve"}
  BY DEF MoneyInv, AccountInv, RefundJob, HeldBy
<1>2. balance' = Posted(balance, job[j].user, amount) /\ job' = [job EXCEPT ![j] = r]
      /\ UNCHANGED grants
  BY <1>1 DEF RefundJob
<1>3. HeldBy(r) = 0
  BY <1>1 DEF HeldBy
<1> HIDE DEF r, amount
<1>4. Total(balance') = Total(balance) + amount
  BY <1>1, <1>2, PostedTotal
<1>5. Held' = Held - amount
  <2>3. AccountInv /\ job' = [job EXCEPT ![j] = r] /\ HeldBy(r) \in Int
    BY <1>1, <1>2, <1>3 DEF MoneyInv
  <2>1. Held' = Held - HeldBy(job[j]) + HeldBy(r)
    BY <2>3, HeldStep, Zenon
  <2>2. Held \in Int
    BY SumTypes
  <2> QED  BY <1>1, <1>3, <2>1, <2>2
<1>6. UNCHANGED <<staked, debt, acc, withdrawal, deposits>>
  BY DEF shareVars, stakingVars, outVars
<1>7. Slack' = Slack
  BY <1>1, <1>2, <1>4, <1>5, <1>6, SlackSame, SumTypes DEF Slack
<1> QED
  BY <1>6, <1>7, AccrualsSame

\* A settlement pays out no more than the charge, and its owner the rest.
LEMMA SettlePays ==
    ASSUME MoneyInv, NEW j \in Job, NEW charge \in Charge, NEW p \in User,
           SettleJob(j, charge, p), PayFee(StakingFee(charge)),
           UNCHANGED <<deposits, outVars>>
    PROVE  Pays(StakingFee(charge))
<1> DEFINE r == [job[j] EXCEPT !.status = "done"]  amount == job[j].reserve
           owner == job[j].user  earn == WorkerEarn(charge)  fee == StakingFee(charge)
           inc == acc' - acc
           paid == Posted(balance, owner, amount - charge)
<1>1. charge \in Nat /\ earn \in Nat /\ fee \in Nat /\ earn + fee <= charge
  BY AccountsAssumption, WorkerEarnType, StakingFeeType, PayOutWithinCharge
<1>2. amount \in Nat /\ owner \in User /\ balance \in [User -> Int]
      /\ HeldBy(job[j]) = amount /\ DOMAIN job = Job
      /\ DOMAIN job[j] = {"status", "user", "reserve"}
  BY DEF MoneyInv, AccountInv, SettleJob, HeldBy
<1>3. balance' = Posted(paid, p, earn) /\ job' = [job EXCEPT ![j] = r] /\ UNCHANGED grants
  BY <1>2 DEF SettleJob
<1>4. HeldBy(r) = 0
  BY <1>2 DEF HeldBy
<1>5. UNCHANGED <<staked, debt, withdrawal, deposits>>
  BY DEF PayFee, outVars
<1> HIDE DEF r
<1>6. Held' = Held - amount
  <2>3. AccountInv /\ job' = [job EXCEPT ![j] = r] /\ HeldBy(r) \in Int
    BY <1>3, <1>4 DEF MoneyInv
  <2>1. Held' = Held - HeldBy(job[j]) + HeldBy(r)
    BY <2>3, HeldStep, Zenon
  <2>2. Held \in Int
    BY SumTypes
  <2> QED  BY <1>2, <1>4, <2>1, <2>2
<1>7. Total(balance') = Total(balance) + (amount - charge) + earn
  <2>1. amount - charge \in Int
    BY <1>1, <1>2
  <2>2. paid \in [User -> Int] /\ Total(paid) = Total(balance) + (amount - charge)
    BY <1>2, <2>1, PostedTotal
  <2> HIDE DEF paid
  <2>3. Total(balance') = Total(paid) + earn
    BY <1>1, <1>3, <2>2, PostedTotal
  <2> QED  BY <2>2, <2>3
<1>8. Slack' = Slack + (charge - earn)
  <2> HIDE DEF amount, earn
  <2>1. Total(grants') = Total(grants) /\ Total(staked') = Total(staked)
        /\ Total(DepositCredits)' = Total(DepositCredits) /\ Total(CashOf)' = Total(CashOf)
    BY <1>3, <1>5, SlackSame
  <2> QED  BY <1>1, <1>2, <1>6, <1>7, <2>1, SumTypes DEF Slack
<1>9. Slack' >= Slack + fee
  <2>1. Slack \in Int
    BY SumTypes
  <2> HIDE DEF earn, fee
  <2> QED  BY <1>1, <1>8, <2>1
<1>10. inc \in Int /\ acc \in Int /\ acc' = acc + inc
       /\ totalStaked \in Int /\ totalStaked * inc <= AccScale * fee
  <2>1. acc \in Nat /\ totalStaked \in Nat /\ AccScale \in Nat /\ fee * AccScale \in Nat
    BY <1>1, StakingAssumption DEF MoneyInv, StakeInv
  <2>2. CASE totalStaked > 0
    <3> DEFINE n == fee * AccScale  q == n \div totalStaked
    <3>1. q \in Int /\ totalStaked * q <= n
      BY <2>1, <2>2, DivBounds
    <3>2. acc' = acc + q
      BY <2>2 DEF PayFee
    <3> HIDE DEF q
    <3>3. inc = q /\ n = AccScale * fee
      BY <1>1, <2>1, <3>1, <3>2
    <3> QED  BY <2>1, <3>1, <3>2, <3>3
  <2>3. CASE ~(totalStaked > 0)
    <3>1. totalStaked = 0 /\ acc' = acc
      BY <2>1, <2>3 DEF PayFee
    <3>2. inc = 0 /\ totalStaked * 0 = 0 /\ AccScale * fee >= 0 /\ acc + 0 = acc
      BY <1>1, <2>1, <3>1
    <3> QED  BY <2>1, <3>1, <3>2
  <2> QED  BY <2>2, <2>3
<1> HIDE DEF inc, fee
<1>11. Total(Accruals)' = Total(Accruals) + totalStaked * inc
  <2> DEFINE f == Accruals  g == [u \in User |-> inc * staked[u]]
  <2>1. f \in [User -> Int] /\ staked \in [User -> Int] /\ IsFiniteSet(User)
    BY LedgerAssumption, SumTypes DEF MoneyInv, StakeInv
  <2>2. g \in [User -> Int] /\ \A u \in User : g[u] = inc * staked[u]
    BY <1>10, <2>1
  <2>3. Accruals' = [u \in User |-> f[u] + g[u]]
    <3>1. ASSUME NEW u \in User
          PROVE  staked[u] * (acc + inc) - debt[u] = (staked[u] * acc - debt[u]) + inc * staked[u]
      <4>1. staked[u] \in Int /\ debt[u] \in Int
        BY DEF MoneyInv, StakeInv
      <4> QED  BY <1>10, <4>1
    <3> QED  BY <1>5, <1>10, <3>1 DEF Accruals, Accrued
  <2> HIDE DEF f, g
  <2>4. Total([u \in User |-> f[u] + g[u]]) = Total(f) + Total(g)
    BY <2>1, <2>2, TotalTogether
  <2>5. Total(g) = inc * Total(staked)
    BY <1>10, <2>1, <2>2, TotalTimes
  <2>6. Total(staked) = totalStaked
    BY DEF MoneyInv, StakeInv
  <2>7. inc * totalStaked = totalStaked * inc
    BY <1>10
  <2> QED  BY <2>3, <2>4, <2>5, <2>6, <2>7 DEF f
<1> QED
  <2> DEFINE t == Total(Accruals)  b == totalStaked * inc  c == AccScale * fee
  <2>1. t \in Int /\ b \in Int /\ c \in Int
    BY <1>1, <1>10, SumTypes, StakingAssumption DEF fee
  <2>2. t' = t + b /\ b <= c
    BY <1>10, <1>11
  <2> HIDE DEF t, b, c
  <2>3. t' <= t + c
    BY <2>1, <2>2
  <2> QED  BY <1>9, <2>3 DEF Pays, t, b, c, fee

\* A staker is paid what it has accrued, or less, and nothing is then owed to it.
LEMMA StakePays ==
    ASSUME MoneyInv, NEW u \in User, StakeMove(u), UNCHANGED <<deposits, outVars>>
    PROVE  \E x \in Int : Pays(x)
<1>1. PICK reward \in Pending(u), delta \in Int, back \in Int :
          /\ PaidOut(u, reward, back) /\ back + delta = 0
          /\ staked[u] + delta \in Nat
          /\ Restaked(u, staked[u] + delta)
          /\ totalStaked' = totalStaked + delta
  BY StakeDelta DEF MoneyInv
<1>2. reward \in Nat /\ Accrued(u) \in Nat /\ AccScale * reward <= Accrued(u)
      /\ AccScale \in Nat
  BY PendingBounds, StakingAssumption DEF MoneyInv
<1>3. balance' = Posted(balance, u, reward + back)
      /\ staked' = [staked EXCEPT ![u] = staked[u] + delta]
      /\ debt' = [debt EXCEPT ![u] = (staked[u] + delta) * acc]
      /\ UNCHANGED <<grants, job, acc, deposits, withdrawal>>
  BY <1>1 DEF PaidOut, Restaked, outVars
<1>4. balance \in [User -> Int] /\ staked \in [User -> Nat] /\ staked \in [User -> Int]
      /\ debt \in [User -> Nat] /\ acc \in Nat /\ reward + back \in Int
  BY <1>1, <1>2 DEF MoneyInv, AccountInv, StakeInv
<1>5. Total(balance') = Total(balance) + (reward + back)
  BY <1>3, <1>4, PostedTotal
<1>6. Total(staked') = Total(staked) + delta
  <2> DEFINE v == staked[u] + delta
  <2>1. v \in Int /\ staked[u] \in Int /\ Total(staked) \in Int
    BY <1>1, <1>4, UserTotals
  <2>2. Total([staked EXCEPT ![u] = v]) = Total(staked) - staked[u] + v
    <3> HIDE DEF v
    <3> QED  BY <1>4, <2>1, UserTotals
  <2> QED  BY <1>3, <2>1, <2>2
<1>7. Slack' = Slack - reward
  <2>1. Total(grants') = Total(grants) /\ Total(DepositCredits)' = Total(DepositCredits)
        /\ Total(CashOf)' = Total(CashOf) /\ Held' = Held
    BY <1>3, SlackSame
  <2>2. back + delta = 0 /\ delta \in Int /\ back \in Int /\ reward \in Int
    BY <1>1, <1>2
  <2>3. (reward + back) + delta = reward
    BY <2>2
  <2> QED  BY <1>5, <1>6, <2>1, <2>2, <2>3, SumTypes DEF Slack
<1>8. Total(Accruals)' = Total(Accruals) - Accrued(u)
  <2> DEFINE f == Accruals  g == Accruals'
  <2>1. f \in [User -> Int] /\ f[u] = Accrued(u)
    BY SumTypes DEF Accruals
  <2>2. g = [f EXCEPT ![u] = 0]
    <3> DEFINE v == staked[u] + delta
    <3>1. v * acc - v * acc = 0
      BY <1>1, <1>4
    <3>2. staked'[u] = v /\ debt'[u] = v * acc /\ acc' = acc
          /\ \A x \in User : x # u => staked'[x] = staked[x] /\ debt'[x] = debt[x]
      BY <1>3, <1>4
    <3> HIDE DEF v
    <3>3. \A x \in User : staked'[x] * acc' - debt'[x] =
                            IF x = u THEN 0 ELSE staked[x] * acc - debt[x]
      BY <3>1, <3>2
    <3>4. g = [x \in User |-> staked'[x] * acc' - debt'[x]]
          /\ f = [x \in User |-> staked[x] * acc - debt[x]]
      BY DEF Accruals, Accrued
    <3> HIDE DEF f, g
    <3> QED  BY <3>3, <3>4
  <2> HIDE DEF f, g
  <2>3. Total([f EXCEPT ![u] = 0]) = Total(f) - f[u] + 0 /\ Total(f) \in Int
    <3>1. 0 \in Int
      OBVIOUS
    <3> QED  BY <2>1, <3>1, UserTotals
  <2>4. Total(f) - f[u] + 0 = Total(f) - f[u]
    BY <1>2, <2>1, <2>3
  <2> QED  BY <2>1, <2>2, <2>3, <2>4 DEF f, g
<1>9. Pays(-reward)
  <2> DEFINE t == Total(Accruals)  a == Accrued(u)  b == AccScale * reward
  <2>1. t \in Int /\ a \in Int /\ b \in Int /\ b <= a /\ Slack \in Int
    BY <1>2, SumTypes
  <2>2. AccScale * (-reward) = -b
    BY <1>2
  <2>3. t' = t - a
    BY <1>8
  <2> HIDE DEF t, a, b
  <2>4. t' <= t + AccScale * (-reward)
    BY <2>1, <2>2, <2>3
  <2>5. Slack' >= Slack + (-reward)
    BY <1>2, <1>7, <2>1
  <2> QED  BY <2>4, <2>5 DEF Pays, t
<1>10. -reward \in Int
  BY <1>2
<1> QED
  BY <1>9, <1>10

LEMMA DepositPays ==
    ASSUME MoneyInv, NEW c \in Claim, CreditDeposit(c), UNCHANGED <<shareVars, outVars>>
    PROVE  Pays(0)
<1>1. UNCHANGED <<staked, debt, acc, withdrawal>>
  BY DEF shareVars, stakingVars, outVars
<1>2. CASE Credited(claim[c].hash)
  <2>1. UNCHANGED <<ledgerVars, deposits>>
    BY <1>2 DEF CreditDeposit
  <2>2. Slack' = Slack
    BY <1>1, <2>1, SlackSame DEF Slack, ledgerVars
  <2> QED  BY <1>1, <2>2, AccrualsSame
<1>3. CASE ~Credited(claim[c].hash)
  <2> DEFINE r == [ref |-> claim[c].hash, user |-> claim[c].user, credits |-> claim[c].credits]
             n == claim[c].credits
  <2>1. deposits' = Append(deposits, r) /\ r.credits = n
        /\ balance' = Posted(balance, claim[c].user, n) /\ UNCHANGED <<grants, job>>
    BY <1>3 DEF CreditDeposit
  <2>2. claim[c].user \in User /\ n \in Int /\ balance \in [User -> Int]
    <3>1. claim[c].phase = "verified" /\ Worth \subseteq Int
      BY DepositsAssumption DEF CreditDeposit
    <3> QED  BY <3>1 DEF MoneyInv, CreditInv, ClaimInv, AccountInv
  <2> HIDE DEF r, n
  <2>3. Total(DepositCredits)' = Total(DepositCredits) + n
    BY <2>1, <2>2, DepositAdded DEF MoneyInv
  <2>4. Total(balance') = Total(balance) + n
    BY <2>1, <2>2, PostedTotal
  <2>5. Slack' = Slack
    BY <1>1, <2>1, <2>2, <2>3, <2>4, SlackSame, SumTypes DEF Slack
  <2> QED  BY <1>1, <2>5, AccrualsSame
<1> QED
  BY <1>2, <1>3

LEMMA RequestPays ==
    ASSUME MoneyInv, RowInv', NEW w \in Withdrawal, NEW credits \in Amounts, NEW u,
           RequestWithdrawal(w, u, credits), UNCHANGED <<shareVars, deposits>>
    PROVE  Pays(0)
<1> DEFINE row == [status |-> "requested", user |-> u, credits |-> credits,
                   day |-> day, signed |-> FALSE]
<1>1. credits \in Nat /\ -credits \in Int /\ balance \in [User -> Int] /\ day \in Nat
  BY LedgerAssumption DEF MoneyInv, AccountInv, RowInv
<1>2. u \in User
  BY DEF RequestWithdrawal, Authorised, MoneyInv, AccountInv
<1>3. /\ balance' = Posted(balance, u, -credits) /\ withdrawal[w].status = "none"
      /\ UNCHANGED <<grants, job>>
  BY DEF RequestWithdrawal
<1>4. withdrawal' = [withdrawal EXCEPT ![w] = row]
  BY DEF RequestWithdrawal
<1>5. \A v \in User : Taken(row, v, Nat) =
              Taken(withdrawal[w], v, Nat) + (IF v = u THEN credits ELSE 0)
  BY <1>1, <1>3 DEF Taken, Standing
<1> HIDE DEF row
<1>6. Total(CashOf)' = Total(CashOf) + credits
  <2>1. RowInv /\ credits \in Int
    BY <1>1 DEF MoneyInv
  <2> QED  BY <1>2, <1>4, <1>5, <2>1, CashOfStep, Zenon
<1>7. Total(balance') = Total(balance) + (-credits)
  BY <1>1, <1>2, <1>3, PostedTotal
<1>8. UNCHANGED <<staked, debt, acc, deposits>>
  BY DEF shareVars, stakingVars
<1>9. Slack' = Slack
  BY <1>1, <1>3, <1>6, <1>7, <1>8, SlackSame, SumTypes DEF Slack
<1> QED
  BY <1>8, <1>9, AccrualsSame

LEMMA HandledPays ==
    ASSUME MoneyInv, RowInv', NEW w \in Withdrawal, Handled(w), UNCHANGED <<shareVars, deposits>>
    PROVE  Pays(0)
<1>1. PICK row : HandledRow(w, row)
  BY HandledKeepsRow DEF MoneyInv
<1> DEFINE u == withdrawal[w].user  credits == withdrawal[w].credits
<1>2. u \in User /\ credits \in Nat /\ -credits \in Int /\ balance \in [User -> Int]
      /\ withdrawal[w].day \in Nat /\ withdrawal[w].status = "requested"
  BY <1>1 DEF HandledRow, MoneyInv, RowInv, AccountInv
<1>3. UNCHANGED <<staked, debt, acc, deposits, grants, job>>
  BY <1>1 DEF HandledRow, shareVars, stakingVars
<1>4. RowInv /\ withdrawal' = [withdrawal EXCEPT ![w] = row]
  BY <1>1 DEF HandledRow, MoneyInv
<1>5. CASE row.status \in Standing /\ UNCHANGED balance
  <2>1. \A v \in User : Taken(row, v, Nat) = Taken(withdrawal[w], v, Nat) + (IF v = u THEN 0 ELSE 0)
    BY <1>1, <1>2, <1>5 DEF HandledRow, Taken, Standing
  <2> HIDE DEF u
  <2>2. 0 \in Int
    OBVIOUS
  <2>3. Total(CashOf)' = Total(CashOf) + 0
    BY <1>2, <1>4, <2>1, <2>2, CashOfStep, Zenon
  <2>4. Slack' = Slack
    BY <1>3, <1>5, <2>3, SlackSame, SumTypes DEF Slack
  <2> QED  BY <1>3, <2>4, AccrualsSame
<1>6. CASE row.status = "failed" /\ balance' = Posted(balance, u, credits)
  <2>1. \A v \in User : Taken(row, v, Nat) =
                Taken(withdrawal[w], v, Nat) + (IF v = u THEN -credits ELSE 0)
    BY <1>1, <1>2, <1>6 DEF HandledRow, Taken, Standing
  <2> HIDE DEF u, credits
  <2>2. Total(CashOf)' = Total(CashOf) + (-credits)
    BY <1>2, <1>4, <2>1, CashOfStep, Zenon
  <2>3. Total(balance') = Total(balance) + credits
    BY <1>2, <1>6, PostedTotal
  <2>4. Slack' = Slack
    BY <1>2, <1>3, <2>2, <2>3, SlackSame, SumTypes DEF Slack
  <2> QED  BY <1>3, <2>4, AccrualsSame
<1> QED
  BY <1>1, <1>5, <1>6 DEF HandledRow

LEMMA MoveIsPaid ==
    ASSUME MoneyInv, MoneyInv', [MoneyNext]_moneyVars
    PROVE  \E x \in Int : Pays(x)
<1>0. 0 \in Int
  OBVIOUS
<1>1. ASSUME NEW u \in User, Login(u), UNCHANGED <<shareVars, deposits, outVars>>
      PROVE  \E x \in Int : Pays(x)
  BY <1>0, <1>1, LoginPays
<1>2. ASSUME JobMove, UNCHANGED <<rounds, deposits, outVars>>
      PROVE  \E x \in Int : Pays(x)
  <2>1. ASSUME NEW j \in Job, NEW u \in User, NEW amount \in Amounts, Reserve(j, u, amount),
               UNCHANGED <<stakingVars, fair>>
        PROVE  Pays(0)
    BY <1>2, <2>1, ReservePays DEF shareVars
  <2>2. ASSUME NEW j \in Job, RefundJob(j), UNCHANGED <<stakingVars, fair>>
        PROVE  Pays(0)
    BY <1>2, <2>2, RefundPays DEF shareVars
  <2>3. ASSUME NEW j \in Job, NEW charge \in Charge, NEW p \in User,
               SettleJob(j, charge, p), PayFee(StakingFee(charge))
        PROVE  \E x \in Int : Pays(x)
    <3>1. StakingFee(charge) \in Int
      BY AccountsAssumption, StakingFeeType
    <3>2. Pays(StakingFee(charge))
      BY <1>2, <2>3, SettlePays
    <3> QED  BY <3>1, <3>2
  <2> QED  BY <1>0, <1>2, <2>1, <2>2, <2>3 DEF JobMove
<1>3. ASSUME NEW u \in User, StakeMove(u), UNCHANGED <<deposits, outVars>>
      PROVE  \E x \in Int : Pays(x)
  BY <1>3, StakePays
<1>4. ASSUME NEW c \in Claim, CreditDeposit(c), UNCHANGED <<shareVars, outVars>>
      PROVE  \E x \in Int : Pays(x)
  BY <1>0, <1>4, DepositPays
<1>5. ASSUME NEW w \in Withdrawal, NEW credits \in Amounts, NEW u,
             RequestWithdrawal(w, u, credits), UNCHANGED <<shareVars, deposits>>
      PROVE  \E x \in Int : Pays(x)
  BY <1>0, <1>5, RequestPays DEF MoneyInv
<1>6. ASSUME NEW w \in Withdrawal, Handled(w), UNCHANGED <<shareVars, deposits>>
      PROVE  \E x \in Int : Pays(x)
  BY <1>0, <1>6, HandledPays DEF MoneyInv
<1>7. ASSUME UNCHANGED <<ledgerVars, withdrawal, shareVars, deposits>>
      PROVE  Pays(0)
  <2>1. UNCHANGED <<staked, debt, acc>> /\ Slack' = Slack
    BY <1>7, SlackSame DEF Slack, ledgerVars, shareVars, stakingVars
  <2> QED  BY <2>1, AccrualsSame
<1> QED
  BY <1>0, <1>1, <1>2, <1>3, <1>4, <1>5, <1>6, <1>7 DEF MoneyNext, moneyVars, outVars, NextDay

LEMMA CoveredInit == Init => Covered
<1> SUFFICES ASSUME Init PROVE Covered
  OBVIOUS
<1> USE DEF Init
<1>1. MoneyInv /\ IsFiniteSet(User) /\ IsFiniteSet(Job)
  BY MoneyInvInit, LedgerAssumption
<1>2. Total(grants) = 0 /\ Total(balance) = 0 /\ Total(staked) = 0
  <2>1. \A f : f = [u \in User |-> 0] => f \in [User -> Int] /\ \A u \in User : f[u] = 0
    OBVIOUS
  <2>2. Total([u \in User |-> 0]) = 0
    BY <1>1, <2>1, TotalZero
  <2> QED  BY <2>2 DEF LedgerInit, StakingInit
<1>3. Total(Accruals) = 0
  <2>1. Accruals \in [User -> Int]
    BY <1>1, SumTypes
  <2>2. \A u \in User : Accruals[u] = 0
    BY DEF Accruals, Accrued, StakingInit
  <2> QED  BY <1>1, <2>1, <2>2, TotalZero
<1>4. Total(CashOf) = 0
  <2>1. CashOf \in [User -> Int]
    BY <1>1, CashOfType DEF MoneyInv
  <2>2. ASSUME NEW u \in User PROVE CashOf[u] = 0
    <3>1. Total(Cash(u, Nat)) <= hardIn[u] /\ hardIn[u] = 0
      BY <1>1 DEF MoneyInv, CashInv, LedgerInit
    <3>2. Total(Cash(u, Nat)) \in Nat
      BY <1>1, CashType DEF MoneyInv
    <3> QED  BY <3>1, <3>2 DEF CashOf
  <2> QED  BY <1>1, <2>1, <2>2, TotalZero
<1>5. Total(DepositCredits) = 0
  <2>1. DepositCredits \in [{} -> Int] /\ IsFiniteSet({})
    BY FS_EmptySet DEF DepositsInit, DepositCredits
  <2> QED  BY <2>1, TotalZero
<1>6. Held = 0
  <2> DEFINE f == [j \in Job |-> HeldBy(job[j])]
  <2>1. f \in [Job -> Int] /\ Held = Total(f)
    BY <1>1, HeldType DEF MoneyInv
  <2>2. \A j \in Job : f[j] = 0
    BY DEF LedgerInit, NoJob, HeldBy
  <2> HIDE DEF f
  <2> QED  BY <1>1, <2>1, <2>2, TotalZero
<1>7. AccScale \in Int
  BY StakingAssumption
<1> QED
  BY <1>2, <1>3, <1>4, <1>5, <1>6, <1>7 DEF Covered, Slack

LEMMA CoveredAlways == Spec => [](MoneyInv /\ Covered)
<1>1. MoneyInv /\ Covered /\ [Next]_vars => MoneyInv' /\ Covered'
  <2> SUFFICES ASSUME MoneyInv, Covered, [Next]_vars PROVE MoneyInv' /\ Covered'
    OBVIOUS
  <2>1. MoneyInv' /\ [MoneyNext]_moneyVars
    BY MoneyInvNext, MoneyMoves
  <2>2. PICK x \in Int : Pays(x)
    BY <2>1, MoveIsPaid
  <2>4. Total(Accruals)' \in Int /\ Slack' \in Int
    BY <2>1, SumTypesNext
  <2>5. Total(Accruals)' <= AccScale * Slack'
    BY <2>2, <2>4, CoveredStep DEF Pays
  <2> QED  BY <2>1, <2>5 DEF Covered
<1> QED
  BY <1>1, MoneyInvInit, CoveredInit, PTL DEF Spec

\* NoCreditsFromNothing of Accounts, for any number of users, jobs, deposits and
\* withdrawals, whatever a job is charged: the parts share one ledger and none
\* of them, nor a failure between two of their steps, makes credits.
THEOREM CreditsAreFunded == Spec => []NoCreditsFromNothing
<1>1. ASSUME MoneyInv, Covered PROVE NoCreditsFromNothing
  <2> DEFINE q == [u \in User |-> Accrued(u) \div AccScale]
             bs == [u \in User |-> balance[u] + staked[u]]
             bsc == [u \in User |-> bs[u] + CashOf[u]]
             all == [u \in User |-> bsc[u] + q[u]]
  <2>1. IsFiniteSet(User) /\ AccScale \in Nat \ {0}
    BY LedgerAssumption, StakingAssumption
  <2>2. balance \in [User -> Int] /\ staked \in [User -> Int] /\ CashOf \in [User -> Int]
    BY <1>1, CashOfType DEF MoneyInv, AccountInv, StakeInv
  <2>3. Accruals \in [User -> Int]
    BY <1>1, SumTypes
  <2>4. q \in [User -> Int] /\ \A u \in User : AccScale * q[u] <= Accruals[u]
    BY <2>1, <2>3, DivBounds DEF Accruals
  <2>5. bs \in [User -> Int] /\ bsc \in [User -> Int]
    BY <2>2
  <2>6. all = [u \in User |-> balance[u] + staked[u] + CashedOut(u, 0 .. day)
                              + Accrued(u) \div AccScale]
    BY <1>1, WithdrawnIsCash DEF MoneyInv, CashOf
  <2>7. Total(bs) = Total(balance) + Total(staked)
    BY <2>1, <2>2, TotalTogether
  <2> HIDE DEF bs, q
  <2>8. Total(bsc) = Total(bs) + Total(CashOf)
    BY <2>1, <2>2, <2>5, TotalTogether
  <2> HIDE DEF bsc
  <2>9. Total(all) = Total(bsc) + Total(q)
    BY <2>1, <2>4, <2>5, TotalTogether
  <2> HIDE DEF all
  <2>10. AccScale * Total(q) <= Total(Accruals) /\ Total(q) \in Int
    <3>1. AccScale \in Int
      BY <2>1
    <3>2. AccScale * Total(q) <= Total(Accruals)
      BY <2>1, <2>3, <2>4, <3>1, TotalScaled
    <3> QED  BY <2>1, <2>4, <3>2, TotalType
  <2>11. Total(q) <= Slack
    <3>1. \A a, b \in Int : AccScale * a <= AccScale * b => a <= b
      BY <2>1
    <3>2. Slack \in Int /\ Total(Accruals) \in Int /\ Total(Accruals) <= AccScale * Slack
      BY <1>1, SumTypes DEF Covered
    <3>3. AccScale * Total(q) \in Int /\ AccScale * Slack \in Int
      BY <2>1, <2>10, <3>2
    <3>4. AccScale * Total(q) <= AccScale * Slack
      BY <2>10, <3>2, <3>3
    <3> QED  BY <2>10, <3>1, <3>2, <3>4
  <2>12. Total(all) + Held <= Total(grants) + Total(DepositCredits)
    BY <1>1, <2>7, <2>8, <2>9, <2>10, <2>11, SumTypes DEF Slack
  <2> QED  BY <2>6, <2>12 DEF NoCreditsFromNothing, DepositCredits
<1> QED
  BY <1>1, CoveredAlways, PTL

-----------------------------------------------------------------------------
(***************************************************************************)
(* The stakers' shares.                                                    *)
(***************************************************************************)
\* The premise of the model's arithmetic (Staking): a fee divides exactly.
Divides == totalStaked > 0 => \E k \in Nat : AccScale = totalStaked * k

\* What u was paid and has accrued, in units of 1 / AccScale.
Got(u) == rewarded[u] * AccScale + Accrued(u)

HistoryInv == fair \in [User -> Nat] /\ rounds \in [User -> Nat]

NoneGetsMore == \A u \in User : Got(u) <= fair[u]
NoneGetsLess == \A u \in User : fair[u] <= Got(u) + rounds[u] * AccScale

\* No one has staked more than everyone.
LEMMA StakedBound ==
    ASSUME StakeInv, NEW u \in User
    PROVE  staked[u] \in Nat /\ totalStaked \in Nat /\ staked[u] <= totalStaked
<1> DEFINE f == staked  g == [f EXCEPT ![u] = 0]
<1>1. f \in [User -> Int] /\ (\A x \in User : f[x] \in Nat) /\ 0 \in Int
  BY DEF StakeInv
<1>2. g \in [User -> Int] /\ \A x \in User : g[x] \in Nat
  BY <1>1
<1> HIDE DEF f
<1>3. Total(g) = Total(f) - f[u] + 0
  BY <1>1, UserTotals
<1> HIDE DEF g
<1>4. Total(g) \in Nat /\ Total(f) \in Nat
  BY <1>1, <1>2, UserTotals
<1>5. f[u] <= Total(f)
  BY <1>1, <1>3, <1>4
<1> QED
  BY <1>1, <1>5 DEF f, StakeInv

\* A share of s out of t, rounded down, against s times what one gets.
LEMMA ShareBounds ==
    ASSUME NEW s \in Nat, NEW t \in Nat \ {0}, NEW x \in Nat
    PROVE  /\ x \div t \in Nat /\ s * (x \div t) \in Nat /\ (s * x) \div t \in Nat
           /\ s * (x \div t) <= (s * x) \div t
           /\ \A k \in Nat : x = t * k => s * (x \div t) = (s * x) \div t
<1> DEFINE q == x \div t  n == s * x  r == n \div t
<1>1. q \in Int /\ q >= 0 /\ t * q <= x
  BY DivBounds
<1>2. n \in Nat
  OBVIOUS
<1> HIDE DEF n
<1>3. r \in Int /\ r >= 0 /\ t * r <= n /\ n < t * r + t
  BY <1>2, DivBounds
<1> HIDE DEF q, r
<1>4. s * q \in Nat
  BY <1>1
<1>5. t * (s * q) <= n
  <2>1. s * (t * q) <= s * x
    <3>1. t * q \in Nat
      BY <1>1
    <3> QED  BY <1>1, <3>1, TimesMonotone
  <2>2. s * (t * q) = t * (s * q)
    BY <1>1
  <2> QED  BY <2>1, <2>2 DEF n
<1>6. \A p \in Nat : t * p <= n => p <= r
  <2>1. ASSUME NEW p \in Nat, t * p <= n, p > r PROVE FALSE
    <3>1. r + 1 <= p /\ r + 1 \in Nat
      BY <1>3, <2>1
    <3>2. t * (r + 1) <= t * p
      BY <3>1, TimesMonotone
    <3>3. t * (r + 1) = t * r + t /\ t * r \in Int /\ t * p \in Int
      BY <1>3
    <3> QED  BY <1>2, <1>3, <2>1, <3>2, <3>3
  <2> QED  BY <1>3, <2>1
<1>7. s * q <= r
  BY <1>4, <1>5, <1>6
<1>8. ASSUME NEW k \in Nat, x = t * k PROVE s * q = r
  <2>1. n = t * (s * k) /\ s * k \in Nat
    BY <1>8 DEF n
  <2>2. \A a, b \in Int : t * a = t * b => a = b
    OBVIOUS
  <2>3. q = k
    <3>1. x < t * q + t
      BY DivBounds DEF q
    <3>2. ~(q < k)
      <4>1. ASSUME q + 1 <= k PROVE FALSE
        <5>1. t * (q + 1) <= t * k
          BY <1>1, <4>1, TimesMonotone
        <5>2. t * (q + 1) = t * q + t
          BY <1>1
        <5> QED  BY <1>1, <1>8, <3>1, <5>1, <5>2
      <4> QED  BY <1>1, <4>1
    <3>3. ~(k < q)
      <4>1. ASSUME k + 1 <= q PROVE FALSE
        <5>1. t * (k + 1) <= t * q
          BY <1>1, <4>1, TimesMonotone
        <5>2. t * (k + 1) = t * k + t
          OBVIOUS
        <5> QED  BY <1>1, <1>8, <5>1, <5>2
      <4> QED  BY <1>1, <4>1
    <3> QED  BY <1>1, <3>2, <3>3
  <2>4. t * r <= t * (s * k) /\ t * (s * k) < t * r + t
    BY <1>3, <2>1
  <2>5. r = s * k
    <3>1. s * k <= r
      BY <1>6, <2>1
    <3>2. ~(s * k < r)
      <4> DEFINE p == s * k
      <4>1. ASSUME p + 1 <= r PROVE FALSE
        <5>1. t * (p + 1) <= t * r
          BY <1>3, <2>1, <4>1, TimesMonotone
        <5>2. t * (p + 1) = t * p + t /\ t * p \in Int /\ t * r \in Int
          BY <1>3, <2>1
        <5> QED  BY <2>4, <5>1, <5>2
      <4> QED  BY <1>3, <2>1, <4>1
    <3> QED  BY <1>3, <2>1, <3>1, <3>2
  <2> QED  BY <2>3, <2>5
<1> QED
  BY <1>1, <1>3, <1>4, <1>7, <1>8 DEF q, r, n

\* A fee accrues to u what is its share, or what is left of it by the rounding.
LEMMA FeeShared ==
    ASSUME StakeInv, NEW fee \in Nat, PayFee(fee), NEW u \in User
    PROVE  /\ Accrued(u) \in Int /\ Accrued(u)' \in Int /\ ShareOf(u, fee) \in Nat
           /\ Got(u)' <= Got(u) + ShareOf(u, fee)
           /\ Divides => Got(u)' = Got(u) + ShareOf(u, fee)
<1> DEFINE s == staked[u]  t == totalStaked  x == fee * AccScale  q == x \div t
<1>1. /\ s \in Nat /\ t \in Nat /\ s <= t /\ x \in Nat /\ debt[u] \in Nat /\ acc \in Nat
      /\ rewarded[u] \in Nat /\ AccScale \in Nat /\ t = Total(staked)
  BY StakedBound, StakingAssumption DEF StakeInv
<1>2. UNCHANGED <<staked, debt, rewarded>>
  BY DEF PayFee
<1>3. Accrued(u) = s * acc - debt[u] /\ Accrued(u)' = s * acc' - debt[u]
      /\ Got(u) = rewarded[u] * AccScale + Accrued(u)
      /\ Got(u)' = rewarded[u] * AccScale + Accrued(u)'
  BY <1>2 DEF Accrued, Got
<1>4. s * acc \in Int /\ rewarded[u] * AccScale \in Int
  BY <1>1
<1>5. ASSUME NEW d \in Int, NEW share \in Nat, acc' = acc + d,
             s * d <= share, Divides => s * d = share
      PROVE  /\ Accrued(u) \in Int /\ Accrued(u)' \in Int
             /\ Got(u)' <= Got(u) + share
             /\ Divides => Got(u)' = Got(u) + share
  <2>1. s * acc' = s * acc + s * d /\ s * d \in Int
    BY <1>1, <1>5
  <2> DEFINE a == s * acc  b == s * d  r == rewarded[u] * AccScale
  <2>2. a \in Int /\ b \in Int /\ r \in Int /\ s * acc' = a + b /\ b <= share
        /\ (Divides => b = share)
    BY <1>4, <1>5, <2>1
  <2>3. Accrued(u) = a - debt[u] /\ Accrued(u)' = (a + b) - debt[u]
        /\ Got(u) = r + (a - debt[u]) /\ Got(u)' = r + ((a + b) - debt[u])
    BY <1>3, <2>2
  <2> HIDE DEF a, b, r
  <2> QED  BY <1>1, <2>2, <2>3
<1> HIDE DEF s, t, x
<1>6. CASE t = 0
  <2>1. s = 0 /\ ShareOf(u, fee) = 0 /\ acc' = acc
    BY <1>1, <1>6 DEF ShareOf, PayFee, s, t
  <2>2. 0 \in Int /\ 0 \in Nat /\ acc' = acc + 0 /\ s * 0 = 0
    BY <1>1, <2>1
  <2> QED  BY <1>5, <2>1, <2>2
<1>7. CASE t # 0
  <2>1. t \in Nat \ {0} /\ t > 0
    BY <1>1, <1>7
  <2>2. acc' = acc + q
    BY <2>1 DEF PayFee, t, x
  <2>3. /\ q \in Nat /\ s * q \in Nat /\ (s * x) \div t \in Nat
        /\ s * q <= (s * x) \div t
        /\ \A k \in Nat : x = t * k => s * q = (s * x) \div t
    <3>1. s \in Nat /\ t \in Nat \ {0} /\ x \in Nat
      BY <1>1, <2>1
    <3> QED  BY <3>1, ShareBounds, Zenon
  <2>4. Divides => s * q = (s * x) \div t
    <3>1. ASSUME NEW k \in Nat, AccScale = t * k PROVE s * q = (s * x) \div t
      <4>1. x = t * (fee * k) /\ fee * k \in Nat
        BY <1>1, <3>1 DEF x
      <4> QED  BY <2>3, <4>1
    <3> QED  BY <2>1, <3>1 DEF Divides, t
  <2>5. ShareOf(u, fee) = (s * x) \div t
    <3>1. s * fee * AccScale = s * x
      BY <1>1 DEF x
    <3>2. CASE s # 0
      BY <1>1, <3>1, <3>2 DEF ShareOf, s, t
    <3>3. CASE s = 0
      <4>1. s * q = 0 /\ s * x = 0
        BY <1>1, <2>3, <3>3
      <4>2. \A z \in Nat \ {0} : 0 \div z = 0
        OBVIOUS
      <4>3. (s * x) \div t = 0
        BY <2>1, <4>1, <4>2
      <4> QED  BY <3>3, <4>3 DEF ShareOf, s
    <3> QED  BY <3>2, <3>3
  <2> DEFINE share == (s * x) \div t
  <2>6. q \in Int /\ share \in Nat /\ s * q <= share /\ (Divides => s * q = share)
    BY <2>3, <2>4
  <2> HIDE DEF q, share
  <2>7. /\ Accrued(u) \in Int /\ Accrued(u)' \in Int
        /\ Got(u)' <= Got(u) + share
        /\ Divides => Got(u)' = Got(u) + share
    BY <1>5, <2>2, <2>6
  <2> QED  BY <2>5, <2>6, <2>7 DEF share
<1> QED
  BY <1>6, <1>7

\* A staker's operation pays what it had accrued but for less than a credit, or
\* at most one.
LEMMA PaidRounded ==
    ASSUME StakeInv, AccountInv, NEW u \in User, StakeMove(u), NEW v \in User
    PROVE  /\ v # u => Got(v)' = Got(v) /\ rounds'[v] = rounds[v]
           /\ v = u => Got(v)' <= Got(v) /\ Got(v) <= Got(v)' + AccScale
           /\ fair' = fair
<1>1. PICK reward \in Pending(u), delta \in Int, back \in Int :
          /\ PaidOut(u, reward, back)
          /\ staked[u] + delta \in Nat
          /\ Restaked(u, staked[u] + delta)
  BY StakeDelta
<1>2. reward \in Nat /\ Accrued(u) \in Nat /\ AccScale * reward <= Accrued(u)
      /\ Accrued(u) <= AccScale * reward + AccScale /\ AccScale \in Nat
  BY PendingBounds, StakingAssumption
<1>3. /\ rewarded' = [rewarded EXCEPT ![u] = @ + reward]
      /\ staked' = [staked EXCEPT ![u] = staked[u] + delta]
      /\ debt' = [debt EXCEPT ![u] = (staked[u] + delta) * acc]
      /\ UNCHANGED acc /\ UNCHANGED fair
  BY <1>1 DEF PaidOut, Restaked, Posted, StakeMove
<1>4. DOMAIN rewarded = User /\ DOMAIN staked = User /\ DOMAIN debt = User
      /\ rewarded[u] \in Nat /\ acc \in Nat
  BY DEF StakeInv
<1>5. ASSUME v # u PROVE Got(v)' = Got(v)
  BY <1>3, <1>4, <1>5 DEF Got, Accrued
<1>6. ASSUME v = u PROVE Got(v)' <= Got(v) /\ Got(v) <= Got(v)' + AccScale
  <2> DEFINE s == staked[u] + delta  a == rewarded[u] * AccScale  b == AccScale * reward
  <2>1. Accrued(u)' = s * acc - s * acc
    BY <1>3, <1>4 DEF Accrued
  <2>2. s * acc - s * acc = 0
    BY <1>1, <1>4
  <2>3. (rewarded[u] + reward) * AccScale = a + b /\ a \in Int /\ b \in Int
    BY <1>2, <1>4
  <2>4. Got(u)' = (rewarded[u] + reward) * AccScale + Accrued(u)' /\ Got(u) = a + Accrued(u)
    BY <1>3, <1>4 DEF Got
  <2> HIDE DEF s, a
  <2>5. Got(u)' = a + b
    BY <2>1, <2>2, <2>3, <2>4
  <2> HIDE DEF b
  <2>6. b <= Accrued(u) /\ Accrued(u) <= b + AccScale
    BY <1>2 DEF b
  <2> QED  BY <1>2, <1>6, <2>3, <2>4, <2>5, <2>6
<1>7. v # u => rounds'[v] = rounds[v]
  BY DEF StakeMove
<1> QED
  BY <1>3, <1>5, <1>6, <1>7

LEMMA FairNext ==
    ASSUME MoneyInv, MoneyInv', HistoryInv, NoneGetsMore, [MoneyNext]_moneyVars
    PROVE  /\ HistoryInv' /\ NoneGetsMore'
           /\ NoneGetsLess /\ Divides => NoneGetsLess'
<1> USE DEF HistoryInv, NoneGetsMore, NoneGetsLess
<1>0. AccScale \in Nat /\ \A u \in User : Got(u) \in Int
  <2>1. AccScale \in Nat
    BY StakingAssumption
  <2>2. ASSUME NEW u \in User PROVE Got(u) \in Int
    <3>1. Accrued(u) \in Int
      BY SumTypes DEF Accruals
    <3>2. rewarded[u] \in Nat
      BY DEF MoneyInv, StakeInv
    <3> QED  BY <2>1, <3>1, <3>2 DEF Got
  <2> QED  BY <2>1, <2>2
<1>1. CASE UNCHANGED shareVars
  <2>1. \A u \in User : Got(u)' = Got(u)
    BY <1>1 DEF Got, Accrued, shareVars, stakingVars
  <2> QED  BY <1>1, <2>1 DEF shareVars
<1>2. ASSUME UNCHANGED <<stakingVars, fair, rounds>> PROVE UNCHANGED shareVars
  BY <1>2 DEF shareVars
<1>3. ASSUME NEW j \in Job, NEW charge \in Charge, NEW p \in User,
             PayFee(StakingFee(charge)),
             fair' = [u \in User |-> fair[u] + ShareOf(u, StakingFee(charge))],
             UNCHANGED rounds
      PROVE  /\ HistoryInv' /\ NoneGetsMore'
             /\ NoneGetsLess /\ Divides => NoneGetsLess'
  <2> DEFINE fee == StakingFee(charge)
  <2>1. fee \in Nat
    BY AccountsAssumption, StakingFeeType
  <2> HIDE DEF fee
  <2>2. fair' = [u \in User |-> fair[u] + ShareOf(u, fee)] /\ PayFee(fee)
    BY <1>3 DEF fee
  <2>3. ASSUME NEW u \in User
        PROVE  /\ Accrued(u)' \in Int /\ ShareOf(u, fee) \in Nat
               /\ Got(u)' <= Got(u) + ShareOf(u, fee)
               /\ Divides => Got(u)' = Got(u) + ShareOf(u, fee)
    BY <2>1, <2>2, FeeShared DEF MoneyInv
  <2>4. ASSUME NEW u \in User PROVE Got(u)' \in Int
    <3>1. rewarded'[u] \in Nat
      BY <2>2 DEF PayFee, MoneyInv, StakeInv
    <3> QED  BY <1>0, <2>3, <3>1 DEF Got
  <2>5. fair' \in [User -> Nat]
    BY <2>2, <2>3
  <2>6. ASSUME NEW u \in User
        PROVE  /\ Got(u)' <= fair'[u]
               /\ NoneGetsLess /\ Divides => fair'[u] <= Got(u)' + rounds'[u] * AccScale
    <3>1. fair'[u] = fair[u] + ShareOf(u, fee) /\ rounds'[u] = rounds[u]
      BY <1>3, <2>2
    <3>2. Got(u) \in Int /\ Got(u)' \in Int /\ fair[u] \in Nat /\ ShareOf(u, fee) \in Nat
          /\ rounds[u] * AccScale \in Int
      BY <1>0, <2>3, <2>4
    <3>3. Got(u) <= fair[u]
      OBVIOUS
    <3>4. Got(u)' <= fair'[u]
      BY <2>3, <3>1, <3>2, <3>3
    <3>5. ASSUME NoneGetsLess, Divides
          PROVE  fair'[u] <= Got(u)' + rounds'[u] * AccScale
      <4>1. fair[u] <= Got(u) + rounds[u] * AccScale
        BY <3>5
      <4>2. Got(u)' = Got(u) + ShareOf(u, fee)
        BY <2>3, <3>5
      <4> DEFINE n == rounds[u] * AccScale
      <4>3. rounds'[u] * AccScale = n /\ n \in Int /\ fair[u] <= Got(u) + n
        BY <3>1, <3>2, <4>1
      <4> HIDE DEF n
      <4> QED  BY <3>1, <3>2, <4>2, <4>3
    <3> QED  BY <3>4, <3>5
  <2> QED  BY <1>3, <2>5, <2>6
<1>4. ASSUME NEW u \in User, StakeMove(u)
      PROVE  /\ HistoryInv' /\ NoneGetsMore'
             /\ NoneGetsLess /\ Divides => NoneGetsLess'
  <2>1. \A v \in User :
           /\ v # u => Got(v)' = Got(v) /\ rounds'[v] = rounds[v]
           /\ v = u => Got(v)' <= Got(v) /\ Got(v) <= Got(v)' + AccScale
           /\ fair' = fair
    BY <1>4, PaidRounded DEF MoneyInv
  <2>2. rounds' = [rounds EXCEPT ![u] = @ + 1]
    BY <1>4 DEF StakeMove
  <2>3. rounds' \in [User -> Nat] /\ fair' = fair
    BY <2>1, <2>2
  <2>4. Got(u)' \in Int
    <3>1. StakeInv'
      BY DEF MoneyInv
    <3>2. staked'[u] \in Nat /\ acc' \in Nat /\ debt'[u] \in Nat /\ rewarded'[u] \in Nat
      BY <3>1 DEF StakeInv
    <3>3. staked'[u] * acc' \in Int /\ rewarded'[u] * AccScale \in Int
      BY <1>0, <3>2
    <3> QED  BY <3>2, <3>3 DEF Got, Accrued
  <2>5. ASSUME NEW v \in User
        PROVE  /\ Got(v)' <= fair'[v]
               /\ NoneGetsLess => fair'[v] <= Got(v)' + rounds'[v] * AccScale
    <3>1. CASE v # u
      BY <2>1, <3>1
    <3>2. CASE v = u
      <4>1. (rounds[u] + 1) * AccScale = rounds[u] * AccScale + AccScale
            /\ rounds[u] * AccScale \in Int /\ rounds'[u] = rounds[u] + 1
        <5>1. rounds[u] \in Nat /\ AccScale \in Nat
          BY <1>0
        <5>2. rounds'[u] = rounds[u] + 1
          BY <2>2
        <5> HIDE DEF HistoryInv, NoneGetsMore, NoneGetsLess
        <5> QED  BY <5>1, <5>2
      <4> DEFINE n == rounds[u] * AccScale
      <4>2. n \in Int /\ rounds'[u] * AccScale = n + AccScale /\ fair[u] \in Nat
            /\ Got(u) <= fair[u] /\ (NoneGetsLess => fair[u] <= Got(u) + n)
        BY <4>1
      <4> HIDE DEF n, NoneGetsLess
      <4>3. Got(u) \in Int /\ Got(u)' \in Int /\ fair'[u] = fair[u]
            /\ Got(u)' <= Got(u) /\ Got(u) <= Got(u)' + AccScale
        BY <1>0, <2>1, <2>3, <2>4
      <4> QED  BY <1>0, <3>2, <4>2, <4>3
    <3> QED  BY <3>1, <3>2
  <2> QED  BY <2>3, <2>5
<1> HIDE DEF HistoryInv, NoneGetsMore, NoneGetsLess
<1> QED
  BY <1>1, <1>2, <1>3, <1>4 DEF MoneyNext, JobMove, moneyVars, shareVars

LEMMA HistoryInit == Init => HistoryInv /\ NoneGetsMore /\ NoneGetsLess
<1> SUFFICES ASSUME Init PROVE HistoryInv /\ NoneGetsMore /\ NoneGetsLess
  OBVIOUS
<1>1. AccScale \in Nat
  BY StakingAssumption
<1>2. \A u \in User : fair[u] = 0 /\ rounds[u] = 0 /\ rewarded[u] = 0 /\ Accrued(u) = 0
  BY DEF Init, StakingInit, Accrued
<1>3. \A u \in User : Got(u) = 0
  BY <1>1, <1>2 DEF Got
<1>4. HistoryInv
  BY DEF Init, HistoryInv
<1> QED
  BY <1>1, <1>2, <1>3, <1>4 DEF NoneGetsMore, NoneGetsLess

\* Whatever the fees and the stakes and however they divide, and whenever a
\* staker came, staked more, left or claimed: it is paid no more than its exact
\* share of the fees paid while it was staked.
THEOREM SharesAreBounded == Spec => [](\A u \in User : Got(u) <= fair[u])
<1>1. Init => MoneyInv /\ HistoryInv /\ NoneGetsMore
  BY MoneyInvInit, HistoryInit
<1>2. MoneyInv /\ HistoryInv /\ NoneGetsMore /\ [Next]_vars
        => (MoneyInv /\ HistoryInv /\ NoneGetsMore)'
  BY MoneyInvNext, MoneyMoves, FairNext
<1>3. NoneGetsMore => \A u \in User : Got(u) <= fair[u]
  BY DEF NoneGetsMore
<1> QED
  BY <1>1, <1>2, <1>3, PTL DEF Spec

\* FairShare of Accounts where, as the arithmetic of the model has it, AccScale
\* is a multiple of whatever is staked: each staker gets its exact share but for
\* less than a credit (at most one) at each of its operations.
THEOREM SharesAreFair == Spec /\ []Divides => []FairShare
<1> DEFINE I == MoneyInv /\ HistoryInv /\ NoneGetsMore /\ NoneGetsLess
<1>1. Init => I
  BY MoneyInvInit, HistoryInit
<1>2. I /\ Divides /\ [Next]_vars => I'
  BY MoneyInvNext, MoneyMoves, FairNext
<1>3. I => FairShare
  BY DEF NoneGetsMore, NoneGetsLess, Got, FairShare
<1> HIDE DEF I
<1> QED
  BY <1>1, <1>2, <1>3, PTL DEF Spec

-----------------------------------------------------------------------------
(***************************************************************************)
(* The types of everything.                                                *)
(***************************************************************************)
\* What is read of a source is read between the request and its answer.
PriceTypes ==
    /\ clock \in Nat /\ cached \in 0 .. clock /\ at \in 0 .. clock
    /\ \A c \in Caller : call[c].start <= clock

LEMMA PriceTypesNext ==
    ASSUME PriceInv, PriceTypes, [PriceNext]_priceVars
    PROVE  PriceTypes'
<1> USE PriceAssumption DEF PriceInv, PriceTypes, Waits, NoPrice
<1>1. CASE UNCHANGED priceVars
  BY <1>1 DEF priceVars
<1>2. CASE Tick
  BY <1>2 DEF Tick
<1>3. ASSUME NEW c \in Caller, AskPrice(c) PROVE PriceTypes'
  BY <1>3 DEF AskPrice, Return
<1>4. ASSUME NEW c \in Caller, SourceAnswers(c) PROVE PriceTypes'
  BY <1>4 DEF SourceAnswers, Return
<1>5. ASSUME NEW c \in Caller, SourceFails(c) PROVE PriceTypes'
  BY <1>5 DEF SourceFails, Return
<1> QED
  BY <1>1, <1>2, <1>3, <1>4, <1>5 DEF PriceNext

LEMMA PriceTypesAlways == Spec => [](PriceInv /\ PriceTypes)
<1>1. Init => PriceInv /\ PriceTypes
  BY PriceInvInit DEF Init, PriceInit, PriceTypes, NoCall, NoPrice
<1>2. PriceInv /\ PriceTypes /\ [Next]_vars => (PriceInv /\ PriceTypes)'
  BY PriceMoves, PriceInvNext, PriceTypesNext
<1> QED
  BY <1>1, <1>2, PTL DEF Spec

\* Every signature that is around is a wallet's.
WalletTypes ==
    /\ wallet \in [User -> Address \cup {NoAddress}]
    /\ \A s \in signatures : s.by \in Address

LEMMA WalletTypesNext ==
    ASSUME WalletInv, WalletTypes, [WalletNext]_walletVars
    PROVE  WalletTypes'
<1> USE DEF WalletTypes
<1>1. CASE UNCHANGED walletVars
  BY <1>1 DEF walletVars
<1>2. ASSUME NEW u \in User, AskChallenge(u) \/ LinkFails(u) \/ Unlink(u) PROVE WalletTypes'
  BY <1>2 DEF AskChallenge, LinkFails, Unlink
<1>3. ASSUME NEW u \in User, SaveWallet(u) PROVE WalletTypes'
  BY <1>3 DEF SaveWallet, WalletInv
<1>4. ASSUME NEW u \in User, NEW a \in Address, SignChallenge(u, a) PROVE WalletTypes'
  BY <1>4 DEF SignChallenge
<1>5. ASSUME NEW u \in User, NEW s \in signatures, SendAgain(u, s) PROVE WalletTypes'
  BY <1>5 DEF SendAgain
<1> QED
  BY <1>1, <1>2, <1>3, <1>4, <1>5 DEF WalletNext

LEMMA WalletTypesAlways == Spec => []WalletTypes
<1>1. Init => WalletInv /\ WalletTypes
  BY WalletInvInit DEF Init, WalletsInit, WalletTypes
<1>2. WalletInv /\ WalletTypes /\ [Next]_vars => (WalletInv /\ WalletTypes)'
  BY WalletMoves, WalletInvNext, WalletTypesNext
<1> QED
  BY <1>1, <1>2, PTL DEF Spec

LEMMA KeeperTypesAlways == Spec => [](KeeperInv /\ rate \in Rates)
<1>1. Init => KeeperInv /\ rate \in Rates
  BY KeeperInvInit, KeeperAssumption DEF Init, KeeperInit
<1>2. [KeeperNext]_keeperVars => rate' = rate \/ rate' \in Rates
  BY DEF KeeperNext, KeeperStep, Quote, Swap, MineTreasury, Burn, EndKeeper, StartKeeper,
         RateMoves, KeeperDies, keeperVars
<1>3. KeeperInv /\ rate \in Rates /\ [Next]_vars => (KeeperInv /\ rate \in Rates)'
  BY <1>2, KeeperMoves, KeeperInvNext
<1> QED
  BY <1>1, <1>3, PTL DEF Spec

\* What the browser shows are numbers the server gave.
DashTypes ==
    /\ session \in User \cup {NoUser} /\ shown \in Int /\ cash \in Nat \cup {Unknown}
    /\ poll # NoPoll => poll.balance \in Int /\ poll.cash \in Nat \cup {Unknown}
                        /\ "cash" \in DOMAIN poll

DashMove ==
    \/ \E u \in User : SignIn(u)
    \/ SignOut \/ Poll \/ PollArrives

LEMMA DashMoves == [Next]_vars => [DashMove]_<<session, shown, cash, poll>>
<1> SUFFICES ASSUME [Next]_vars PROVE DashMove \/ UNCHANGED <<session, shown, cash, poll>>
  OBVIOUS
<1> USE DEF sideVars, dashVars
<1>1. CASE UNCHANGED vars
  BY <1>1 DEF vars
<1>2. ASSUME NEW u \in User,
             LoginStep(u) \/ StakeStep(u) \/ DepositStep(u) \/ WalletStep(u)
      PROVE  UNCHANGED dashVars
  BY <1>2 DEF LoginStep, StakeStep, DepositStep, WalletStep
<1>3. CASE JobStep \/ ChainStep \/ TreasuryStep \/ Crash
  BY <1>3 DEF JobStep, ChainStep, TreasuryStep, Crash
<1>4. CASE PriceStep \/ BuybackStep
  BY <1>4 DEF PriceStep, BuybackStep
<1>5. CASE DashStep
  BY <1>5 DEF DashStep, DashMove, Press, Told, RequestCut
<1>6. CASE AskStep \/ (\E c \in Claim : ClaimStep(c)) \/ WithdrawStep
             \/ \E w \in Withdrawal : PayoutStep(w)
  BY <1>6 DEF AskStep, ClaimStep, WithdrawStep, PayoutStep
<1> QED
  BY <1>1, <1>2, <1>3, <1>4, <1>5, <1>6 DEF Next

LEMMA WithdrawableType ==
    ASSUME MoneyInv, NEW u \in User
    PROVE  Withdrawable(u) \in Nat
<1>1. Withdrawn(u) \in Nat
  BY WithdrawnIsCash, CashType DEF MoneyInv
<1>2. balance[u] \in Int /\ hardIn[u] \in Int
  BY DEF MoneyInv, AccountInv
<1> QED
  BY <1>1, <1>2 DEF Withdrawable

LEMMA DashTypesNext ==
    ASSUME MoneyInv, MoneyInv', DashTypes, [DashMove]_<<session, shown, cash, poll>>
    PROVE  DashTypes'
<1> USE DEF DashTypes
<1>1. CASE UNCHANGED <<session, shown, cash, poll>>
  BY <1>1
<1>2. ASSUME NEW u \in User, SignIn(u) PROVE DashTypes'
  <2>1. balance'[u] \in Int
    BY DEF MoneyInv, AccountInv
  <2> QED
    BY <1>2, <2>1 DEF SignIn
<1>3. CASE SignOut
  BY <1>3 DEF SignOut, NoPoll
<1>4. CASE Poll
  <2>1. session \in User /\ UNCHANGED <<session, shown, cash>> /\ poll' = Numbers(session)
    BY <1>4 DEF Poll
  <2>2. Withdrawable(session) \in Nat /\ balance[session] \in Int
    BY <2>1, WithdrawableType DEF MoneyInv, AccountInv
  <2> QED
    BY <2>1, <2>2 DEF Numbers
<1>5. CASE PollArrives
  BY <1>5 DEF PollArrives
<1> QED
  BY <1>1, <1>2, <1>3, <1>4, <1>5 DEF DashMove

\* What the panel of a withdrawal shows, and of a deposit.
AskingTypes == asking.phase \in {"idle", "sending", "done", "error"}

LEMMA AskingTypesNext ==
    ASSUME PayInv, AskingTypes, [PayNext]_payVars
    PROVE  AskingTypes'
<1> USE DEF AskingTypes
<1>1. CASE Told
  <2>1. asking = [phase |-> "sending", said |-> "none", withdrawal |-> asking.withdrawal]
    BY <1>1 DEF PayInv, Told
  <2>2. asking'.phase \in {"done", "error"}
    BY <1>1, <2>1 DEF Told
  <2> QED
    BY <2>2
<1>2. CASE asking' = asking \/ asking' \in {NotAsking, [phase |-> "error", said |-> "rejected"],
                                           [phase |-> "error", said |-> "cut"]}
           \/ \E w \in Withdrawal : asking' = [phase |-> "sending", said |-> "none", withdrawal |-> w]
  BY <1>2 DEF NotAsking
<1> QED
  BY <1>1, <1>2, Zenon DEF PayNext, payVars

TxType == [state : {"unsent", "pending", "success", "reverted"},
           to : Nat \cup {NoIndex}, block : Nat]

PanelType ==
    [phase : {"idle", "connecting", "sending", "mining", "verifying", "done", "error"},
     connected : BOOLEAN, address : Nat \cup {NoIndex}, sent : SUBSET Hash, asked : SUBSET Claim]

\* A panel that waits for a block sent something; one has a request under way
\* just while it says so.
PanelOk(x) ==
    /\ x \in PanelType
    /\ x.phase = "mining" => x.sent # {}
    /\ x.asked # {} <=> x.phase = "verifying"

SentTypes ==
    /\ tx \in [Hash -> TxType]
    /\ DOMAIN panel = User
    /\ \A u \in User : PanelOk(panel[u])

\* The panel of one user changes.
LEMMA OnePanel ==
    ASSUME SentTypes, tx' \in [Hash -> TxType], NEW u \in User, NEW x, PanelOk(x),
           panel' = [panel EXCEPT ![u] = x]
    PROVE  SentTypes'
BY DEF SentTypes

LEMMA AnsweredOk ==
    ASSUME SentTypes, NEW c, NEW phase \in {"done", "error"}, tx' \in [Hash -> TxType],
           panel' = Answered(c, phase)
    PROVE  SentTypes'
<1>1. ASSUME NEW u \in User PROVE PanelOk(panel'[u])
  BY <1>1 DEF SentTypes, PanelOk, PanelType, Answered
<1> QED
  BY <1>1 DEF SentTypes, Answered

LEMMA SentTypesNext ==
    ASSUME IndexInv, CreditInv, SentTypes, [CreditNext]_creditVars
    PROVE  SentTypes'
<1>1. \A u \in User : IndexOf(u) \in Nat \cup {NoIndex}
  BY HighestIndex DEF IndexInv, IndexOf
<1>2. tx \in [Hash -> TxType]
  BY DEF SentTypes
<1>3. ASSUME UNCHANGED <<tx, panel>> PROVE SentTypes'
  BY <1>3 DEF SentTypes
<1>4. CASE UNCHANGED creditVars
  BY <1>3, <1>4 DEF creditVars
<1>5. ASSUME NEW u \in User, PanelMoves(u) PROVE SentTypes'
  <2> DEFINE x == panel[u]
  <2>1. PanelOk(x) /\ tx' = tx
    BY <1>5 DEF SentTypes, PanelMoves
  <2> USE DEF PanelOk, PanelType
  <2>2. CASE LoadAddress(u)
    <3> DEFINE y == [x EXCEPT !.address = IndexOf(u)]
    <3>1. panel' = [panel EXCEPT ![u] = y] /\ PanelOk(y)
      BY <1>1, <2>1, <2>2 DEF LoadAddress
    <3> QED  BY <1>2, <2>1, <3>1, OnePanel
  <2>3. CASE StartDeposit(u)
    <3> DEFINE y == [x EXCEPT !.phase = "sending", !.sent = {}]
    <3>1. panel' = [panel EXCEPT ![u] = y] /\ PanelOk(y)
      BY <2>1, <2>3 DEF StartDeposit, Ready, SentTypes
    <3> QED  BY <1>2, <2>1, <3>1, OnePanel
  <2>4. CASE Connect(u)
    <3> DEFINE y == [x EXCEPT !.phase = "connecting"]
    <3>1. panel' = [panel EXCEPT ![u] = y] /\ PanelOk(y)
      BY <2>1, <2>4 DEF Connect, Ready
    <3> QED  BY <1>2, <2>1, <3>1, OnePanel
  <2>5. CASE Connected(u)
    <3> DEFINE y == [x EXCEPT !.phase = "idle", !.connected = TRUE]
               z == [x EXCEPT !.phase = "error"]
    <3>1. panel' = [panel EXCEPT ![u] = y] \/ panel' = [panel EXCEPT ![u] = z]
      BY <2>5 DEF Connected, SentTypes
    <3>2. PanelOk(y) /\ PanelOk(z)
      BY <2>1, <2>5 DEF Connected
    <3> QED  BY <1>2, <2>1, <3>1, <3>2, OnePanel
  <2>6. CASE WalletDeclines(u)
    <3> DEFINE y == [x EXCEPT !.phase = "error"]
    <3>1. panel' = [panel EXCEPT ![u] = y] /\ PanelOk(y)
      BY <2>1, <2>6 DEF WalletDeclines
    <3> QED  BY <1>2, <2>1, <3>1, OnePanel
  <2>7. CASE GiveUpWaiting(u)
    <3> DEFINE y == [x EXCEPT !.phase = "error", !.sent = {}]
    <3>1. panel' = [panel EXCEPT ![u] = y] /\ PanelOk(y)
      BY <2>1, <2>7 DEF GiveUpWaiting, SentTypes
    <3> QED  BY <1>2, <2>1, <3>1, OnePanel
  <2> QED
    BY <1>5, <2>2, <2>3, <2>4, <2>5, <2>6, <2>7 DEF PanelMoves
<1>6. ASSUME NEW u \in User, NEW h \in Hash, WalletSends(u, h) PROVE SentTypes'
  <2> DEFINE x == panel[u]
             y == [x EXCEPT !.phase = "mining", !.sent = {h}]
             z == [x EXCEPT !.phase = "error"]
  <2>1. PanelOk(x) /\ x.phase = "sending"
    BY <1>6 DEF SentTypes, WalletSends
  <2>2. PanelOk(y) /\ PanelOk(z)
    BY <2>1 DEF PanelOk, PanelType
  <2>3. panel' = [panel EXCEPT ![u] = y] \/ panel' = [panel EXCEPT ![u] = z]
    BY <1>6 DEF WalletSends, SentTypes
  <2>4. x.address \in Nat \cup {NoIndex}
    BY <2>1 DEF PanelOk, PanelType
  <2> HIDE DEF x, y, z
  <2>5. tx' \in [Hash -> TxType]
    BY <1>2, <1>6, <2>4 DEF WalletSends, TxType, x
  <2> QED
    BY <2>2, <2>3, <2>5, OnePanel
<1>7. CASE MineBlock
  <2>1. panel' = panel /\ head \in Nat
    BY <1>7 DEF MineBlock, CreditInv, ChainInv
  <2>2. tx' \in [Hash -> TxType]
    <3>1. ASSUME NEW h \in Hash, NEW state \in {"reverted", "success"}
          PROVE  [tx[h] EXCEPT !.block = head + 1, !.state = state] \in TxType
      <4> DEFINE x == tx[h]
                 y == [x EXCEPT !.block = head + 1]
      <4>1. x \in TxType /\ head + 1 \in Nat
        BY <1>2, <2>1
      <4>2. y \in TxType
        BY <4>1 DEF TxType
      <4>3. [y EXCEPT !.state = state] \in TxType
        BY <4>2 DEF TxType
      <4> QED
        BY <4>3
    <3>2. PICK mined \in SUBSET Hash, reverted \in SUBSET Hash :
            tx' = [h \in Hash |->
                     IF h \in mined
                     THEN [tx[h] EXCEPT !.block = head + 1,
                             !.state = IF h \in reverted THEN "reverted" ELSE "success"]
                     ELSE tx[h]]
      BY <1>7 DEF MineBlock
    <3> QED
      BY <1>2, <3>1, <3>2
  <2> QED
    BY <2>1, <2>2 DEF SentTypes
<1>8. ASSUME NEW depth \in 1 .. Confirmations, Reorg(depth) PROVE SentTypes'
  <2>1. tx' \in [Hash -> TxType]
    <3>1. \A h \in Hash : [tx[h] EXCEPT !.block = 0, !.state = "pending"] \in TxType
      BY <1>2 DEF TxType
    <3> QED
      BY <1>2, <1>8, <3>1 DEF Reorg
  <2> QED
    BY <1>8, <2>1 DEF SentTypes, Reorg
<1>9. ASSUME NEW c \in Claim, NEW u \in User, PanelClaim(c, u) PROVE SentTypes'
  <2> DEFINE x == panel[u]
             y == [x EXCEPT !.phase = "verifying", !.asked = {c}]
  <2>1. PanelOk(x) /\ tx' = tx
    BY <1>9 DEF SentTypes, PanelClaim, StartClaim, chainVars
  <2>2. panel' = [panel EXCEPT ![u] = y] /\ PanelOk(y)
    BY <1>9, <2>1 DEF PanelClaim, PanelOk, PanelType, SentTypes
  <2> QED
    BY <1>2, <2>1, <2>2, OnePanel
<1>10. ASSUME NEW c \in Claim, NEW u \in User, NEW h \in Hash, RepeatClaim(c, u, h)
       PROVE  SentTypes'
  BY <1>3, <1>10 DEF RepeatClaim, StartClaim, chainVars
<1>11. ASSUME NEW c \in Claim, Verify(c) \/ CreditDeposit(c) PROVE SentTypes'
  <2>1. tx' = tx
    BY <1>11 DEF Verify, CreditDeposit, chainVars
  <2>2. panel' = panel \/ panel' = Answered(c, "error") \/ panel' = Answered(c, "done")
    BY <1>11 DEF Verify, CreditDeposit
  <2> QED
    BY <1>2, <1>3, <2>1, <2>2, AnsweredOk
<1>12. CASE ClaimsLost
  <2>1. ASSUME NEW u \in User PROVE PanelOk(panel'[u])
    <3>1. PanelOk(panel[u])
      BY DEF SentTypes
    <3>2. panel'[u] = panel[u] \/ panel'[u] = [panel[u] EXCEPT !.phase = "error", !.asked = {}]
      BY <1>12 DEF ClaimsLost
    <3>3. PanelOk([panel[u] EXCEPT !.phase = "error", !.asked = {}])
      BY <3>1 DEF PanelOk, PanelType
    <3> QED
      BY <3>1, <3>2, <3>3
  <2>2. tx' = tx /\ DOMAIN panel' = User
    BY <1>12 DEF ClaimsLost, chainVars
  <2> QED
    BY <2>1, <2>2 DEF SentTypes
<1> QED
  BY <1>4, <1>5, <1>6, <1>7, <1>8, <1>9, <1>10, <1>11, <1>12 DEF CreditNext

ShownTypes == DashTypes /\ AskingTypes /\ AddressInv /\ SentTypes

LEMMA ShownTypesAlways == Spec => [](MoneyInv /\ ShownTypes)
<1>1. Init => ShownTypes
  <2> SUFFICES ASSUME Init PROVE ShownTypes
    OBVIOUS
  <2>1. SentTypes
    BY DEF Init, DepositsInit, SentTypes, TxType, PanelOk, PanelType, Unsent, NewPanel, NoIndex
  <2> QED
    BY <2>1, AddressInvInit
    DEF Init, DashInit, ShownTypes, DashTypes, AskingTypes, NotAsking, Unknown
<1>2. MoneyInv /\ MoneyInv' /\ ShownTypes /\ [Next]_vars => ShownTypes'
  BY DashMoves, DashTypesNext, PayMoves, AskingTypesNext, AddressInvNext, CreditMoves,
     SentTypesNext
  DEF ShownTypes, MoneyInv, AddressInv
<1> QED
  BY <1>1, <1>2, MoneyInvAlways, PTL DEF Spec

\* TypeOK of Accounts: among the rest, no stake, no debt and no total of stakes goes below
\* zero; no cached price is of a time to come; and a deposit panel has a request under way
\* just while it says so, whatever answers and deaths come between.
THEOREM AccountTypeCorrect == Spec => []TypeOK
<1>1. ASSUME MoneyInv, ShownTypes, PriceInv, PriceTypes, WalletTypes, KeeperInv, rate \in Rates
      PROVE  TypeOK
  <2>1. /\ sessions \subseteq users /\ users \subseteq User
        /\ grants \in [User -> {0, Grant}]
        /\ balance \in [User -> Int]
        /\ hardIn \in [User -> Nat]
    BY <1>1 DEF MoneyInv, AccountInv
  <2>2. /\ staked \in [User -> Nat] /\ debt \in [User -> Nat] /\ rewarded \in [User -> Nat]
        /\ totalStaked \in Nat /\ acc \in Nat /\ lifetimeRewards \in Nat
    BY <1>1 DEF MoneyInv, StakeInv
  <2>3. \A i \in DOMAIN deposits : deposits[i] \in Entry
    BY <1>1 DEF MoneyInv, CreditInv, DepositInv
  <2>4. /\ depositIndex \in [User -> Nat \cup {NoIndex}]
        /\ tx \in [Hash -> TxType]
        /\ \A u \in User :
             /\ panel[u].phase = "mining" => panel[u].sent # {}
             /\ panel[u].asked # {} <=> panel[u].phase = "verifying"
    BY <1>1 DEF ShownTypes, AddressInv, IndexInv, SentTypes, PanelOk
  <2>5. /\ handler \in [Withdrawal -> {"idle", "sending", "waiting", "answered", "dead"}]
        /\ payment \in [Withdrawal -> {"none", "pending", "success", "reverted"}]
        /\ \A w \in Withdrawal :
             withdrawal[w].status \in {"none", "requested", "paid", "failed", "review"}
    BY <1>1 DEF MoneyInv, PayInv, RowInv
  <2>6. /\ session \in User \cup {NoUser} /\ shown \in Int /\ cash \in Nat \cup {Unknown}
        /\ asking.phase \in {"idle", "sending", "done", "error"}
    BY <1>1 DEF ShownTypes, DashTypes, AskingTypes
  <2>7. /\ clock \in Nat /\ cached \in 0 .. clock /\ at \in 0 .. clock
        /\ \A c \in Caller : call[c].phase \in {"idle", "pyth", "coingecko", "answered"}
    BY <1>1 DEF PriceInv, PriceTypes, Waits
  <2>8. /\ wallet \in [User -> Address \cup {NoAddress}]
        /\ tokens \in Nat /\ burned \in Nat /\ rate \in Rates
    BY <1>1 DEF WalletTypes, KeeperInv
  <2> QED
    BY <2>1, <2>2, <2>3, <2>4, <2>5, <2>6, <2>7, <2>8, Zenon DEF TypeOK, Entry, TxType
<1> QED
  BY <1>1, ShownTypesAlways, PriceTypesAlways, WalletTypesAlways, KeeperTypesAlways, PTL
=============================================================================
