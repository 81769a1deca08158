--------------------------- MODULE AccountsProofs ----------------------------
(***************************************************************************)
(* Proofs about Accounts, for every set of users, requests, transactions,   *)
(* wallets and workloads.  Each part of the state is moved by the actions of *)
(* one module; a lemma says so, and the part's invariant follows from those. *)
(***************************************************************************)
EXTENDS Accounts, CreditsProofs

-----------------------------------------------------------------------------
(***************************************************************************)
(* The price.                                                              *)
(***************************************************************************)
PriceNext == Tick \/ \E c \in Caller : AskPrice(c) \/ SourceAnswers(c) \/ SourceFails(c)

\* A fresh id is one of the free ones.
LEMMA FreshCaller == NewCaller \subseteq Caller
BY DEF NewCaller, AnyOf

LEMMA PriceMoves == [Next]_vars => [PriceNext]_priceVars
<1> SUFFICES ASSUME [Next]_vars PROVE PriceNext \/ UNCHANGED priceVars
  BY DEF PriceNext
<1> USE DEF sideVars
<1>1. CASE UNCHANGED vars
  BY <1>1 DEF vars
<1>2. ASSUME NEW u \in User, LoginStep(u) \/ StakeStep(u) \/ DepositStep(u)
      PROVE  UNCHANGED priceVars
  BY <1>2 DEF LoginStep, StakeStep, DepositStep
<1>3. ASSUME JobStep \/ ChainStep \/ TreasuryStep \/ Crash
      PROVE  UNCHANGED priceVars
  BY <1>3 DEF JobStep, ChainStep, TreasuryStep, Crash
<1>4. ASSUME DashStep \/ BuybackStep \/ \E u \in User : WalletStep(u)
      PROVE  UNCHANGED priceVars
  BY <1>4 DEF DashStep, BuybackStep, WalletStep
<1>5. ASSUME PriceStep
      PROVE  PriceNext \/ UNCHANGED priceVars
  BY <1>5, FreshCaller DEF PriceStep, PriceNext
<1>6. ASSUME AskStep \/ (\E c \in Claim : ClaimStep(c)) \/ WithdrawStep
               \/ \E w \in Withdrawal : PayoutStep(w)
      PROVE  UNCHANGED priceVars
  BY <1>6 DEF AskStep, ClaimStep, WithdrawStep, PayoutStep
<1> QED
  BY <1>1, <1>2, <1>3, <1>4, <1>5, <1>6 DEF Next

\* The cached price is not older than the time it is stamped with; a request
\* that waits has no price yet.
Waits == {"idle", "pyth", "coingecko"}

PriceInv ==
    /\ clock \in Nat /\ cached \in Nat /\ at \in Nat
    /\ cached # NoPrice => cached >= at
    /\ call \in [Caller -> [phase : Waits \cup {"answered"}, start : Nat, price : Nat,
                            source : {"none", "hit", "pyth", "coingecko", "cache", "fallback"}]]
    /\ \A c \in Caller :
         /\ call[c].phase \in Waits => call[c].source = "none"
         /\ call[c].source \in {"hit", "pyth", "coingecko"} =>
              call[c].start < call[c].price + TTL

LEMMA PriceInvInit == PriceInit => PriceInv
BY DEF PriceInit, PriceInv, NoCall, NoPrice, Waits

LEMMA PriceInvNext == PriceInv /\ [PriceNext]_priceVars => PriceInv'
<1> SUFFICES ASSUME PriceInv, [PriceNext]_priceVars PROVE PriceInv'
  OBVIOUS
<1> USE PriceAssumption DEF PriceInv, NoPrice, Waits
<1>1. CASE UNCHANGED priceVars
  BY <1>1 DEF priceVars
<1>2. CASE Tick
  BY <1>2 DEF Tick
<1>3. ASSUME NEW c \in Caller, AskPrice(c) PROVE PriceInv'
  <2>1. CASE cached # NoPrice /\ clock < at + TTL /\ Return(c, cached, "hit")
    BY <1>3, <2>1 DEF AskPrice, Return
  <2>2. CASE call' = [call EXCEPT ![c].phase = "pyth", ![c].start = clock]
    BY <1>3, <2>2 DEF AskPrice
  <2> QED
    BY <1>3, <2>1, <2>2 DEF AskPrice
<1>4. ASSUME NEW c \in Caller, SourceAnswers(c) PROVE PriceInv'
  <2>1. PICK price \in call[c].start .. clock :
          cached' = price /\ Return(c, price, call[c].phase)
    BY <1>4 DEF SourceAnswers
  <2>2. price \in Nat /\ call[c].start \in Nat /\ price >= call[c].start
    BY <2>1
  <2>3. call[c].phase \in {"pyth", "coingecko"} /\ at' = call[c].start /\ clock' = clock
    BY <1>4 DEF SourceAnswers
  <2> QED
    BY <2>1, <2>2, <2>3 DEF Return
<1>5. ASSUME NEW c \in Caller, SourceFails(c) PROVE PriceInv'
  <2>1. CASE call[c].phase = "pyth" /\ call' = [call EXCEPT ![c].phase = "coingecko"]
    BY <1>5, <2>1 DEF SourceFails
  <2>2. CASE /\ call[c].phase = "coingecko"
             /\ Return(c, cached, IF cached # NoPrice THEN "cache" ELSE "fallback")
    BY <1>5, <2>2 DEF SourceFails, Return
  <2> QED
    BY <1>5, <2>1, <2>2 DEF SourceFails
<1> QED
  BY <1>1, <1>2, <1>3, <1>4, <1>5 DEF PriceNext

\* PriceFresh of Accounts, for every time to live and every time-out: no
\* overlap of requests makes the cache of price.ts serve a stale price as fresh.
THEOREM PriceStaysFresh == Spec => []PriceFresh
<1>1. Init => PriceInv
  BY PriceInvInit DEF Init
<1>2. PriceInv /\ [Next]_vars => PriceInv'
  BY PriceInvNext, PriceMoves
<1>3. PriceInv => PriceFresh
  BY DEF PriceInv, PriceFresh
<1> QED
  BY <1>1, <1>2, <1>3, PTL DEF Spec

-----------------------------------------------------------------------------
(***************************************************************************)
(* The linked wallets.                                                     *)
(***************************************************************************)
WalletNext ==
    \E u \in User :
        \/ AskChallenge(u) \/ SaveWallet(u) \/ LinkFails(u) \/ Unlink(u)
        \/ \E a \in Address : SignChallenge(u, a)
        \/ \E s \in signatures : SendAgain(u, s)

LEMMA WalletMoves == [Next]_vars => [WalletNext]_walletVars
<1> SUFFICES ASSUME [Next]_vars PROVE WalletNext \/ UNCHANGED walletVars
  BY DEF WalletNext
<1> USE DEF sideVars
<1>1. CASE UNCHANGED vars
  BY <1>1 DEF vars
<1>2. ASSUME NEW u \in User, LoginStep(u) \/ StakeStep(u) \/ DepositStep(u)
      PROVE  UNCHANGED walletVars
  BY <1>2 DEF LoginStep, StakeStep, DepositStep
<1>3. ASSUME JobStep \/ ChainStep \/ TreasuryStep \/ Crash
      PROVE  UNCHANGED walletVars
  BY <1>3 DEF JobStep, ChainStep, TreasuryStep, Crash
<1>4. ASSUME DashStep \/ BuybackStep \/ PriceStep
      PROVE  UNCHANGED walletVars
  BY <1>4 DEF DashStep, BuybackStep, PriceStep
<1>5. ASSUME NEW u \in User, WalletStep(u)
      PROVE  WalletNext \/ UNCHANGED walletVars
  BY <1>5 DEF WalletStep, WalletNext
<1>6. ASSUME AskStep \/ (\E c \in Claim : ClaimStep(c)) \/ WithdrawStep
               \/ \E w \in Withdrawal : PayoutStep(w)
      PROVE  UNCHANGED walletVars
  BY <1>6 DEF AskStep, ClaimStep, WithdrawStep, PayoutStep
<1> QED
  BY <1>1, <1>2, <1>3, <1>4, <1>5, <1>6 DEF Next

\* A panel that saves holds a signature that was made.
WalletInv ==
    /\ DOMAIN wallet = User /\ DOMAIN linking = User
    /\ \A u \in User : linking[u].phase = "saving" => linking[u].signature \in signatures
    /\ WalletProven

LEMMA WalletInvInit == WalletsInit => WalletInv
BY DEF WalletsInit, WalletInv, WalletProven, NotLinking

LEMMA WalletInvNext == WalletInv /\ [WalletNext]_walletVars => WalletInv'
<1> SUFFICES ASSUME WalletInv, [WalletNext]_walletVars PROVE WalletInv'
  OBVIOUS
<1> USE DEF WalletInv, WalletProven, NotLinking, Challenge
<1>1. CASE UNCHANGED walletVars
  BY <1>1 DEF walletVars
<1>2. ASSUME NEW u \in User, AskChallenge(u) PROVE WalletInv'
  BY <1>2 DEF AskChallenge
<1>3. ASSUME NEW u \in User, SaveWallet(u) PROVE WalletInv'
  <2>1. CASE Proves(linking[u].signature, u, linking[u].issued)
    BY <1>3, <2>1 DEF SaveWallet, Proves
  <2>2. CASE ~Proves(linking[u].signature, u, linking[u].issued)
    BY <1>3, <2>2 DEF SaveWallet
  <2> QED
    BY <2>1, <2>2
<1>4. ASSUME NEW u \in User, LinkFails(u) \/ Unlink(u) PROVE WalletInv'
  BY <1>4 DEF LinkFails, Unlink
<1>5. ASSUME NEW u \in User, NEW a \in Address, SignChallenge(u, a) PROVE WalletInv'
  BY <1>5 DEF SignChallenge
<1>6. ASSUME NEW u \in User, NEW s \in signatures, SendAgain(u, s) PROVE WalletInv'
  BY <1>6 DEF SendAgain, Proves
<1> QED
  BY <1>1, <1>2, <1>3, <1>4, <1>5, <1>6 DEF WalletNext

\* WalletProven of Accounts, however often signatures are sent again and by
\* whom: the server of POST /me/wallet needs no memory of its challenges.
THEOREM LinkedIsProven == Spec => []WalletProven
<1>1. Init => WalletInv
  BY WalletInvInit DEF Init
<1>2. WalletInv /\ [Next]_vars => WalletInv'
  BY WalletInvNext, WalletMoves
<1>3. WalletInv => WalletProven
  BY DEF WalletInv
<1> QED
  BY <1>1, <1>2, <1>3, PTL DEF Spec

-----------------------------------------------------------------------------
(***************************************************************************)
(* The buyback.                                                            *)
(***************************************************************************)
KeeperNext == StartKeeper \/ RateMoves \/ KeeperDies \/ KeeperStep

LEMMA KeeperMoves == [Next]_vars => [KeeperNext]_keeperVars
<1> SUFFICES ASSUME [Next]_vars PROVE KeeperNext \/ UNCHANGED keeperVars
  BY DEF KeeperNext
<1> USE DEF sideVars
<1>1. CASE UNCHANGED vars
  BY <1>1 DEF vars
<1>2. ASSUME NEW u \in User,
             LoginStep(u) \/ StakeStep(u) \/ DepositStep(u) \/ WalletStep(u)
      PROVE  UNCHANGED keeperVars
  BY <1>2 DEF LoginStep, StakeStep, DepositStep, WalletStep
<1>3. ASSUME JobStep \/ ChainStep \/ TreasuryStep \/ Crash
      PROVE  UNCHANGED keeperVars
  BY <1>3 DEF JobStep, ChainStep, TreasuryStep, Crash
<1>4. ASSUME DashStep \/ PriceStep
      PROVE  UNCHANGED keeperVars
  BY <1>4 DEF DashStep, PriceStep
<1>5. ASSUME BuybackStep
      PROVE  KeeperNext \/ UNCHANGED keeperVars
  BY <1>5 DEF BuybackStep, KeeperNext
<1>6. ASSUME AskStep \/ (\E c \in Claim : ClaimStep(c)) \/ WithdrawStep
               \/ \E w \in Withdrawal : PayoutStep(w)
      PROVE  UNCHANGED keeperVars
  BY <1>6 DEF AskStep, ClaimStep, WithdrawStep, PayoutStep
<1> QED
  BY <1>1, <1>2, <1>3, <1>4, <1>5, <1>6 DEF Next

\* While a run burns, the one transaction that is not mined burns all there is;
\* what an earlier run left is mined before the run's own swap.
KeeperInv ==
    /\ rate \in Nat /\ tokens \in Nat /\ burned \in Nat
    /\ keeper \in [phase : {"off", "quoting", "quoted", "swapping", "burning", "done"},
                   live : BOOLEAN, quote : Nat]
    /\ mempool \in Seq([do : {"swap", "burn"}, amount : Nat])
    /\ keeper.phase = "burning" =>
         \/ mempool = <<[do |-> "burn", amount |-> tokens]>>
         \/ mempool = <<>> /\ tokens = 0
    /\ BoughtIsBurned

LEMMA KeeperInvInit == KeeperInit => KeeperInv
BY DEF KeeperInit, KeeperInv, BoughtIsBurned, NoRun

LEMMA KeeperInvNext == KeeperInv /\ [KeeperNext]_keeperVars => KeeperInv'
<1> SUFFICES ASSUME KeeperInv, [KeeperNext]_keeperVars PROVE KeeperInv'
  OBVIOUS
<1> USE KeeperAssumption DEF KeeperInv, BoughtIsBurned, NoRun
<1>1. CASE UNCHANGED keeperVars
  BY <1>1 DEF keeperVars
<1>2. CASE RateMoves
  BY <1>2 DEF RateMoves
<1>9. CASE StartKeeper
  <2>1. PICK live \in BOOLEAN : keeper' = [phase |-> "quoting", live |-> live, quote |-> 0]
    BY <1>9 DEF StartKeeper
  <2>2. keeper'.phase = "quoting" /\ keeper' \in [phase : {"quoting"}, live : BOOLEAN, quote : Nat]
    BY <2>1
  <2> QED
    BY <1>9, <2>2 DEF StartKeeper
<1>3. CASE KeeperDies
  BY <1>3 DEF KeeperDies
<1>4. CASE Quote
  BY <1>4 DEF Quote
<1>5. CASE Swap
  <2>1. (keeper.quote * 985) \div 1000 \in Nat
    OBVIOUS
  <2> QED
    BY <1>5, <2>1 DEF Swap
<1>6. CASE MineTreasury
  <2> DEFINE Sent == [do : {"swap", "burn"}, amount : Nat]
  <2>1. /\ mempool # <<>> /\ mempool' = Tail(mempool) /\ UNCHANGED <<rate, keeper>>
        /\ mempool \in Seq(Sent)
    BY <1>6 DEF MineTreasury
  <2>4. mempool' \in Seq(Sent) /\ Head(mempool) \in Sent
    <3> HIDE DEF Sent
    <3> QED  BY <2>1
  <2>2. tokens' \in Nat /\ burned' \in Nat
    BY <1>6, <2>1, <2>4 DEF MineTreasury
  <2>3. ASSUME keeper.phase = "burning"
        PROVE  mempool' = <<>> /\ tokens' = 0
    BY <1>6, <2>1, <2>3, <2>4 DEF MineTreasury
  <2>5. rate' = rate /\ keeper' = keeper /\ keeper.phase # "done"
    BY <2>1
  <2>6. mempool' \in Seq([do : {"swap", "burn"}, amount : Nat])
    BY <2>4
  <2> QED
    BY <2>2, <2>3, <2>5, <2>6
<1>7. CASE Burn
  <2>1. /\ keeper.phase = "swapping" /\ mempool = <<>>
        /\ rate' = rate /\ tokens' = tokens /\ burned' = burned
    BY <1>7 DEF Burn
  <2>2. CASE /\ mempool' = <<[do |-> "burn", amount |-> tokens]>>
             /\ keeper' = [keeper EXCEPT !.phase = "burning"]
    BY <2>1, <2>2
  <2>3. CASE tokens = 0 /\ keeper' = [keeper EXCEPT !.phase = "done"] /\ UNCHANGED mempool
    BY <2>1, <2>3
  <2> QED
    BY <1>7, <2>2, <2>3 DEF Burn
<1>8. CASE EndKeeper
  BY <1>8 DEF EndKeeper
<1> QED
  BY <1>1, <1>2, <1>3, <1>4, <1>5, <1>6, <1>7, <1>8, <1>9 DEF KeeperNext, KeeperStep

\* BoughtIsBurned of Accounts, for every rate the pool may have and wherever
\* earlier runs of the keeper died.
THEOREM KeeperBurnsAll == Spec => []BoughtIsBurned
<1>1. Init => KeeperInv
  BY KeeperInvInit DEF Init
<1>2. KeeperInv /\ [Next]_vars => KeeperInv'
  BY KeeperInvNext, KeeperMoves
<1>3. KeeperInv => BoughtIsBurned
  BY DEF KeeperInv
<1> QED
  BY <1>1, <1>2, <1>3, PTL DEF Spec

-----------------------------------------------------------------------------
(***************************************************************************)
(* Withdrawals, and the panel that asks for them.                          *)
(***************************************************************************)
payVars == <<withdrawal, handler, payment, asking>>

PayNext ==
    \/ \E w \in Withdrawal :
         \/ /\ \E u, credits : RequestWithdrawal(w, u, credits)
            /\ asking' \in {asking, [phase |-> "sending", said |-> "none", withdrawal |-> w]}
         \/ /\ \/ SendRejected(w) \/ SendAccepted(w) \/ RecordSignature(w) \/ Unrecorded(w)
               \/ ReceiptArrives(w) \/ ReceiptLost(w)
               \/ \E outcome \in {"success", "reverted"} : PaymentMined(w, outcome)
            /\ UNCHANGED asking
    \/ HandlersLost /\ UNCHANGED asking
    \/ /\ asking' \in {NotAsking, [phase |-> "error", said |-> "rejected"],
                       [phase |-> "error", said |-> "cut"]}
       /\ UNCHANGED <<withdrawal, handler, payment>>
    \/ Told

LEMMA FreshWithdrawal == NewWithdrawal \subseteq Withdrawal
BY DEF NewWithdrawal, AnyOf

LEMMA PayMoves == [Next]_vars => [PayNext]_payVars
<1> SUFFICES ASSUME [Next]_vars PROVE PayNext \/ UNCHANGED payVars
  BY DEF PayNext
<1> USE DEF sideVars, dashVars, withdrawalVars, payVars
<1>1. CASE UNCHANGED vars
  BY <1>1 DEF vars
<1>2. ASSUME NEW u \in User,
             LoginStep(u) \/ StakeStep(u) \/ DepositStep(u) \/ WalletStep(u)
      PROVE  UNCHANGED payVars
  <2>1. CASE LoginStep(u)  BY <2>1 DEF LoginStep
  <2>2. CASE StakeStep(u)  BY <2>2 DEF StakeStep
  <2>3. CASE DepositStep(u)  BY <2>3 DEF DepositStep
  <2>4. CASE WalletStep(u)  BY <2>4 DEF WalletStep
  <2> QED  BY <1>2, <2>1, <2>2, <2>3, <2>4
<1>3. ASSUME JobStep \/ ChainStep \/ PriceStep \/ BuybackStep \/ AskStep
      PROVE  UNCHANGED payVars
  <2>1. CASE JobStep  BY <2>1 DEF JobStep
  <2>2. CASE ChainStep  BY <2>2 DEF ChainStep
  <2>3. CASE PriceStep  BY <2>3 DEF PriceStep
  <2>4. CASE BuybackStep  BY <2>4 DEF BuybackStep
  <2>5. CASE AskStep  BY <2>5 DEF AskStep
  <2> QED  BY <1>3, <2>1, <2>2, <2>3, <2>4, <2>5
<1>4. ASSUME NEW c \in Claim, ClaimStep(c) PROVE UNCHANGED payVars
  BY <1>4 DEF ClaimStep
<1>5. CASE TreasuryStep
  BY <1>5 DEF TreasuryStep, NextDay, PayNext
<1>6. CASE Crash
  BY <1>6 DEF Crash, PayNext
<1>7. CASE WithdrawStep
  BY <1>7, FreshWithdrawal DEF WithdrawStep, PayNext
<1>8. ASSUME NEW w \in Withdrawal, PayoutStep(w) PROVE PayNext
  BY <1>8 DEF PayoutStep, PayNext
<1>9. ASSUME DashStep PROVE PayNext \/ UNCHANGED payVars
  <2>1. CASE \E u \in User : SignIn(u)
    BY <2>1 DEF SignIn
  <2>2. CASE SignOut
    BY <2>2 DEF SignOut, PayNext
  <2>3. CASE Poll \/ PollArrives
    BY <2>3 DEF Poll, PollArrives
  <2>4. CASE \E w \in NewWithdrawal, credits \in Amounts : Press(w, credits)
    <3>1. PICK w \in Withdrawal, credits \in Amounts : Press(w, credits)
      BY <2>4, FreshWithdrawal
    <3> QED
      BY <3>1 DEF Press, PayNext
  <2>5. CASE Told
    BY <2>5 DEF PayNext
  <2>6. CASE RequestCut
    BY <2>6 DEF RequestCut, PayNext
  <2> QED
    BY <1>9, <2>1, <2>2, <2>3, <2>4, <2>5, <2>6 DEF DashStep
<1> QED
  BY <1>1, <1>2, <1>3, <1>4, <1>5, <1>6, <1>7, <1>8, <1>9 DEF Next

\* The row of a request that was made.
IsRow(r) ==
    /\ r = [status |-> r.status, user |-> r.user, credits |-> r.credits,
            day |-> r.day, signed |-> r.signed]
    /\ r.status \in {"requested", "paid", "failed", "review"}
    /\ r.signed \in BOOLEAN

\* A row follows its handler; what the panel said is of an answered request.
PayInv ==
    /\ DOMAIN withdrawal = Withdrawal
    /\ handler \in [Withdrawal -> {"idle", "sending", "waiting", "answered", "dead"}]
    /\ payment \in [Withdrawal -> {"none", "pending", "success", "reverted"}]
    /\ \A w \in Withdrawal :
         /\ handler[w] = "idle" => withdrawal[w] = NoWithdrawal
         /\ handler[w] # "idle" => IsRow(withdrawal[w])
         /\ handler[w] \in {"sending", "waiting"} => withdrawal[w].status = "requested"
         /\ handler[w] = "sending" => withdrawal[w].signed = FALSE
         /\ withdrawal[w].status = "failed" => withdrawal[w].signed = FALSE
         /\ withdrawal[w].status = "paid" => payment[w] = "success"
    /\ asking.phase = "sending" =>
         /\ asking.withdrawal \in Withdrawal
         /\ asking = [phase |-> "sending", said |-> "none", withdrawal |-> asking.withdrawal]
    /\ asking.said \in {"paid", "failed", "review"} =>
         /\ asking.withdrawal \in Withdrawal
         /\ handler[asking.withdrawal] = "answered"
         /\ withdrawal[asking.withdrawal].status = asking.said

LEMMA SignedRow ==
    ASSUME NEW r, IsRow(r)
    PROVE  \A signed \in BOOLEAN :
             LET s == [r EXCEPT !.signed = signed]
                 p == [r EXCEPT !.status = "paid", !.signed = signed] IN
             /\ IsRow(s) /\ s.status = r.status /\ s.signed = signed
             /\ IsRow(p) /\ p.status = "paid" /\ p.signed = signed
<1> TAKE signed \in BOOLEAN
<1> DEFINE s == [r EXCEPT !.signed = signed]
           p == [r EXCEPT !.status = "paid", !.signed = signed]
<1>1. DOMAIN r = {"status", "user", "credits", "day", "signed"}
  BY DEF IsRow
<1>2. /\ s.status = r.status /\ s.user = r.user /\ s.credits = r.credits
      /\ s.day = r.day /\ s.signed = signed
      /\ s = [status |-> s.status, user |-> s.user, credits |-> s.credits,
              day |-> s.day, signed |-> s.signed]
  BY <1>1
<1>3. /\ p.status = "paid" /\ p.user = r.user /\ p.credits = r.credits
      /\ p.day = r.day /\ p.signed = signed
      /\ p = [status |-> p.status, user |-> p.user, credits |-> p.credits,
              day |-> p.day, signed |-> p.signed]
  <2> DEFINE q == [r EXCEPT !.status = "paid"]
  <2>1. /\ q.status = "paid" /\ q.user = r.user /\ q.credits = r.credits
        /\ q.day = r.day /\ DOMAIN q = {"status", "user", "credits", "day", "signed"}
    BY <1>1
  <2>2. p = [q EXCEPT !.signed = signed]
    BY <1>1
  <2> HIDE DEF p, q
  <2> QED
    BY <2>1, <2>2
<1> HIDE DEF s, p
<1> QED
  BY <1>2, <1>3 DEF IsRow

SignedStays ==
    \A w \in Withdrawal :
         withdrawal[w].status # "none" /\ withdrawal[w].signed
           => withdrawal'[w].status # "failed" /\ withdrawal'[w].signed

LEMMA PayInvInit == WithdrawalsInit /\ DashInit => PayInv
BY DEF WithdrawalsInit, DashInit, PayInv, NotAsking, NoWithdrawal

\* A step of one request: its row, its handler and its payment change, and
\* neither if it was answered.
LEMMA OneRequest ==
    ASSUME PayInv, NEW w \in Withdrawal, NEW row, NEW phase, NEW paid,
           withdrawal' = [withdrawal EXCEPT ![w] = row],
           handler' = [handler EXCEPT ![w] = phase],
           payment' = [payment EXCEPT ![w] = paid],
           handler[w] # "answered" \/ (phase = "answered" /\ row = withdrawal[w]),
           phase \in {"sending", "waiting", "answered", "dead"},
           paid \in {"none", "pending", "success", "reverted"},
           IsRow(row),
           phase \in {"sending", "waiting"} => row.status = "requested",
           phase = "sending" => row.signed = FALSE,
           row.status = "failed" => row.signed = FALSE,
           row.status = "paid" => paid = "success",
           handler[w] # "idle" /\ withdrawal[w].signed = TRUE
             => row.status # "failed" /\ row.signed = TRUE,
           \/ asking' = asking
           \/ asking' = [phase |-> "sending", said |-> "none", withdrawal |-> w]
    PROVE  PayInv' /\ SignedStays
<1>1. /\ DOMAIN withdrawal' = Withdrawal
      /\ handler' \in [Withdrawal -> {"idle", "sending", "waiting", "answered", "dead"}]
      /\ payment' \in [Withdrawal -> {"none", "pending", "success", "reverted"}]
  BY DEF PayInv
<1>2. /\ withdrawal'[w] = row /\ handler'[w] = phase /\ payment'[w] = paid
      /\ \A v \in Withdrawal \ {w} : /\ withdrawal'[v] = withdrawal[v]
                                     /\ handler'[v] = handler[v]
                                     /\ payment'[v] = payment[v]
  BY DEF PayInv
<1>3. ASSUME NEW v \in Withdrawal
      PROVE  /\ handler'[v] = "idle" => withdrawal'[v] = NoWithdrawal
             /\ handler'[v] # "idle" => IsRow(withdrawal'[v])
             /\ handler'[v] \in {"sending", "waiting"} => withdrawal'[v].status = "requested"
             /\ handler'[v] = "sending" => withdrawal'[v].signed = FALSE
             /\ withdrawal'[v].status = "failed" => withdrawal'[v].signed = FALSE
             /\ withdrawal'[v].status = "paid" => payment'[v] = "success"
  BY <1>2 DEF PayInv
<1>4. /\ asking'.phase = "sending" =>
           /\ asking'.withdrawal \in Withdrawal
           /\ asking' = [phase |-> "sending", said |-> "none", withdrawal |-> asking'.withdrawal]
      /\ asking'.said \in {"paid", "failed", "review"} =>
           /\ asking'.withdrawal \in Withdrawal
           /\ handler'[asking'.withdrawal] = "answered"
           /\ withdrawal'[asking'.withdrawal].status = asking'.said
  <2>1. CASE asking' = asking
    BY <1>2, <2>1 DEF PayInv
  <2>2. CASE asking' = [phase |-> "sending", said |-> "none", withdrawal |-> w]
    BY <2>2
  <2> QED
    BY <2>1, <2>2
<1>5. SignedStays
  <2> SUFFICES ASSUME NEW v \in Withdrawal,
                      withdrawal[v].status # "none", withdrawal[v].signed
               PROVE  withdrawal'[v].status # "failed" /\ withdrawal'[v].signed
    BY DEF SignedStays
  <2>1. withdrawal[v].signed = TRUE /\ handler[v] # "idle"
    BY DEF PayInv, NoWithdrawal, IsRow
  <2>2. CASE v = w
    BY <1>2, <2>1, <2>2
  <2>3. CASE v # w
    BY <1>2, <2>1, <2>3 DEF PayInv
  <2> QED
    BY <2>2, <2>3
<1> QED
  BY <1>1, <1>3, <1>4, <1>5, Zenon DEF PayInv, IsRow

LEMMA PayInvNext == PayInv /\ [PayNext]_payVars => PayInv' /\ SignedStays
<1> SUFFICES ASSUME PayInv, [PayNext]_payVars PROVE PayInv' /\ SignedStays
  OBVIOUS
<1> DEFINE Others == UNCHANGED <<withdrawal, handler, payment>>
<1>1. ASSUME Others PROVE SignedStays
  BY <1>1 DEF PayInv, SignedStays, NoWithdrawal, IsRow
<1>2. CASE UNCHANGED payVars
  BY <1>1, <1>2 DEF payVars, PayInv
<1>3. ASSUME NEW w \in Withdrawal, NEW u, NEW credits, RequestWithdrawal(w, u, credits),
             asking' \in {asking, [phase |-> "sending", said |-> "none", withdrawal |-> w]}
      PROVE  PayInv' /\ SignedStays
  <2> DEFINE row == [status |-> "requested", user |-> u, credits |-> credits,
                     day |-> day, signed |-> FALSE]
  <2>1. /\ withdrawal' = [withdrawal EXCEPT ![w] = row]
        /\ handler' = [handler EXCEPT ![w] = "sending"]
        /\ payment' = [payment EXCEPT ![w] = payment[w]]
        /\ handler[w] = "idle"
        /\ payment[w] \in {"none", "pending", "success", "reverted"}
    BY <1>3 DEF RequestWithdrawal, PayInv, IsRow
  <2>2. IsRow(row) /\ row.status = "requested" /\ row.signed = FALSE
    BY DEF IsRow
  <2> QED
    BY <1>3, <2>1, <2>2, OneRequest
<1>4. ASSUME NEW w \in Withdrawal, UNCHANGED asking,
             \/ SendRejected(w) \/ Unrecorded(w) \/ ReceiptLost(w)
             \/ payment[w] = "reverted" /\ ReceiptArrives(w)
      PROVE  PayInv' /\ SignedStays
  <2>1. PICK submitted \in BOOLEAN :
          /\ MarkFailed(w, submitted) /\ payment' = payment
          /\ handler[w] = IF submitted THEN "waiting" ELSE "sending"
    BY <1>4 DEF SendRejected, Unrecorded, ReceiptArrives, ReceiptLost
  <2> DEFINE row == IF submitted THEN [withdrawal[w] EXCEPT !.status = "review"]
                    ELSE [withdrawal[w] EXCEPT !.status = "failed", !.signed = FALSE]
  <2>2. /\ withdrawal' = [withdrawal EXCEPT ![w] = row]
        /\ handler' = [handler EXCEPT ![w] = "answered"]
        /\ payment' = [payment EXCEPT ![w] = payment[w]]
        /\ payment[w] \in {"none", "pending", "success", "reverted"}
    BY <2>1 DEF MarkFailed, PayInv
  <2>3. IsRow(withdrawal[w]) /\ (~submitted => withdrawal[w].signed = FALSE)
    BY <2>1 DEF PayInv
  <2>4. /\ IsRow(row) /\ row.status \in {"review", "failed"}
        /\ row.status = "failed" => row.signed = FALSE /\ withdrawal[w].signed = FALSE
        /\ row.signed = withdrawal[w].signed
    BY <2>3 DEF IsRow
  <2> QED
    BY <1>4, <2>1, <2>2, <2>4, OneRequest
<1>5. ASSUME NEW w \in Withdrawal, UNCHANGED asking, RecordSignature(w)
      PROVE  PayInv' /\ SignedStays
  <2> DEFINE row == [withdrawal[w] EXCEPT !.signed = TRUE]
  <2>1. /\ withdrawal' = [withdrawal EXCEPT ![w] = row]
        /\ handler' = [handler EXCEPT ![w] = "waiting"]
        /\ payment' = [payment EXCEPT ![w] = payment[w]]
        /\ payment[w] \in {"none", "pending", "success", "reverted"}
        /\ handler[w] = "sending" /\ withdrawal[w].status = "requested"
        /\ IsRow(withdrawal[w])
    BY <1>5 DEF RecordSignature, PayInv
  <2>2. IsRow(row) /\ row.status = "requested" /\ row.signed = TRUE
    BY <2>1, SignedRow
  <2> QED
    BY <1>5, <2>1, <2>2, OneRequest
<1>6. ASSUME NEW w \in Withdrawal, UNCHANGED asking, ReceiptArrives(w), payment[w] = "success"
      PROVE  PayInv' /\ SignedStays
  <2> DEFINE row == [withdrawal[w] EXCEPT !.status = "paid", !.signed = TRUE]
  <2>1. /\ withdrawal' = [withdrawal EXCEPT ![w] = row]
        /\ handler' = [handler EXCEPT ![w] = "answered"]
        /\ payment' = [payment EXCEPT ![w] = payment[w]]
        /\ handler[w] = "waiting"
        /\ IsRow(withdrawal[w])
    BY <1>6 DEF ReceiptArrives, PayInv
  <2>2. IsRow(row) /\ row.status = "paid" /\ row.signed = TRUE
    BY <2>1, SignedRow
  <2> QED
    BY <1>6, <2>1, <2>2, OneRequest
<1>7. ASSUME NEW w \in Withdrawal, UNCHANGED asking,
             SendAccepted(w) \/ \E outcome \in {"success", "reverted"} : PaymentMined(w, outcome)
      PROVE  PayInv' /\ SignedStays
  <2>1. PICK paid \in {"pending", "success", "reverted"} :
          /\ payment' = [payment EXCEPT ![w] = paid]
          /\ UNCHANGED <<withdrawal, handler>>
          /\ payment[w] # "success"
    BY <1>7 DEF SendAccepted, PaymentMined
  <2>2. payment' \in [Withdrawal -> {"none", "pending", "success", "reverted"}]
    BY <2>1 DEF PayInv
  <2>3. \A v \in Withdrawal : payment[v] = "success" => payment'[v] = "success"
    BY <2>1 DEF PayInv
  <2>4. SignedStays
    BY <2>1 DEF PayInv, SignedStays, NoWithdrawal, IsRow
  <2> QED
    BY <1>7, <2>1, <2>2, <2>3, <2>4 DEF PayInv
<1>8. CASE HandlersLost /\ UNCHANGED asking /\ UNCHANGED payment
  <2>1. /\ handler' \in [Withdrawal -> {"idle", "sending", "waiting", "answered", "dead"}]
        /\ \A w \in Withdrawal :
             /\ handler'[w] = "idle" <=> handler[w] = "idle"
             /\ handler'[w] \notin {"sending", "waiting"}
             /\ handler'[w] = "answered" <=> handler[w] = "answered"
    BY <1>8 DEF HandlersLost, PayInv
  <2>2. UNCHANGED <<withdrawal, payment, asking>>
    BY <1>8 DEF HandlersLost
  <2>3. SignedStays
    BY <2>2 DEF PayInv, SignedStays, NoWithdrawal, IsRow
  <2> QED
    BY <2>1, <2>2, <2>3 DEF PayInv
<1>9. CASE /\ asking' \in {NotAsking, [phase |-> "error", said |-> "rejected"],
                           [phase |-> "error", said |-> "cut"]}
           /\ Others
  BY <1>1, <1>9 DEF PayInv, NotAsking
<1>10. CASE Told
  <2>1. /\ Others
        /\ asking.withdrawal \in Withdrawal
        /\ handler[asking.withdrawal] = "answered"
        /\ asking = [phase |-> "sending", said |-> "none", withdrawal |-> asking.withdrawal]
        /\ asking' = [asking EXCEPT
             !.phase = IF withdrawal[asking.withdrawal].status = "paid" THEN "done" ELSE "error",
             !.said = withdrawal[asking.withdrawal].status]
    BY <1>10 DEF Told, PayInv, withdrawalVars
  <2>2. /\ asking'.phase # "sending" /\ asking'.withdrawal = asking.withdrawal
        /\ asking'.said = withdrawal[asking.withdrawal].status
    BY <2>1
  <2> QED
    BY <1>1, <2>1, <2>2 DEF PayInv
<1>11. HandlersLost => UNCHANGED payment
  BY DEF HandlersLost
<1>12. ASSUME NEW w \in Withdrawal, ReceiptArrives(w)
       PROVE  payment[w] \in {"success", "reverted"}
  BY <1>12 DEF ReceiptArrives
<1> QED
  BY <1>2, <1>3, <1>4, <1>5, <1>6, <1>7, <1>8, <1>9, <1>10, <1>11, <1>12 DEF PayNext

LEMMA PayInvAlways == Spec => []PayInv
<1>1. Init => PayInv
  BY PayInvInit DEF Init
<1>2. PayInv /\ [Next]_vars => PayInv'
  BY PayInvNext, PayMoves
<1> QED
  BY <1>1, <1>2, PTL DEF Spec

\* PanelTellsTruth of Accounts, for any number of withdrawals asked for at once:
\* what the panel said of one is never taken back by a later step.
THEOREM PanelIsTruthful == Spec => []PanelTellsTruth
<1>1. PayInv => PanelTellsTruth
  BY DEF PayInv, PanelTellsTruth
<1> QED
  BY <1>1, PayInvAlways, PTL

\* SignedIsNeverRefunded of Accounts: payout.ts's rule on refunds, across
\* receipts that are late, lost or failed and processes that die.
THEOREM SignedIsSafe == Spec => SignedIsNeverRefunded
<1>1. PayInv /\ [Next]_vars =>
        [\A w \in Withdrawal :
           withdrawal[w].status # "none" /\ withdrawal[w].signed
             => withdrawal'[w].status # "failed" /\ withdrawal'[w].signed]_vars
  BY PayInvNext, PayMoves DEF SignedStays
<1> QED
  BY <1>1, PayInvAlways, PTL DEF Spec, SignedIsNeverRefunded

-----------------------------------------------------------------------------
(***************************************************************************)
(* Deposits.                                                               *)
(***************************************************************************)
creditVars == <<deposits, tx, head, claim, panel>>

\* What only the panels do.
PanelMoves(u) ==
    /\ LoadAddress(u) \/ StartDeposit(u) \/ Connect(u) \/ Connected(u)
         \/ WalletDeclines(u) \/ GiveUpWaiting(u)
    /\ UNCHANGED <<deposits, tx, head, claim>>

CreditNext ==
    \/ \E u \in User : PanelMoves(u) \/ \E h \in Hash : WalletSends(u, h)
    \/ MineBlock \/ \E depth \in 1 .. Confirmations : Reorg(depth)
    \/ \E c \in Claim, u \in User :
         PanelClaim(c, u) \/ \E h \in Hash : RepeatClaim(c, u, h)
    \/ \E c \in Claim : Verify(c) \/ CreditDeposit(c)
    \/ ClaimsLost

LEMMA FreshClaim == NewClaim \subseteq Claim
BY DEF NewClaim, AnyOf

LEMMA CreditMoves == [Next]_vars => [CreditNext]_creditVars
<1> SUFFICES ASSUME [Next]_vars PROVE CreditNext \/ UNCHANGED creditVars
  BY DEF CreditNext
<1> USE DEF depositVars, creditVars, chainVars
<1>1. CASE UNCHANGED vars
  BY <1>1 DEF vars
<1>2. ASSUME NEW u \in User, LoginStep(u) \/ StakeStep(u) \/ WalletStep(u)
      PROVE  UNCHANGED creditVars
  <2>1. CASE LoginStep(u)  BY <2>1 DEF LoginStep
  <2>2. CASE StakeStep(u)  BY <2>2 DEF StakeStep
  <2>3. CASE WalletStep(u)  BY <2>3 DEF WalletStep
  <2> QED  BY <1>2, <2>1, <2>2, <2>3
<1>3. ASSUME NEW u \in User, DepositStep(u) PROVE CreditNext
  <2>1. CASE \E h \in Hash : WalletSends(u, h)
    BY <2>1 DEF CreditNext
  <2>2. CASE LoadAddress(u)
    BY <2>2 DEF LoadAddress, CreditNext, PanelMoves
  <2>3. CASE StartDeposit(u) \/ Connect(u) \/ Connected(u)
    BY <2>3 DEF StartDeposit, Connect, Connected, CreditNext, PanelMoves
  <2>4. CASE WalletDeclines(u) \/ GiveUpWaiting(u)
    BY <2>4 DEF WalletDeclines, GiveUpWaiting, CreditNext, PanelMoves
  <2> QED
    BY <1>3, <2>1, <2>2, <2>3, <2>4 DEF DepositStep
<1>4. ASSUME JobStep \/ TreasuryStep \/ WithdrawStep \/ DashStep
      PROVE  UNCHANGED creditVars
  <2>1. CASE JobStep  BY <2>1 DEF JobStep
  <2>2. CASE TreasuryStep  BY <2>2 DEF TreasuryStep
  <2>3. CASE WithdrawStep  BY <2>3 DEF WithdrawStep
  <2>4. CASE DashStep  BY <2>4 DEF DashStep
  <2> QED  BY <1>4, <2>1, <2>2, <2>3, <2>4
<1>5. ASSUME PriceStep \/ BuybackStep \/ \E w \in Withdrawal : PayoutStep(w)
      PROVE  UNCHANGED creditVars
  <2>1. CASE PriceStep  BY <2>1 DEF PriceStep
  <2>2. CASE BuybackStep  BY <2>2 DEF BuybackStep
  <2>3. CASE \E w \in Withdrawal : PayoutStep(w)  BY <2>3 DEF PayoutStep
  <2> QED  BY <1>5, <2>1, <2>2, <2>3
<1>6. CASE ChainStep
  BY <1>6 DEF ChainStep, CreditNext
<1>7. CASE Crash
  BY <1>7 DEF Crash, CreditNext
<1>8. CASE AskStep
  BY <1>8, FreshClaim DEF AskStep, CreditNext
<1>9. ASSUME NEW c \in Claim, ClaimStep(c) PROVE CreditNext
  BY <1>9 DEF ClaimStep, CreditNext
<1> QED
  BY <1>1, <1>2, <1>3, <1>4, <1>5, <1>6, <1>7, <1>8, <1>9 DEF Next

\* What was credited, or is about to be, has its confirmations and keeps them.
PanelInv ==
    /\ DOMAIN panel = User
    /\ \A u \in User :
         /\ DOMAIN panel[u] = {"phase", "connected", "address", "sent", "asked"}
         /\ panel[u].sent \subseteq Hash

ChainInv ==
    /\ head \in Nat
    /\ DOMAIN tx = Hash
    /\ \A h \in Hash :
         /\ DOMAIN tx[h] = {"state", "to", "block"}
         /\ tx[h].block \in 0 .. head
         /\ tx[h].state \in {"unsent", "pending"} => tx[h].block = 0

ClaimInv ==
    /\ DOMAIN claim = Claim
    /\ \A c \in Claim :
         /\ claim[c].phase \in {"verifying", "verified"} =>
              claim[c].user \in User /\ claim[c].hash \in Hash
         /\ claim[c].phase = "verified" =>
              claim[c].credits \in Worth /\ Confirmed(claim[c].hash)

Entry == [ref : Hash, user : User, credits : Worth]

DepositInv ==
    /\ deposits \in Seq(Entry)
    /\ \A i \in DOMAIN deposits : Confirmed(deposits[i].ref)
    /\ \A i, j \in DOMAIN deposits : deposits[i].ref = deposits[j].ref => i = j

CreditInv == PanelInv /\ ChainInv /\ ClaimInv /\ DepositInv

LEMMA CreditInvInit == DepositsInit => CreditInv
BY DepositsAssumption
   DEF DepositsInit, CreditInv, PanelInv, ChainInv, ClaimInv, DepositInv,
       Unsent, Free, NewPanel, NoIndex

\* Nothing undoes a confirmation.
LEMMA ConfirmedStays ==
    ASSUME CreditInv, [CreditNext]_creditVars, NEW h \in Hash, Confirmed(h)
    PROVE  Confirmed(h)'
<1> USE DepositsAssumption DEF CreditInv, ChainInv, Confirmed
<1>1. ASSUME UNCHANGED <<tx, head>> PROVE Confirmed(h)'
  BY <1>1
<1>2. CASE UNCHANGED creditVars
  BY <1>1, <1>2 DEF creditVars
<1>3. ASSUME NEW u \in User, NEW g \in Hash, WalletSends(u, g) PROVE Confirmed(h)'
  BY <1>3 DEF WalletSends
<1>4. ASSUME NEW u \in User, PanelMoves(u) PROVE Confirmed(h)'
  BY <1>1, <1>4 DEF PanelMoves
<1>5. CASE MineBlock
  <2>1. head' = head + 1
    BY <1>5 DEF MineBlock
  <2>2. tx'[h] = tx[h]
    BY <1>5 DEF MineBlock
  <2> QED
    BY <2>1, <2>2
<1>6. ASSUME NEW depth \in 1 .. Confirmations, Reorg(depth) PROVE Confirmed(h)'
  <2>1. /\ depth \in Int /\ Confirmations \in Int /\ depth < Confirmations
        /\ head \in Int /\ tx[h].block \in Int /\ head - tx[h].block + 1 >= Confirmations
    <3>1. depth \in Int /\ depth < Confirmations
      <4> HIDE DEF CreditInv, ChainInv, Confirmed
      <4>1. depth < Confirmations
        BY <1>6, Zenon DEF Reorg
      <4> QED
        BY <4>1
    <3>2. head \in Nat /\ tx[h].block \in 0 .. head
      OBVIOUS
    <3>3. head - tx[h].block + 1 >= Confirmations /\ Confirmations \in Nat
      OBVIOUS
    <3> QED
      BY <3>1, <3>2, <3>3
  <2>2. ~(tx[h].block > head - depth)
    <3> HIDE DEF CreditInv, ChainInv, Confirmed
    <3> QED  BY <2>1
  <2>3. /\ head' = head
        /\ tx'[h] = IF tx[h].block > head - depth
                    THEN [tx[h] EXCEPT !.block = 0, !.state = "pending"] ELSE tx[h]
    BY <1>6 DEF Reorg
  <2> QED
    BY <2>2, <2>3
<1>7. ASSUME NEW c \in Claim, Verify(c) \/ CreditDeposit(c) PROVE Confirmed(h)'
  BY <1>1, <1>7 DEF Verify, CreditDeposit, chainVars
<1>8. ASSUME NEW c \in Claim, NEW u \in User,
             PanelClaim(c, u) \/ \E g \in Hash : RepeatClaim(c, u, g)
      PROVE  Confirmed(h)'
  BY <1>1, <1>8 DEF PanelClaim, RepeatClaim, StartClaim, chainVars
<1>9. CASE ClaimsLost
  BY <1>1, <1>9 DEF ClaimsLost, chainVars
<1> QED
  BY <1>2, <1>3, <1>4, <1>5, <1>6, <1>7, <1>8, <1>9 DEF CreditNext

LEMMA PanelInvNext == CreditInv /\ [CreditNext]_creditVars => PanelInv'
<1> SUFFICES ASSUME PanelInv, [CreditNext]_creditVars PROVE PanelInv'
  BY DEF CreditInv
<1> USE DEF PanelInv
<1>1. CASE UNCHANGED creditVars
  BY <1>1 DEF creditVars
<1>2. ASSUME NEW u \in User, PanelMoves(u) PROVE PanelInv'
  <2>1. CASE LoadAddress(u)
    BY <2>1 DEF LoadAddress
  <2>2. CASE StartDeposit(u)
    BY <2>2 DEF StartDeposit
  <2>3. CASE Connect(u)
    BY <2>3 DEF Connect
  <2>4. CASE Connected(u)
    BY <2>4 DEF Connected
  <2>5. CASE WalletDeclines(u)
    BY <2>5 DEF WalletDeclines
  <2>6. CASE GiveUpWaiting(u)
    BY <2>6 DEF GiveUpWaiting
  <2> QED
    BY <1>2, <2>1, <2>2, <2>3, <2>4, <2>5, <2>6 DEF PanelMoves
<1>3. ASSUME NEW u \in User, NEW h \in Hash, WalletSends(u, h) PROVE PanelInv'
  BY <1>3 DEF WalletSends
<1>4. CASE MineBlock \/ \E depth \in 1 .. Confirmations : Reorg(depth)
  <2>1. panel' = panel
    BY <1>4 DEF MineBlock, Reorg
  <2> QED
    BY <2>1
<1>5. ASSUME NEW c \in Claim, NEW u \in User,
             PanelClaim(c, u) \/ \E h \in Hash : RepeatClaim(c, u, h)
      PROVE  PanelInv'
  <2>1. CASE PanelClaim(c, u)
    BY <2>1 DEF PanelClaim
  <2>2. CASE panel' = panel
    BY <2>2
  <2> QED
    BY <1>5, <2>1, <2>2 DEF RepeatClaim
<1>6. ASSUME NEW c \in Claim, Verify(c) \/ CreditDeposit(c) PROVE PanelInv'
  <2>1. panel' \in {panel, Answered(c, "error"), Answered(c, "done")}
    BY <1>6 DEF Verify, CreditDeposit
  <2> QED
    BY <2>1 DEF Answered
<1>7. CASE ClaimsLost
  BY <1>7 DEF ClaimsLost
<1> QED
  BY <1>1, <1>2, <1>3, <1>4, <1>5, <1>6, <1>7 DEF CreditNext

LEMMA ChainInvNext == CreditInv /\ [CreditNext]_creditVars => ChainInv'
<1> SUFFICES ASSUME ChainInv, [CreditNext]_creditVars PROVE ChainInv'
  BY DEF CreditInv
<1> USE DepositsAssumption DEF ChainInv
<1>1. ASSUME UNCHANGED <<tx, head>> PROVE ChainInv'
  BY <1>1
<1>2. CASE UNCHANGED creditVars
  BY <1>1, <1>2 DEF creditVars
<1>3. ASSUME NEW u \in User, NEW g \in Hash, WalletSends(u, g) PROVE ChainInv'
  BY <1>3 DEF WalletSends
<1>4. ASSUME NEW u \in User, PanelMoves(u) PROVE ChainInv'
  BY <1>1, <1>4 DEF PanelMoves
<1>5. CASE MineBlock
  <2>1. head' = head + 1 /\ DOMAIN tx' = Hash
    BY <1>5 DEF MineBlock
  <2>2. ASSUME NEW h \in Hash
        PROVE  \/ tx'[h] = tx[h]
               \/ \E state \in {"success", "reverted"} :
                    tx'[h] = [tx[h] EXCEPT !.block = head + 1, !.state = state]
    BY <1>5 DEF MineBlock
  <2>3. ASSUME NEW h \in Hash
        PROVE  /\ DOMAIN tx'[h] = {"state", "to", "block"}
               /\ tx'[h].block \in 0 .. head + 1
               /\ tx'[h].state \in {"unsent", "pending"} => tx'[h].block = 0
    <3>1. CASE tx'[h] = tx[h]
      BY <3>1
    <3>2. ASSUME NEW state \in {"success", "reverted"},
                 tx'[h] = [tx[h] EXCEPT !.block = head + 1, !.state = state]
          PROVE  /\ DOMAIN tx'[h] = {"state", "to", "block"}
                 /\ tx'[h].block \in 0 .. head + 1
                 /\ tx'[h].state \in {"unsent", "pending"} => tx'[h].block = 0
      BY <3>2
    <3> QED
      BY <2>2, <3>1, <3>2
  <2> QED
    BY <2>1, <2>3
<1>6. ASSUME NEW depth \in 1 .. Confirmations, Reorg(depth) PROVE ChainInv'
  <2>1. head' = head /\ DOMAIN tx' = Hash
    BY <1>6 DEF Reorg
  <2>2. ASSUME NEW h \in Hash
        PROVE  \/ tx'[h] = tx[h]
               \/ tx'[h] = [tx[h] EXCEPT !.block = 0, !.state = "pending"]
    BY <1>6 DEF Reorg
  <2>3. ASSUME NEW h \in Hash
        PROVE  /\ DOMAIN tx'[h] = {"state", "to", "block"}
               /\ tx'[h].block \in 0 .. head
               /\ tx'[h].state \in {"unsent", "pending"} => tx'[h].block = 0
    <3>1. CASE tx'[h] = tx[h]
      BY <3>1
    <3>2. CASE tx'[h] = [tx[h] EXCEPT !.block = 0, !.state = "pending"]
      BY <3>2
    <3> QED
      BY <2>2, <3>1, <3>2
  <2> QED
    BY <2>1, <2>3
<1>7. ASSUME NEW c \in Claim, Verify(c) \/ CreditDeposit(c) PROVE ChainInv'
  BY <1>1, <1>7 DEF Verify, CreditDeposit, chainVars
<1>8. ASSUME NEW c \in Claim, NEW u \in User,
             PanelClaim(c, u) \/ \E g \in Hash : RepeatClaim(c, u, g)
      PROVE  ChainInv'
  BY <1>1, <1>8 DEF PanelClaim, RepeatClaim, StartClaim, chainVars
<1>9. CASE ClaimsLost
  BY <1>1, <1>9 DEF ClaimsLost, chainVars
<1> QED
  BY <1>2, <1>3, <1>4, <1>5, <1>6, <1>7, <1>8, <1>9 DEF CreditNext

LEMMA ClaimInvNext == CreditInv /\ [CreditNext]_creditVars => ClaimInv'
<1> SUFFICES ASSUME CreditInv, [CreditNext]_creditVars PROVE ClaimInv'
  OBVIOUS
<1> USE DEF ClaimInv
<1>1. ASSUME UNCHANGED claim PROVE ClaimInv'
  BY <1>1, ConfirmedStays DEF CreditInv
<1>2. ASSUME NEW c \in Claim, NEW r, claim' = [claim EXCEPT ![c] = r],
             r.phase \in {"verifying", "verified"} => r.user \in User /\ r.hash \in Hash,
             r.phase = "verified" => r.credits \in Worth /\ Confirmed(r.hash)
      PROVE  ClaimInv'
  BY <1>2, ConfirmedStays DEF CreditInv
<1>3. CASE UNCHANGED creditVars
  BY <1>1, <1>3 DEF creditVars
<1>4. ASSUME NEW u \in User, NEW g \in Hash, WalletSends(u, g) PROVE ClaimInv'
  BY <1>1, <1>4 DEF WalletSends
<1>5. ASSUME NEW u \in User, PanelMoves(u) PROVE ClaimInv'
  BY <1>1, <1>5 DEF PanelMoves
<1>6. CASE MineBlock \/ \E depth \in 1 .. Confirmations : Reorg(depth)
  BY <1>1, <1>6 DEF MineBlock, Reorg
<1>7. ASSUME NEW c \in Claim, NEW u \in User, NEW h \in Hash, StartClaim(c, u, h)
      PROVE  ClaimInv'
  <2> DEFINE r == [phase |-> "verifying", user |-> u, hash |-> h]
  <2>1. claim' = [claim EXCEPT ![c] = r]
    BY <1>7 DEF StartClaim
  <2> QED
    BY <1>2, <2>1
<1>8. ASSUME NEW c \in Claim, Verify(c) PROVE ClaimInv'
  <2>1. claim[c].user \in User /\ claim[c].hash \in Hash
    BY <1>8 DEF Verify, CreditInv
  <2>2. CASE claim' = [claim EXCEPT ![c] = Free]
    BY <1>2, <2>2 DEF Free
  <2>3. ASSUME Confirmed(claim[c].hash), NEW credits \in Worth \ {0},
               claim' = [claim EXCEPT ![c] = [phase |-> "verified", user |-> @.user,
                                              hash |-> claim[c].hash, credits |-> credits]]
        PROVE  ClaimInv'
    <3> DEFINE r == [phase |-> "verified", user |-> claim[c].user,
                     hash |-> claim[c].hash, credits |-> credits]
    <3>1. claim' = [claim EXCEPT ![c] = r]
      BY <2>3
    <3> QED
      BY <1>2, <2>1, <2>3, <3>1
  <2> QED
    BY <1>8, <2>2, <2>3 DEF Verify
<1>9. ASSUME NEW c \in Claim, CreditDeposit(c) PROVE ClaimInv'
  <2>1. claim' = [claim EXCEPT ![c] = Free]
    BY <1>9 DEF CreditDeposit
  <2> QED
    BY <1>2, <2>1 DEF Free
<1>10. CASE ClaimsLost
  BY <1>10 DEF ClaimsLost, Free
<1>11. ASSUME NEW c \in Claim, NEW u \in User,
              PanelClaim(c, u) \/ \E h \in Hash : RepeatClaim(c, u, h)
       PROVE  \E h \in Hash : StartClaim(c, u, h)
  BY <1>11 DEF PanelClaim, RepeatClaim, CreditInv, PanelInv
<1> QED
  BY <1>3, <1>4, <1>5, <1>6, <1>7, <1>8, <1>9, <1>10, <1>11 DEF CreditNext

LEMMA DepositInvNext == CreditInv /\ [CreditNext]_creditVars => DepositInv'
<1> SUFFICES ASSUME CreditInv, [CreditNext]_creditVars PROVE DepositInv'
  OBVIOUS
<1>1. ASSUME UNCHANGED deposits PROVE DepositInv'
  <2>1. \A i \in DOMAIN deposits : deposits[i].ref \in Hash
    <3>1. \A i \in DOMAIN deposits : deposits[i] \in Entry
      BY DEF CreditInv, DepositInv
    <3> QED
      BY <3>1 DEF Entry
  <2>2. \A i \in DOMAIN deposits : Confirmed(deposits[i].ref)'
    BY <1>1, <2>1, ConfirmedStays DEF CreditInv, DepositInv
  <2> QED
    BY <1>1, <2>2 DEF CreditInv, DepositInv
<1>2. ASSUME NEW c \in Claim, CreditDeposit(c) PROVE DepositInv'
  <2>1. CASE UNCHANGED deposits
    BY <1>1, <2>1
  <2>2. CASE ~Credited(claim[c].hash)
    <3> DEFINE e == [ref |-> claim[c].hash, user |-> claim[c].user,
                     credits |-> claim[c].credits]
    <3>1. deposits' = Append(deposits, e)
      BY <1>2, <2>2 DEF CreditDeposit
    <3>2. e \in Entry /\ Confirmed(e.ref)
      BY <1>2 DEF CreditDeposit, CreditInv, ClaimInv, Entry
    <3>3. \A i \in DOMAIN deposits : deposits[i] \in Entry /\ deposits[i].ref # e.ref
      BY <2>2 DEF CreditInv, DepositInv, Credited
    <3>4. /\ deposits \in Seq(Entry) /\ deposits' \in Seq(Entry)
          /\ DOMAIN deposits' = 1 .. Len(deposits) + 1
          /\ deposits'[Len(deposits) + 1] = e
          /\ \A i \in 1 .. Len(deposits) : deposits'[i] = deposits[i]
      <4> HIDE DEF e
      <4> QED  BY <3>1, <3>2 DEF CreditInv, DepositInv
    <3>5. \A i \in DOMAIN deposits' : Confirmed(deposits'[i].ref)
      BY <3>2, <3>4 DEF CreditInv, DepositInv
    <3>6. \A i \in DOMAIN deposits' : Confirmed(deposits[i].ref)'
      <4>1. \A i \in DOMAIN deposits' : deposits'[i].ref \in Hash
        <5>1. \A i \in DOMAIN deposits' : deposits'[i] \in Entry
          BY <3>4
        <5> QED
          BY <5>1 DEF Entry
      <4>2. UNCHANGED <<tx, head>>
        BY <1>2 DEF CreditDeposit, chainVars
      <4> QED
        BY <3>5, <4>1, <4>2 DEF Confirmed
    <3>7. \A i, j \in DOMAIN deposits' : deposits'[i].ref = deposits'[j].ref => i = j
      <4> HIDE DEF e
      <4> QED  BY <3>3, <3>4 DEF CreditInv, DepositInv
    <3> QED
      BY <3>4, <3>6, <3>7 DEF DepositInv
  <2> QED
    BY <1>2, <2>1, <2>2 DEF CreditDeposit
<1>3. CASE UNCHANGED creditVars
  BY <1>1, <1>3 DEF creditVars
<1>4. ASSUME NEW u \in User, NEW g \in Hash, WalletSends(u, g) PROVE DepositInv'
  BY <1>1, <1>4 DEF WalletSends
<1>5. ASSUME NEW u \in User, PanelMoves(u) PROVE DepositInv'
  BY <1>1, <1>5 DEF PanelMoves
<1>6. CASE MineBlock \/ \E depth \in 1 .. Confirmations : Reorg(depth)
  BY <1>1, <1>6 DEF MineBlock, Reorg
<1>7. ASSUME NEW c \in Claim, Verify(c) PROVE DepositInv'
  BY <1>1, <1>7 DEF Verify
<1>8. ASSUME NEW c \in Claim, NEW u \in User,
             PanelClaim(c, u) \/ \E h \in Hash : RepeatClaim(c, u, h)
      PROVE  DepositInv'
  BY <1>1, <1>8 DEF PanelClaim, RepeatClaim, StartClaim
<1>9. CASE ClaimsLost
  BY <1>1, <1>9 DEF ClaimsLost
<1> QED
  BY <1>2, <1>3, <1>4, <1>5, <1>6, <1>7, <1>8, <1>9 DEF CreditNext

\* CreditedOnce of Accounts: for any number of requests at once, and any depth
\* of confirmations, a transaction is credited at most once and never leaves
\* the chain again.
THEOREM DepositsCreditOnce == Spec => []CreditedOnce
<1>1. Init => CreditInv
  BY CreditInvInit DEF Init
<1>2. CreditInv /\ [Next]_vars => CreditInv'
  BY CreditMoves, PanelInvNext, ChainInvNext, ClaimInvNext, DepositInvNext DEF CreditInv
<1>3. CreditInv => CreditedOnce
  BY DEF CreditInv, DepositInv, CreditedOnce, Confirmed
<1> QED
  BY <1>1, <1>2, <1>3, PTL DEF Spec

-----------------------------------------------------------------------------
(***************************************************************************)
(* The addresses.                                                          *)
(***************************************************************************)
\* The next index is one that no account has.
LEMMA HighestIndex ==
    ASSUME depositIndex \in [User -> Nat \cup {NoIndex}]
    PROVE  NextIndex \in Nat /\ \A u \in User : depositIndex[u] < NextIndex
<1> DEFINE D == {NoIndex} \cup {depositIndex[u] : u \in User}
           G == {T \in SUBSET User : \E n \in D : \A u \in T : depositIndex[u] <= n}
<1>1. {} \in G
  BY DEF NoIndex
<1>2. ASSUME NEW T \in G, NEW x \in User \ T PROVE T \cup {x} \in G
  <2>1. PICK n \in D : \A u \in T : depositIndex[u] <= n
    OBVIOUS
  <2>2. n \in Int /\ depositIndex[x] \in Int /\ depositIndex[x] \in D
        /\ \A u \in T : depositIndex[u] \in Int
    BY DEF NoIndex
  <2>3. CASE depositIndex[x] <= n
    <3>1. \A u \in T \cup {x} : depositIndex[u] <= n
      BY <2>1, <2>3
    <3> QED  BY <3>1
  <2>4. CASE ~(depositIndex[x] <= n)
    <3>1. \A u \in T \cup {x} : depositIndex[u] <= depositIndex[x]
      BY <2>1, <2>2, <2>4
    <3> QED  BY <2>2, <3>1
  <2> QED  BY <2>3, <2>4
<1>3. G = SUBSET User
  <2>1. G \in SUBSET SUBSET User /\ IsFiniteSet(User)
    BY LedgerAssumption
  <2> HIDE DEF G
  <2> QED  BY <1>1, <1>2, <2>1, SubsetInduction
<1>4. \E n \in D : \A u \in User : depositIndex[u] <= n
  BY <1>3
<1> DEFINE top == CHOOSE n \in D : \A u \in User : depositIndex[u] <= n
<1>5. top \in D /\ \A u \in User : depositIndex[u] <= top
  BY <1>4
<1>6. NextIndex = 1 + top
  BY DEF NextIndex
<1>7. top \in Nat \cup {NoIndex}
  <2> HIDE DEF top
  <2> QED  BY <1>5
<1> HIDE DEF top, D
<1> QED
  BY <1>5, <1>6, <1>7 DEF NoIndex

\* No two accounts have the same address.
IndexInv ==
    /\ depositIndex \in [User -> Nat \cup {NoIndex}]
    /\ \A u, v \in User : depositIndex[u] = depositIndex[v] /\ u # v
                            => depositIndex[u] = NoIndex

LEMMA IndexMoves ==
    ASSUME CreditInv, [Next]_vars
    PROVE  UNCHANGED depositIndex \/ \E u \in User : AssignIndex(u)
<1> USE DEF depositVars
<1>1. CASE UNCHANGED vars
  BY <1>1 DEF vars
<1>2. ASSUME NEW u \in User, LoginStep(u) \/ StakeStep(u) \/ WalletStep(u)
      PROVE  UNCHANGED depositIndex
  <2>1. CASE LoginStep(u)  BY <2>1 DEF LoginStep
  <2>2. CASE StakeStep(u)  BY <2>2 DEF StakeStep
  <2>3. CASE WalletStep(u)  BY <2>3 DEF WalletStep
  <2> QED  BY <1>2, <2>1, <2>2, <2>3
<1>3. ASSUME NEW u \in User, DepositStep(u)
      PROVE  UNCHANGED depositIndex \/ AssignIndex(u)
  <2>1. CASE LoadAddress(u)
    BY <2>1 DEF LoadAddress
  <2>2. CASE \E h \in Hash : WalletSends(u, h)
    BY <2>2 DEF WalletSends
  <2>3. CASE StartDeposit(u) \/ Connect(u) \/ Connected(u)
    BY <2>3 DEF StartDeposit, Connect, Connected
  <2>4. CASE WalletDeclines(u) \/ GiveUpWaiting(u)
    BY <2>4 DEF WalletDeclines, GiveUpWaiting
  <2> QED
    BY <1>3, <2>1, <2>2, <2>3, <2>4 DEF DepositStep
<1>4. ASSUME JobStep \/ TreasuryStep \/ WithdrawStep \/ DashStep
      PROVE  UNCHANGED depositIndex
  <2>1. CASE JobStep  BY <2>1 DEF JobStep
  <2>2. CASE TreasuryStep  BY <2>2 DEF TreasuryStep
  <2>3. CASE WithdrawStep  BY <2>3 DEF WithdrawStep
  <2>4. CASE DashStep  BY <2>4 DEF DashStep
  <2> QED  BY <1>4, <2>1, <2>2, <2>3, <2>4
<1>5. ASSUME PriceStep \/ BuybackStep \/ \E w \in Withdrawal : PayoutStep(w)
      PROVE  UNCHANGED depositIndex
  <2>1. CASE PriceStep  BY <2>1 DEF PriceStep
  <2>2. CASE BuybackStep  BY <2>2 DEF BuybackStep
  <2>3. CASE \E w \in Withdrawal : PayoutStep(w)  BY <2>3 DEF PayoutStep
  <2> QED  BY <1>5, <2>1, <2>2, <2>3
<1>6. CASE ChainStep
  BY <1>6 DEF ChainStep, MineBlock, Reorg
<1>7. CASE Crash
  BY <1>7 DEF Crash, ClaimsLost
<1>8. CASE AskStep
  BY <1>8 DEF AskStep, PanelClaim, RepeatClaim, StartClaim
<1>9. ASSUME NEW c \in Claim, ClaimStep(c)
      PROVE  UNCHANGED depositIndex \/ \E u \in User : AssignIndex(u)
  <2>1. CASE Verify(c)
    <3>1. claim[c].user \in User
      BY <2>1 DEF Verify, CreditInv, ClaimInv
    <3> QED  BY <2>1, <3>1 DEF Verify
  <2>2. CASE CreditDeposit(c)
    BY <2>2 DEF CreditDeposit
  <2> QED  BY <1>9, <2>1, <2>2 DEF ClaimStep
<1> QED
  BY <1>1, <1>2, <1>3, <1>4, <1>5, <1>6, <1>7, <1>8, <1>9 DEF Next

\* An index is new when it is given, and then stays.
LEMMA IndexStays ==
    ASSUME IndexInv, UNCHANGED depositIndex \/ \E u \in User : AssignIndex(u)
    PROVE  /\ IndexInv'
           /\ \A u \in User : depositIndex[u] # NoIndex => depositIndex'[u] = depositIndex[u]
<1>1. CASE UNCHANGED depositIndex
  BY <1>1 DEF IndexInv
<1>2. ASSUME NEW u \in User, AssignIndex(u)
      PROVE  /\ IndexInv'
             /\ \A v \in User : depositIndex[v] # NoIndex => depositIndex'[v] = depositIndex[v]
  <2>1. NextIndex \in Nat /\ \A v \in User : depositIndex[v] < NextIndex
    BY HighestIndex DEF IndexInv
  <2>2. \A v \in User : depositIndex[v] \in Int /\ depositIndex[v] # NextIndex
    <3>1. \A v \in User : depositIndex[v] \in Int
      BY DEF IndexInv, NoIndex
    <3> QED  BY <2>1, <3>1
  <2> QED  BY <1>2, <2>1, <2>2 DEF AssignIndex, IndexOf, IndexInv
<1> QED
  BY <1>1, <1>2

\* A transaction that is confirmed goes where it went.
LEMMA PaidStays ==
    ASSUME CreditInv, [CreditNext]_creditVars, NEW h \in Hash, Confirmed(h)
    PROVE  tx'[h].to = tx[h].to
<1>1. ASSUME UNCHANGED tx PROVE tx'[h].to = tx[h].to
  BY <1>1
<1>2. DOMAIN tx = Hash /\ DOMAIN tx[h] = {"state", "to", "block"} /\ tx[h].state = "success"
  BY DEF CreditInv, ChainInv, Confirmed
<1>3. ASSUME NEW u \in User, NEW g \in Hash, WalletSends(u, g) PROVE tx'[h].to = tx[h].to
  BY <1>2, <1>3 DEF WalletSends
<1>4. CASE MineBlock
  BY <1>2, <1>4 DEF MineBlock
<1>5. ASSUME NEW depth \in 1 .. Confirmations, Reorg(depth) PROVE tx'[h].to = tx[h].to
  <2>1. tx'[h] = tx[h] \/ tx'[h] = [tx[h] EXCEPT !.block = 0, !.state = "pending"]
    BY <1>5 DEF Reorg
  <2> QED  BY <1>2, <2>1
<1>6. CASE UNCHANGED creditVars
  BY <1>1, <1>6 DEF creditVars
<1>7. ASSUME NEW u \in User, PanelMoves(u) PROVE UNCHANGED tx
  BY <1>7 DEF PanelMoves
<1>8. ASSUME NEW c \in Claim, Verify(c) \/ CreditDeposit(c) PROVE UNCHANGED tx
  BY <1>8 DEF Verify, CreditDeposit, chainVars
<1>9. ASSUME NEW c \in Claim, NEW u \in User,
             PanelClaim(c, u) \/ \E g \in Hash : RepeatClaim(c, u, g)
      PROVE  UNCHANGED tx
  BY <1>9 DEF PanelClaim, RepeatClaim, StartClaim, chainVars
<1>10. CASE ClaimsLost
  BY <1>1, <1>10 DEF ClaimsLost, chainVars
<1> QED
  BY <1>1, <1>3, <1>4, <1>5, <1>6, <1>7, <1>8, <1>9, <1>10 DEF CreditNext

\* What was credited, or is about to be, was paid to its account's address.
PaidIn(h, u) == depositIndex[u] # NoIndex /\ tx[h].to = depositIndex[u]

AddressInv ==
    /\ IndexInv
    /\ \A c \in Claim : claim[c].phase = "verified" => PaidIn(claim[c].hash, claim[c].user)
    /\ \A i \in DOMAIN deposits : PaidIn(deposits[i].ref, deposits[i].user)

\* It still is, after a step.
Still(h, u) == depositIndex'[u] # NoIndex /\ tx'[h].to = depositIndex'[u]

LEMMA AddressInvNext ==
    ASSUME CreditInv, AddressInv, [Next]_vars
    PROVE  AddressInv'
<1>1. [CreditNext]_creditVars
  BY CreditMoves
<1>2. /\ IndexInv'
      /\ \A u \in User : depositIndex[u] # NoIndex => depositIndex'[u] = depositIndex[u]
  BY IndexMoves, IndexStays DEF AddressInv
<1>3. ASSUME NEW h \in Hash, NEW u \in User, Confirmed(h), PaidIn(h, u)
      PROVE  Still(h, u)
  BY <1>1, <1>2, <1>3, PaidStays DEF PaidIn, Still
<1>4. ASSUME NEW i \in DOMAIN deposits
      PROVE  Still(deposits[i].ref, deposits[i].user)
  <2>1. deposits[i].ref \in Hash /\ deposits[i].user \in User
    <3>1. deposits[i] \in Entry
      BY DEF CreditInv, DepositInv
    <3> QED  BY <3>1 DEF Entry
  <2>2. Confirmed(deposits[i].ref) /\ PaidIn(deposits[i].ref, deposits[i].user)
    BY DEF CreditInv, DepositInv, AddressInv
  <2> QED  BY <1>3, <2>1, <2>2
<1>5. ASSUME NEW c \in Claim, claim[c].phase = "verified"
      PROVE  Still(claim[c].hash, claim[c].user)
  <2>1. claim[c].hash \in Hash /\ claim[c].user \in User
        /\ Confirmed(claim[c].hash) /\ PaidIn(claim[c].hash, claim[c].user)
    BY <1>5 DEF CreditInv, ClaimInv, AddressInv
  <2> QED  BY <1>3, <2>1
<1>6. ASSUME /\ \A i \in DOMAIN deposits' : Still(deposits'[i].ref, deposits'[i].user)
             /\ \A c \in Claim : claim'[c].phase = "verified"
                                   => Still(claim'[c].hash, claim'[c].user)
      PROVE  AddressInv'
  BY <1>2, <1>6 DEF AddressInv, PaidIn, Still
<1>7. ASSUME UNCHANGED deposits,
             \A c \in Claim : \/ claim'[c] = claim[c] \/ claim'[c].phase # "verified"
                              \/ Still(claim'[c].hash, claim'[c].user)
      PROVE  AddressInv'
  BY <1>4, <1>5, <1>6, <1>7
<1>8. CASE UNCHANGED creditVars
  BY <1>7, <1>8 DEF creditVars
<1>9. ASSUME NEW u \in User, NEW g \in Hash, WalletSends(u, g) PROVE AddressInv'
  BY <1>7, <1>9 DEF WalletSends
<1>10. ASSUME NEW u \in User, PanelMoves(u) PROVE AddressInv'
  BY <1>7, <1>10 DEF PanelMoves
<1>11. CASE MineBlock \/ \E depth \in 1 .. Confirmations : Reorg(depth)
  BY <1>7, <1>11 DEF MineBlock, Reorg
<1>12. ASSUME NEW c \in Claim, NEW u \in User,
              PanelClaim(c, u) \/ \E h \in Hash : RepeatClaim(c, u, h)
       PROVE  AddressInv'
  <2>1. UNCHANGED deposits /\ \A b \in Claim : b # c => claim'[b] = claim[b]
    BY <1>12 DEF PanelClaim, RepeatClaim, StartClaim, CreditInv, ClaimInv
  <2>2. claim'[c].phase = "verifying"
    BY <1>12 DEF PanelClaim, RepeatClaim, StartClaim, CreditInv, ClaimInv
  <2> QED  BY <1>7, <2>1, <2>2
<1>13. ASSUME NEW c \in Claim, Verify(c) PROVE AddressInv'
  <2>1. UNCHANGED deposits /\ (\A b \in Claim : b # c => claim'[b] = claim[b]) /\ UNCHANGED tx
    BY <1>13 DEF Verify, CreditInv, ClaimInv, chainVars
  <2>2. CASE claim' = [claim EXCEPT ![c] = Free]
    <3>1. claim'[c].phase # "verified"
      BY <2>2 DEF Free, CreditInv, ClaimInv
    <3> QED  BY <1>7, <2>1, <3>1
  <2>3. ASSUME PaysTo(claim[c].hash, IndexOf(claim[c].user)), NEW credits,
               claim' = [claim EXCEPT ![c] = [phase |-> "verified", user |-> @.user,
                                              hash |-> claim[c].hash, credits |-> credits]]
        PROVE  AddressInv'
    <3> DEFINE u == claim[c].user  h == claim[c].hash
    <3>1. claim'[c].user = u /\ claim'[c].hash = h
      BY <2>3 DEF CreditInv, ClaimInv
    <3>2. u \in User
      BY <1>13 DEF Verify, CreditInv, ClaimInv
    <3>3. IndexOf(u) # NoIndex
      <4>1. NextIndex \in Nat
        BY HighestIndex DEF AddressInv, IndexInv
      <4> QED  BY <4>1 DEF IndexOf, NoIndex
    <3>4. depositIndex'[u] = IndexOf(u)
      BY <1>13, <3>2 DEF Verify, AssignIndex, AddressInv, IndexInv
    <3>5. Still(h, u)
      BY <2>1, <2>3, <3>3, <3>4 DEF PaysTo, Still
    <3> HIDE DEF u, h
    <3> QED  BY <1>7, <2>1, <3>1, <3>5
  <2> QED
    BY <1>13, <2>2, <2>3 DEF Verify
<1>14. ASSUME NEW c \in Claim, CreditDeposit(c) PROVE AddressInv'
  <2>1. \A b \in Claim : claim'[b] = claim[b] \/ claim'[b].phase # "verified"
    BY <1>14 DEF CreditDeposit, Free, CreditInv, ClaimInv
  <2>2. CASE UNCHANGED deposits
    BY <1>7, <2>1, <2>2
  <2>3. CASE ~Credited(claim[c].hash)
    <3> DEFINE e == [ref |-> claim[c].hash, user |-> claim[c].user,
                     credits |-> claim[c].credits]
    <3>1. deposits' = Append(deposits, e)
      BY <1>14, <2>3 DEF CreditDeposit
    <3>2. Still(e.ref, e.user)
      BY <1>5, <1>14 DEF CreditDeposit
    <3>3. /\ DOMAIN deposits' = 1 .. Len(deposits) + 1
          /\ deposits'[Len(deposits) + 1] = e
          /\ DOMAIN deposits = 1 .. Len(deposits)
          /\ \A i \in 1 .. Len(deposits) : deposits'[i] = deposits[i]
          /\ Len(deposits) \in Nat
      <4> HIDE DEF e
      <4>1. deposits \in Seq(Entry)
        BY DEF CreditInv, DepositInv
      <4> QED  BY <3>1, <4>1
    <3> HIDE DEF e
    <3>4. \A i \in DOMAIN deposits' : Still(deposits'[i].ref, deposits'[i].user)
      BY <1>4, <3>2, <3>3
    <3>5. \A b \in Claim : claim'[b].phase = "verified" => Still(claim'[b].hash, claim'[b].user)
      BY <1>5, <2>1
    <3> QED  BY <1>6, <3>4, <3>5
  <2> QED
    BY <1>14, <2>2, <2>3 DEF CreditDeposit
<1>15. CASE ClaimsLost
  <2>1. \A b \in Claim : claim'[b].phase # "verified"
    BY <1>15 DEF ClaimsLost, Free
  <2> QED  BY <1>7, <1>15, <2>1 DEF ClaimsLost
<1> QED
  BY <1>1, <1>8, <1>9, <1>10, <1>11, <1>12, <1>13, <1>14, <1>15 DEF CreditNext

LEMMA AddressInvInit == Init => AddressInv
BY DEF Init, DepositsInit, AddressInv, IndexInv, Free, NoIndex

\* CreditedToAddressee of Accounts, for any number of accounts: no two have the
\* same deposit address, and a deposit is credited to whom it was sent to, also
\* when others ask for it first.
THEOREM DepositsReachTheirAddressee == Spec => []CreditedToAddressee
<1>1. Init => CreditInv /\ AddressInv
  BY CreditInvInit, AddressInvInit DEF Init
<1>2. CreditInv /\ AddressInv /\ [Next]_vars => (CreditInv /\ AddressInv)'
  BY CreditMoves, PanelInvNext, ChainInvNext, ClaimInvNext, DepositInvNext, AddressInvNext
     DEF CreditInv
<1>3. AddressInv => CreditedToAddressee
  BY DEF AddressInv, IndexInv, PaidIn, CreditedToAddressee
<1> QED
  BY <1>1, <1>2, <1>3, PTL DEF Spec
=============================================================================
