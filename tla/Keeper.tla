------------------------------- MODULE Keeper -------------------------------
(***************************************************************************)
(* The buyback-and-burn keeper (scripts/keeper.ts): a scheduled process that*)
(* buys $0C with a slice of the treasury's ETH and burns whatever $0C the   *)
(* treasury holds.  One run at a time; a run may die at any point, while    *)
(* what it sent stays in the mempool.  The transactions of one account are  *)
(* mined in the order they were sent.                                      *)
(***************************************************************************)
EXTENDS Integers, Sequences

CONSTANT Rates      \* what the slice of ETH may buy; 0 for no pool

ASSUME KeeperAssumption == Rates \subseteq Nat /\ 0 \in Rates

VARIABLES
    rate,       \* what it would buy now (at first there is no pool)
    keeper,     \* the present or last run
    mempool,    \* the treasury's transactions that are not mined
    tokens,     \* balanceOf(treasury)
    burned      \* balanceOf(DEAD)

keeperVars == <<rate, keeper, mempool, tokens, burned>>

NoRun == [phase |-> "off", live |-> FALSE, quote |-> 0]

KeeperInit ==
    /\ rate = 0
    /\ keeper = NoRun
    /\ mempool = <<>>
    /\ tokens = 0
    /\ burned = 0

RateMoves ==
    /\ rate' \in Rates \ {rate}
    /\ UNCHANGED <<keeper, mempool, tokens, burned>>

\* main, enabled and configured; KEEPER_DRY_RUN as it is now.
StartKeeper ==
    /\ keeper.phase \in {"off", "done"}
    /\ \E live \in BOOLEAN : keeper' = [phase |-> "quoting", live |-> live, quote |-> 0]
    /\ UNCHANGED <<rate, mempool, tokens, burned>>

\* The quote reverts, is zero, or this is a dry run: a no-op.
Quote ==
    /\ keeper.phase = "quoting"
    /\ keeper' = IF rate = 0 \/ ~keeper.live THEN NoRun
                 ELSE [keeper EXCEPT !.phase = "quoted", !.quote = rate]
    /\ UNCHANGED <<rate, mempool, tokens, burned>>

\* The swap is sent, accepting 1.5% slippage against the quote.
Swap ==
    /\ keeper.phase = "quoted"
    /\ mempool' = Append(mempool, [do |-> "swap", amount |-> (keeper.quote * 985) \div 1000])
    /\ keeper' = [keeper EXCEPT !.phase = "swapping"]
    /\ UNCHANGED <<rate, tokens, burned>>

\* The treasury's next transaction is mined; it reverts if the price moved too
\* far, or the balance does not cover it.
MineTreasury ==
    /\ mempool # <<>>
    /\ mempool' = Tail(mempool)
    /\ LET t == Head(mempool) IN
         \/ /\ t.do = "swap"
            /\ tokens' = IF rate >= t.amount THEN tokens + rate ELSE tokens
            /\ UNCHANGED burned
         \/ /\ t.do = "burn"
            /\ LET n == IF tokens >= t.amount THEN t.amount ELSE 0 IN
                 tokens' = tokens - n /\ burned' = burned + n
    /\ UNCHANGED <<rate, keeper>>

\* Mutant of Burn: only what this run expects to have bought.
MutBurn ==
    /\ keeper.phase = "swapping" /\ mempool = <<>>
    /\ mempool' = <<[do |-> "burn", amount |-> keeper.quote]>>
    /\ keeper' = [keeper EXCEPT !.phase = "burning"]
    /\ UNCHANGED <<rate, tokens, burned>>

\* The swap has a receipt, whose status is not looked at; then everything the
\* treasury holds is burned.
Burn ==
    /\ keeper.phase = "swapping" /\ mempool = <<>>
    /\ \/ /\ tokens > 0
          /\ mempool' = <<[do |-> "burn", amount |-> tokens]>>
          /\ keeper' = [keeper EXCEPT !.phase = "burning"]
       \/ /\ tokens = 0
          /\ keeper' = [keeper EXCEPT !.phase = "done"]
          /\ UNCHANGED mempool
    /\ UNCHANGED <<rate, tokens, burned>>

EndKeeper ==
    /\ keeper.phase = "burning" /\ mempool = <<>>
    /\ keeper' = [keeper EXCEPT !.phase = "done"]
    /\ UNCHANGED <<rate, mempool, tokens, burned>>

\* The RPC fails or the process is killed.
KeeperDies ==
    /\ keeper.phase \notin {"off", "done"}
    /\ keeper' = NoRun
    /\ UNCHANGED <<rate, mempool, tokens, burned>>

KeeperStep == Quote \/ Swap \/ MineTreasury \/ Burn \/ EndKeeper
=============================================================================
