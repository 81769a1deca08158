------------------------------ MODULE Deposits ------------------------------
(***************************************************************************)
(* Deposits (eth.ts, the /credits routes, db.depositIndexFor and            *)
(* db.creditDeposit) over a chain that may reorganise, with the deposit     *)
(* panel of the web application as their client.                           *)
(*                                                                         *)
(* A transaction pays the address of one index.  block is 0 while it is     *)
(* not mined.  A request to credit it is a claim: the chain is read in one  *)
(* step, the credit is a later one, as other handlers run in between.      *)
(***************************************************************************)
EXTENDS Ledger, Sequences

CONSTANTS
    Hash,           \* transactions that may be sent
    Worth,          \* the credits a transaction is worth at the prices of the run
    Confirmations,  \* ETH_CONFIRMATIONS
    Claim           \* bound on the requests to credit a deposit at a time

ASSUME DepositsAssumption ==
    /\ Worth \subseteq Nat
    /\ Confirmations \in Nat \ {0}

VARIABLES
    depositIndex,   \* users.deposit_index
    deposits,       \* ledger_entries with source 'deposit_eth'
    tx, head,       \* the chain: its transactions and its height
    claim,          \* POST /credits/deposit, one record per request
    panel           \* the deposit panel of each user

depositVars == <<depositIndex, deposits, tx, head, claim, panel>>
chainVars == <<tx, head>>

NoIndex == -1
Free == [phase |-> "free"]
Unsent == [state |-> "unsent", to |-> NoIndex, block |-> 0]

\* The panel: its wallet, its address, the transaction it sent and the request
\* it made for that, if any.
NewPanel == [phase |-> "idle", connected |-> FALSE, address |-> NoIndex,
             sent |-> {}, asked |-> {}]

DepositsInit ==
    /\ depositIndex = [u \in User |-> NoIndex]
    /\ deposits = <<>>
    /\ tx = [h \in Hash |-> Unsent]
    /\ head = 0
    /\ claim = [c \in Claim |-> Free]
    /\ panel = [u \in User |-> NewPanel]

\* COALESCE(MAX(deposit_index), -1) + 1
NextIndex == 1 + CHOOSE n \in {NoIndex} \cup {depositIndex[u] : u \in User} :
                   \A u \in User : depositIndex[u] <= n

IndexOf(u) == IF depositIndex[u] = NoIndex THEN NextIndex ELSE depositIndex[u]

\* depositIndexFor: assigned on first use.
AssignIndex(u) == depositIndex' = [depositIndex EXCEPT ![u] = IndexOf(u)]

\* The panel's loadAddress: GET /credits/deposit-address.
LoadAddress(u) ==
    /\ Authorised(u)
    /\ panel[u].phase = "idle"
    /\ AssignIndex(u)
    /\ panel' = [panel EXCEPT ![u].address = IndexOf(u)]
    /\ UNCHANGED <<ledgerVars, deposits, chainVars, claim>>

\* A button can be pressed.
Ready(u) == panel[u].phase \in {"idle", "done", "error"}

\* connect()
Connect(u) ==
    /\ Ready(u) /\ ~panel[u].connected
    /\ panel' = [panel EXCEPT ![u].phase = "connecting"]
    /\ UNCHANGED <<ledgerVars, depositIndex, deposits, chainVars, claim>>

\* connectWallet: an address, or no provider, no account, no consent.
Connected(u) ==
    /\ panel[u].phase = "connecting"
    /\ \/ panel' = [panel EXCEPT ![u].phase = "idle", ![u].connected = TRUE]
       \/ panel' = [panel EXCEPT ![u].phase = "error"]
    /\ UNCHANGED <<ledgerVars, depositIndex, deposits, chainVars, claim>>

\* deposit(), up to its first await.
StartDeposit(u) ==
    /\ Ready(u) /\ panel[u].connected /\ panel[u].address # NoIndex
    /\ panel' = [panel EXCEPT ![u].phase = "sending", ![u].sent = {}]
    /\ UNCHANGED <<ledgerVars, depositIndex, deposits, chainVars, claim>>

\* ensureChain: the wallet is on another chain and stays there; or it declines.
WalletDeclines(u) ==
    /\ panel[u].phase = "sending"
    /\ panel' = [panel EXCEPT ![u].phase = "error"]
    /\ UNCHANGED <<ledgerVars, depositIndex, deposits, chainVars, claim>>

\* depositEth, depositUsdt: sent to the address shown; the panel may not learn
\* of it.
WalletSends(u, h) ==
    /\ panel[u].phase = "sending"
    /\ tx[h].state = "unsent"
    /\ tx' = [tx EXCEPT ![h] = [state |-> "pending", to |-> panel[u].address, block |-> 0]]
    /\ \/ panel' = [panel EXCEPT ![u].phase = "mining", ![u].sent = {h}]
       \/ panel' = [panel EXCEPT ![u].phase = "error"]
    /\ UNCHANGED <<ledgerVars, depositIndex, deposits, head, claim>>

\* A block is mined; a transaction in it may have failed.
MineBlock ==
    /\ head' = head + 1
    /\ \E mined \in SUBSET {h \in Hash : tx[h].state = "pending"} :
       \E reverted \in SUBSET mined :
         tx' = [h \in Hash |->
                  IF h \in mined
                  THEN [tx[h] EXCEPT !.block = head + 1,
                          !.state = IF h \in reverted THEN "reverted" ELSE "success"]
                  ELSE tx[h]]
    /\ UNCHANGED <<ledgerVars, depositIndex, deposits, claim, panel>>

\* The last blocks are replaced by as many without the transactions in them.
\* Blocks with Confirmations confirmations are final (the premise of that
\* setting, server.ts:73-75).
Reorg(depth) ==
    /\ depth < Confirmations /\ depth <= head
    /\ tx' = [h \in Hash |->
                IF tx[h].block > head - depth
                THEN [tx[h] EXCEPT !.block = 0, !.state = "pending"] ELSE tx[h]]
    /\ UNCHANGED <<ledgerVars, depositIndex, deposits, head, claim, panel>>

\* A request reaches the server: from the panel, whose waitForTx returned, or
\* the same one again (a retry, another tab, another account's session).
StartClaim(c, u, h) ==
    /\ claim[c].phase = "free"
    /\ Authorised(u)
    /\ tx[h].state # "unsent"
    /\ claim' = [claim EXCEPT ![c] = [phase |-> "verifying", user |-> u, hash |-> h]]
    /\ UNCHANGED <<ledgerVars, depositIndex, deposits, chainVars>>

RepeatClaim(c, u, h) == StartClaim(c, u, h) /\ UNCHANGED panel

\* waitForTx: what was sent has a receipt; a reverted transaction has one too.
Waited(u) ==
    /\ panel[u].phase = "mining"
    /\ \A h \in panel[u].sent : tx[h].block > 0

PanelClaim(c, u) ==
    /\ Waited(u)
    /\ \E h \in panel[u].sent : StartClaim(c, u, h)
    /\ panel' = [panel EXCEPT ![u].phase = "verifying", ![u].asked = {c}]

\* interpretTx's checks of the receipt.
Confirmed(h) == tx[h].state = "success" /\ head - tx[h].block + 1 >= Confirmations

\* Mutant of PaysTo: the destination is not compared.
MutPaysTo(h, index) == tx[h].to # NoIndex

PaysTo(h, index) == tx[h].to = index

\* waitForTx fails (its RPC, or viem's time-out): the panel does not ask.
GiveUpWaiting(u) ==
    /\ panel[u].phase = "mining"
    /\ panel' = [panel EXCEPT ![u].phase = "error", ![u].sent = {}]
    /\ UNCHANGED <<ledgerVars, depositIndex, deposits, chainVars, claim>>

\* What the panel shows when its claim is answered.
Answered(c, phase) ==
    [u \in User |->
        IF panel[u].asked = {c}
        THEN [panel[u] EXCEPT !.phase = phase, !.asked = {}] ELSE panel[u]]

\* verifyDeposit: the transaction, its receipt and the head are read at once
\* (Promise.all), and interpretTx judges them.
Verify(c) ==
    /\ claim[c].phase = "verifying"
    /\ AssignIndex(claim[c].user)
    /\ LET h == claim[c].hash IN
         \/ /\ Confirmed(h) /\ PaysTo(h, IndexOf(claim[c].user))
            /\ \E credits \in Worth \ {0} :
                 claim' = [claim EXCEPT ![c] = [phase |-> "verified", user |-> @.user,
                                                hash |-> h, credits |-> credits]]
            /\ UNCHANGED panel
         \/ /\ ~(Confirmed(h) /\ PaysTo(h, IndexOf(claim[c].user))) \/ 0 \in Worth
            /\ claim' = [claim EXCEPT ![c] = Free]
            /\ panel' = Answered(c, "error")
    /\ UNCHANGED <<ledgerVars, deposits, chainVars>>

\* Mutant of Credited: a hash in another spelling is not recognised.
MutCredited(h) == FALSE

\* findDeposit
Credited(h) == \E i \in DOMAIN deposits : deposits[i].ref = h

\* db.creditDeposit, and the answer.
CreditDeposit(c) ==
    /\ claim[c].phase = "verified"
    /\ LET u == claim[c].user  n == claim[c].credits IN
         IF Credited(claim[c].hash)
         THEN UNCHANGED <<ledgerVars, deposits>>
         ELSE /\ deposits' = Append(deposits, [ref |-> claim[c].hash, user |-> u, credits |-> n])
              /\ users' = users \cup {u}
              /\ balance' = Posted(balance, u, n)
              /\ hardIn' = Posted(hardIn, u, n)
              /\ UNCHANGED <<sessions, grants, job>>
    /\ claim' = [claim EXCEPT ![c] = Free]
    /\ panel' = Answered(c, "done")
    /\ UNCHANGED <<depositIndex, chainVars>>

\* The orchestrator dies: its requests fail at their clients.
ClaimsLost ==
    /\ claim' = [c \in Claim |-> Free]
    /\ panel' = [u \in User |->
         IF panel[u].asked # {}
         THEN [panel[u] EXCEPT !.phase = "error", !.asked = {}] ELSE panel[u]]
    /\ UNCHANGED <<depositIndex, deposits, chainVars>>
=============================================================================
