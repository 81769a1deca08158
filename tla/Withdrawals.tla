---------------------------- MODULE Withdrawals ----------------------------
(***************************************************************************)
(* Withdrawals (POST /withdrawals, db.requestWithdrawal and the marks, and  *)
(* payEth of payout.ts).  The handler awaits the treasury wallet twice, for *)
(* the broadcast and for the receipt; its phase says where it is.           *)
(***************************************************************************)
EXTENDS Ledger

CONSTANTS
    Withdrawal,     \* bound on the requests
    MinRequest, MaxPerRequest, MaxPerDay    \* withdrawCaps

ASSUME WithdrawalsAssumption ==
    /\ IsFiniteSet(Withdrawal)
    /\ MinRequest \in Nat /\ MaxPerRequest \in Nat /\ MaxPerDay \in Nat

VARIABLES
    withdrawal,     \* the withdrawals table
    handler,        \* where the request's handler is
    payment,        \* its transaction on the chain
    day             \* days since the epoch

withdrawalVars == <<withdrawal, handler, payment, day>>

NoWithdrawal == [status |-> "none"]

WithdrawalsInit ==
    /\ withdrawal = [w \in Withdrawal |-> NoWithdrawal]
    /\ handler = [w \in Withdrawal |-> "idle"]
    /\ payment = [w \in Withdrawal |-> "none"]
    /\ day = 0

SumCredits(set) == Total([w \in set |-> withdrawal[w].credits])

Rows(u) == {w \in Withdrawal : withdrawal[w].status # "none" /\ withdrawal[w].user = u}

\* WHERE user_id = ? AND status != 'failed'
Counted(u) == {w \in Rows(u) : withdrawal[w].status # "failed"}

Withdrawn(u) == SumCredits(Counted(u))
WithdrawnToday(u) == SumCredits({w \in Counted(u) : withdrawal[w].day = day})

\* Mutant of Withdrawable: earlier withdrawals are not deducted.
MutWithdrawable(u) == IF balance[u] < hardIn[u] THEN balance[u] ELSE hardIn[u]

\* withdrawableOf
Withdrawable(u) ==
    LET cashable == hardIn[u] - Withdrawn(u)
        least == IF balance[u] < cashable THEN balance[u] ELSE cashable
    IN  IF least > 0 THEN least ELSE 0

\* What requestWithdrawal checks, in credits.
MayWithdraw(u, credits) ==
    /\ credits >= MinRequest /\ credits <= MaxPerRequest
    /\ balance[u] >= credits
    /\ Withdrawable(u) >= credits
    /\ WithdrawnToday(u) + credits <= MaxPerDay

\* The request is accepted: its credits are deducted, and payEth is awaited.
RequestWithdrawal(w, u, credits) ==
    /\ Authorised(u)
    /\ withdrawal[w].status = "none"
    /\ MayWithdraw(u, credits)
    /\ balance' = Posted(balance, u, -credits)
    /\ withdrawal' = [withdrawal EXCEPT ![w] =
         [status |-> "requested", user |-> u, credits |-> credits,
          day |-> day, signed |-> FALSE]]
    /\ handler' = [handler EXCEPT ![w] = "sending"]
    /\ UNCHANGED <<users, sessions, grants, hardIn, job, payment, day>>

\* Mutant of MarkFailed: refunded whether or not the payment was submitted.
MutMarkFailed(w, submitted) ==
    /\ balance' = Posted(balance, withdrawal[w].user, withdrawal[w].credits)
    /\ withdrawal' = [withdrawal EXCEPT ![w].status = "failed", ![w].signed = FALSE]
    /\ handler' = [handler EXCEPT ![w] = "answered"]
    /\ UNCHANGED <<users, sessions, grants, hardIn, job>>

\* Mutant of MarkFailed: the error is answered, and the row left as it is.
MutMarkFailedSilent(w, submitted) ==
    /\ handler' = [handler EXCEPT ![w] = "answered"]
    /\ UNCHANGED <<withdrawal, balance, users, sessions, grants, hardIn, job>>

\* payEth returned an error: refund only if nothing was submitted.
MarkFailed(w, submitted) ==
    /\ IF submitted
       THEN /\ withdrawal' = [withdrawal EXCEPT ![w].status = "review"]
            /\ UNCHANGED balance
       ELSE /\ withdrawal' = [withdrawal EXCEPT ![w].status = "failed", ![w].signed = FALSE]
            /\ balance' = Posted(balance, withdrawal[w].user, withdrawal[w].credits)
    /\ handler' = [handler EXCEPT ![w] = "answered"]
    /\ UNCHANGED <<users, sessions, grants, hardIn, job>>

\* sendTransaction fails before the node has the transaction.
SendRejected(w) ==
    /\ handler[w] = "sending" /\ payment[w] = "none"
    /\ MarkFailed(w, FALSE)
    /\ UNCHANGED <<payment, day>>

\* The node has it; its reply is under way.
SendAccepted(w) ==
    /\ handler[w] = "sending" /\ payment[w] = "none"
    /\ payment' = [payment EXCEPT ![w] = "pending"]
    /\ UNCHANGED <<ledgerVars, withdrawal, handler, day>>

\* onSignature(hash), submitted = true.
RecordSignature(w) ==
    /\ handler[w] = "sending" /\ payment[w] # "none"
    /\ withdrawal' = [withdrawal EXCEPT ![w].signed = TRUE]
    /\ handler' = [handler EXCEPT ![w] = "waiting"]
    /\ UNCHANGED <<ledgerVars, payment, day>>

\* The reply is lost (a time-out of the RPC), or onSignature throws (the
\* database): submitted is still false.
Unrecorded(w) ==
    /\ handler[w] = "sending" /\ payment[w] # "none"
    /\ MarkFailed(w, FALSE)
    /\ UNCHANGED <<payment, day>>

PaymentMined(w, outcome) ==
    /\ payment[w] = "pending"
    /\ payment' = [payment EXCEPT ![w] = outcome]
    /\ UNCHANGED <<ledgerVars, withdrawal, handler, day>>

\* The receipt: markWithdrawalPaid, or an error after the submission.
ReceiptArrives(w) ==
    /\ handler[w] = "waiting"
    /\ \/ /\ payment[w] = "success"
          /\ withdrawal' = [withdrawal EXCEPT ![w].status = "paid", ![w].signed = TRUE]
          /\ handler' = [handler EXCEPT ![w] = "answered"]
          /\ UNCHANGED ledgerVars
       \/ payment[w] = "reverted" /\ MarkFailed(w, TRUE)
    /\ UNCHANGED <<payment, day>>

\* waitForTransactionReceipt throws or times out.
ReceiptLost(w) ==
    /\ handler[w] = "waiting"
    /\ MarkFailed(w, TRUE)
    /\ UNCHANGED <<payment, day>>

\* The orchestrator dies: the rows stay, the handlers do not.
HandlersLost ==
    /\ handler' = [w \in Withdrawal |->
                     IF handler[w] \in {"sending", "waiting"} THEN "dead" ELSE handler[w]]
    /\ UNCHANGED <<withdrawal, payment, day>>

NextDay ==
    /\ day' = day + 1
    /\ UNCHANGED <<ledgerVars, withdrawal, handler, payment>>
=============================================================================
