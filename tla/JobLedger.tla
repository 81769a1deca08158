----------------------------- MODULE JobLedger -----------------------------
(***************************************************************************)
(* What the inference service promises the owner of a job about money.     *)
(* A job is admitted by setting credits aside; it then ends at most once,  *)
(* either served, at a cost, or failed, at no cost, and the caller is told *)
(* exactly that.  How jobs are routed, to whom, and what fails on the way  *)
(* is not visible here.                                                    *)
(***************************************************************************)
EXTENDS Integers

CONSTANTS
    Job,
    Amount      \* the numbers of credits a job may reserve or cost

VARIABLES
    row,        \* row[j]: the job's line in the books
    outcome     \* outcome[j]: what the caller was told

vars == <<row, outcome>>

Status == {"none", "reserved", "done", "error"}

\* net is the sum of the owner's ledger entries that refer to the job.
Row == [status : Status, reserve : Nat, charge : Nat, net : Int]

Failure == {"refunded", "unserved"}
Outcome == {"pending", "rejected", "done"} \cup Failure

NewRow == [status |-> "none", reserve |-> 0, charge |-> 0, net |-> 0]

TypeOK ==
    /\ row \in [Job -> Row]
    /\ outcome \in [Job -> Outcome]

Init ==
    /\ row = [j \in Job |-> NewRow]
    /\ outcome = [j \in Job |-> "pending"]

Unseen(j) == row[j].status = "none" /\ outcome[j] = "pending"

\* Too few credits: nothing is booked and the caller is told so.
Reject(j) ==
    /\ Unseen(j)
    /\ outcome' = [outcome EXCEPT ![j] = "rejected"]
    /\ UNCHANGED row

Admit(j) ==
    /\ Unseen(j)
    /\ \E amount \in Amount :
          row' = [row EXCEPT ![j] = [status |-> "reserved", reserve |-> amount,
                                     charge |-> 0, net |-> -amount]]
    /\ UNCHANGED outcome

\* The job was served: its owner is charged, and told.
Complete(j) ==
    /\ row[j].status = "reserved"
    /\ \E charge \in Amount :
          row' = [row EXCEPT ![j] = [status |-> "done", reserve |-> @.reserve,
                                     charge |-> charge, net |-> -charge]]
    /\ outcome' = [outcome EXCEPT ![j] = "done"]

\* Some jobs failed together: each gets its whole reservation back.
Fail(jobs) ==
    /\ \A j \in jobs : row[j].status = "reserved"
    /\ row' = [j \in Job |-> IF j \in jobs
                             THEN [status |-> "error", reserve |-> row[j].reserve,
                                   charge |-> 0, net |-> 0]
                             ELSE row[j]]
    /\ \E why \in Failure :
          outcome' = [j \in Job |-> IF j \in jobs THEN why ELSE outcome[j]]

\* Admission and outcome in one step: nobody could serve the job, or the
\* orchestrator answered by itself.
AdmitAndFail(j) ==
    /\ Unseen(j)
    /\ \E amount \in Amount :
          row' = [row EXCEPT ![j] = [status |-> "error", reserve |-> amount,
                                     charge |-> 0, net |-> 0]]
    /\ \E why \in Failure : outcome' = [outcome EXCEPT ![j] = why]

AdmitAndComplete(j) ==
    /\ Unseen(j)
    /\ \E amount \in Amount :
          row' = [row EXCEPT ![j] = [status |-> "done", reserve |-> amount,
                                     charge |-> amount, net |-> -amount]]
    /\ outcome' = [outcome EXCEPT ![j] = "done"]

Next ==
    \/ \E j \in Job : \/ Reject(j)
                      \/ Admit(j)
                      \/ Complete(j)
                      \/ AdmitAndFail(j)
                      \/ AdmitAndComplete(j)
    \/ \E jobs \in SUBSET Job : Fail(jobs)

Spec == Init /\ [][Next]_vars
-----------------------------------------------------------------------------
\* A job's ledger entries always add up to what its state says: the
\* reservation while it is open, the charge once served, nothing if it failed.
NetExact ==
    \A j \in Job :
        row[j].net = CASE row[j].status = "reserved" -> -row[j].reserve
                       [] row[j].status = "done"     -> -row[j].charge
                       [] OTHER                      -> 0

\* The caller is told of a success exactly when charged, of a failure exactly
\* when the reservation went back.
ToldTruth ==
    \A j \in Job :
        /\ (outcome[j] = "done") <=> (row[j].status = "done")
        /\ (outcome[j] \in Failure) <=> (row[j].status = "error")

\* An outcome is final: neither the verdict nor the money moves again.
OutcomeIsFinal ==
    [][\A j \in Job : outcome[j] # "pending" =>
            outcome'[j] = outcome[j] /\ row'[j] = row[j]]_vars
=============================================================================
