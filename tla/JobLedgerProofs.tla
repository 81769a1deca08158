-------------------------- MODULE JobLedgerProofs --------------------------
(***************************************************************************)
(* What the abstract ledger promises, for every set of jobs and amounts.   *)
(***************************************************************************)
EXTENDS JobLedger, TLAPS

\* A row agrees with the verdict on its job.
RowTrue(j) ==
    /\ row[j].net = (CASE row[j].status = "reserved" -> -row[j].reserve
                       [] row[j].status = "done"     -> -row[j].charge
                       [] OTHER                      -> 0)
    /\ (outcome[j] = "done") <=> (row[j].status = "done")
    /\ (outcome[j] \in Failure) <=> (row[j].status = "error")
    /\ outcome[j] = "rejected" => row[j].status = "none"

LedgerInv == TypeOK /\ \A j \in Job : RowTrue(j)

LEMMA LedgerInit == Init => LedgerInv
BY DEF Init, LedgerInv, TypeOK, RowTrue, NewRow, Row, Status, Outcome, Failure

LEMMA LedgerStep ==
    ASSUME Amount \subseteq Nat, LedgerInv, [Next]_vars
    PROVE  LedgerInv'
<1> USE DEF LedgerInv, TypeOK, Row, Status, Outcome, Failure, Unseen
<1>1. ASSUME NEW j \in Job, Reject(j) PROVE LedgerInv'
  BY <1>1 DEF Reject, RowTrue
<1>2. ASSUME NEW j \in Job, Admit(j) PROVE LedgerInv'
  BY <1>2 DEF Admit, RowTrue
<1>3. ASSUME NEW j \in Job, Complete(j) PROVE LedgerInv'
  BY <1>3 DEF Complete, RowTrue
<1>4. ASSUME NEW j \in Job, AdmitAndFail(j) PROVE LedgerInv'
  BY <1>4 DEF AdmitAndFail, RowTrue
<1>5. ASSUME NEW j \in Job, AdmitAndComplete(j) PROVE LedgerInv'
  BY <1>5 DEF AdmitAndComplete, RowTrue
<1>6. ASSUME NEW jobs \in SUBSET Job, Fail(jobs) PROVE LedgerInv'
  BY <1>6 DEF Fail, RowTrue
<1>7. CASE UNCHANGED vars
  BY <1>7 DEF vars, RowTrue
<1> QED
  BY <1>1, <1>2, <1>3, <1>4, <1>5, <1>6, <1>7 DEF Next

\* A job's ledger entries always add up to what its state says.
THEOREM LedgerNetExact ==
    ASSUME Amount \subseteq Nat
    PROVE  Spec => []NetExact
<1>0. LedgerInv /\ [Next]_vars => LedgerInv'
  BY LedgerStep
<1>1. LedgerInv => NetExact
  BY DEF LedgerInv, NetExact, RowTrue
<1> QED
  BY LedgerInit, <1>0, <1>1, PTL DEF Spec

\* Callers hear of a success exactly when charged, of a failure exactly when refunded.
THEOREM LedgerToldTruth ==
    ASSUME Amount \subseteq Nat
    PROVE  Spec => []ToldTruth
<1>0. LedgerInv /\ [Next]_vars => LedgerInv'
  BY LedgerStep
<1>1. LedgerInv => ToldTruth
  BY DEF LedgerInv, ToldTruth, RowTrue
<1> QED
  BY LedgerInit, <1>0, <1>1, PTL DEF Spec

\* No outcome, and no money of a job that has one, ever changes.
THEOREM LedgerOutcomeIsFinal ==
    ASSUME Amount \subseteq Nat
    PROVE  Spec => OutcomeIsFinal
<1>0. LedgerInv /\ [Next]_vars => LedgerInv'
  BY LedgerStep
<1>1. LedgerInv /\ [Next]_vars =>
         [\A j \in Job : outcome[j] # "pending" =>
            outcome'[j] = outcome[j] /\ row'[j] = row[j]]_vars
  <2> SUFFICES ASSUME LedgerInv, [Next]_vars, NEW j \in Job, outcome[j] # "pending"
               PROVE  outcome'[j] = outcome[j] /\ row'[j] = row[j]
    OBVIOUS
  <2> USE DEF LedgerInv, TypeOK, Row, RowTrue, Unseen, Outcome, Failure
  <2>1. row[j].status # "reserved"
    OBVIOUS
  <2>2. ASSUME NEW i \in Job, \/ Reject(i) \/ Admit(i) \/ Complete(i)
                              \/ AdmitAndFail(i) \/ AdmitAndComplete(i)
        PROVE  outcome'[j] = outcome[j] /\ row'[j] = row[j]
    BY <2>1, <2>2 DEF Reject, Admit, Complete, AdmitAndFail, AdmitAndComplete
  <2>3. ASSUME NEW jobs \in SUBSET Job, Fail(jobs)
        PROVE  outcome'[j] = outcome[j] /\ row'[j] = row[j]
    BY <2>1, <2>3 DEF Fail
  <2>4. CASE UNCHANGED vars
    BY <2>4 DEF vars
  <2> QED BY <2>2, <2>3, <2>4 DEF Next
<1> QED
  BY LedgerInit, <1>0, <1>1, PTL DEF Spec, OutcomeIsFinal
=============================================================================
