----------------------------- MODULE JobStore ------------------------------
(***************************************************************************)
(* The part of packages/db a job goes through: db.reserve, db.settle and   *)
(* db.refund, each one synchronous SQLite transaction.  A job's row holds  *)
(* its line of the jobs table and net, the sum of its owner's              *)
(* ledger_entries with ref = the job id; a balance is, as in the source,   *)
(* the sum of an account's ledger entries.                                 *)
(***************************************************************************)
EXTENDS Credits, FiniteSetsExt

CONSTANTS
    Job,
    JobUser,        \* JobUser[j]: the account that submits j
    Deposited,      \* Deposited[u]: what u's other ledger entries add up to
    TotalStaked     \* staking_state.total_staked

ASSUME JobStoreAssumption ==
    /\ IsFiniteSet(Job)
    /\ \A j \in Job : Deposited[JobUser[j]] \in Nat

VARIABLES
    row,                \* jobs table and the owner's entries per job
    earned,             \* earned[p]: sum of p's "earn" entries
    lifetimeRewards     \* staking_state.lifetime_rewards

storeVars == <<row, earned, lifetimeRewards>>

Status == {"none", "reserved", "done", "error"}
Row == [status : Status, reserve : Nat, charge : Nat, net : Int]
NewRow == [status |-> "none", reserve |-> 0, charge |-> 0, net |-> 0]

Balance(u) ==
    Deposited[u] + Total([j \in {i \in Job : JobUser[i] = u} |-> row[j].net])

\* Mutant of CanReserve: one credit too generous.
MutCanReserve(j, amount) == Balance(JobUser[j]) + 1 >= amount

\* db.reserve throws InsufficientCreditsError, and rolls back, otherwise.
CanReserve(j, amount) == Balance(JobUser[j]) >= amount

Reserved(r, amount) ==
    [status |-> "reserved", reserve |-> amount, charge |-> 0, net |-> r.net - amount]

\* The reservation is corrected so that the net spend is the charge.
Settled(r, charge) ==
    [status |-> "done", reserve |-> r.reserve, charge |-> charge,
     net |-> r.net + (r.reserve - charge)]

\* Neither the row's status nor an earlier refund is looked at.
Refunded(r) ==
    [status |-> "error", reserve |-> r.reserve, charge |-> 0, net |-> r.net + r.reserve]

\* The other two entries of db.settle: the provider's share and the stakers' fee.
PayOut(charge, provider) ==
    /\ earned' = [earned EXCEPT ![provider] = @ + WorkerEarn(charge)]
    /\ lifetimeRewards' = lifetimeRewards
                          + (IF TotalStaked > 0 THEN StakingFee(charge) ELSE 0)

NoPayOut == UNCHANGED <<earned, lifetimeRewards>>
=============================================================================
