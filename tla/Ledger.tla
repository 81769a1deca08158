------------------------------- MODULE Ledger -------------------------------
(***************************************************************************)
(* The accounts of packages/db: the users table and the sums the code      *)
(* takes over ledger_entries (balanceOf, sumHardIn), with the transactions *)
(* every part of the system shares.  A transaction is one synchronous step *)
(* of SQLite; one that throws rolls back and is left out.                  *)
(***************************************************************************)
EXTENDS Credits, FiniteSetsExt

CONSTANTS
    User,
    Grant,      \* SIGNUP_GRANT
    Job,        \* bound on the jobs submitted
    Amounts     \* the numbers of credits the instance deals in

ASSUME LedgerAssumption ==
    /\ IsFiniteSet(User) /\ IsFiniteSet(Job)
    /\ Grant \in Nat
    /\ Amounts \subseteq Nat \ {0}

VARIABLES
    users,      \* ids with a row in users
    sessions,   \* ids a token was signed for (/auth/dev)
    grants,     \* grants[u]: the sum of u's entries with source 'grant'
    balance,    \* balance[u]: the sum of u's entries
    hardIn,     \* hardIn[u]: that of the positive ones with a source that cashes
    job         \* job[j]: the jobs table with the entries of job j

ledgerVars == <<users, sessions, grants, balance, hardIn, job>>

NoJob == [status |-> "none", user |-> CHOOSE u \in User : TRUE, reserve |-> 0]

LedgerInit ==
    /\ users = {}
    /\ sessions = {}
    /\ grants = [u \in User |-> 0]
    /\ balance = [u \in User |-> 0]
    /\ hardIn = [u \in User |-> 0]
    /\ job = [j \in Job |-> NoJob]

\* insLedger on the sums: a soft entry, and one of a source that may be cashed.
Posted(sums, u, delta) == [sums EXCEPT ![u] = @ + delta]

\* auth.verify: a token that was signed for u names u, and no other does.
Authorised(u) == u \in sessions

\* Mutant of Login: an account is granted its credits at every login.
MutLogin(u) ==
    /\ users' = users \cup {u}
    /\ sessions' = sessions \cup {u}
    /\ grants' = Posted(grants, u, Grant)
    /\ balance' = Posted(balance, u, Grant)
    /\ UNCHANGED <<hardIn, job>>

\* /auth/dev: ensureUser, which grants the signup credits with the row.
Login(u) ==
    /\ users' = users \cup {u}
    /\ sessions' = sessions \cup {u}
    /\ LET granted == IF u \in users THEN 0 ELSE Grant IN
         /\ grants' = Posted(grants, u, granted)
         /\ balance' = Posted(balance, u, granted)
    /\ UNCHANGED <<hardIn, job>>

\* db.reserve
Reserve(j, u, amount) ==
    /\ job[j].status = "none"
    /\ Authorised(u)
    /\ balance[u] >= amount
    /\ balance' = Posted(balance, u, -amount)
    /\ job' = [job EXCEPT ![j] = [status |-> "reserved", user |-> u, reserve |-> amount]]
    /\ UNCHANGED <<users, sessions, grants, hardIn>>

\* db.settle without the stakers' fee: the owner pays the charge, the provider
\* (a worker's account, created without a grant) earns its share.
SettleJob(j, charge, provider) ==
    /\ job[j].status = "reserved"
    /\ job' = [job EXCEPT ![j].status = "done"]
    /\ balance' = Posted(Posted(balance, job[j].user, job[j].reserve - charge),
                         provider, WorkerEarn(charge))
    /\ hardIn' = Posted(hardIn, provider, WorkerEarn(charge))
    /\ users' = users \cup (IF WorkerEarn(charge) > 0 THEN {provider} ELSE {})
    /\ UNCHANGED <<sessions, grants>>

\* Mutant of RefundJob: the row stays reserved.
MutRefundJob(j) ==
    /\ job[j].status = "reserved"
    /\ balance' = Posted(balance, job[j].user, job[j].reserve)
    /\ UNCHANGED <<users, sessions, grants, hardIn, job>>

\* db.refund
RefundJob(j) ==
    /\ job[j].status = "reserved"
    /\ job' = [job EXCEPT ![j].status = "error"]
    /\ balance' = Posted(balance, job[j].user, job[j].reserve)
    /\ UNCHANGED <<users, sessions, grants, hardIn>>

Held == Total([j \in Job |-> IF job[j].status = "reserved" THEN job[j].reserve ELSE 0])
=============================================================================
