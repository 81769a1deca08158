----------------------------- MODULE Dashboard ------------------------------
(***************************************************************************)
(* One browser on the dashboard: its session (lib/auth.tsx), the numbers it *)
(* shows, which it polls for, and the withdraw panel, whose button goes by  *)
(* those numbers while the server decides.                                 *)
(***************************************************************************)
EXTENDS Withdrawals

CONSTANT NoUser

ASSUME DashboardAssumption == NoUser \notin User

VARIABLES
    session,    \* the account signed in
    shown,      \* its balance, as shown
    cash,       \* the withdrawable credits the panel knows of
    poll,       \* the reply to /me and /withdrawals that is under way
    asking      \* the withdraw panel: its phase, request and last message

dashVars == <<session, shown, cash, poll, asking>>

Unknown == -1
NoPoll == [phase |-> "none"]
NotAsking == [phase |-> "idle", said |-> "none"]

DashInit ==
    /\ session = NoUser
    /\ shown = 0
    /\ cash = Unknown
    /\ poll = NoPoll
    /\ asking = NotAsking

\* login: the session, and the panel mounts.
SignIn(u) ==
    /\ session = NoUser
    /\ Login(u)
    /\ session' = u
    /\ shown' = balance'[u]
    /\ UNCHANGED <<withdrawalVars, cash, poll, asking>>

\* logout: the panel unmounts; what was asked for still arrives.
SignOut ==
    /\ session # NoUser
    /\ session' = NoUser
    /\ shown' = 0
    /\ cash' = Unknown
    /\ poll' = IF poll = NoPoll THEN NoPoll ELSE [poll EXCEPT !.cash = Unknown]
    /\ asking' = NotAsking
    /\ UNCHANGED <<ledgerVars, withdrawalVars>>

\* GET /me and GET /withdrawals.
Numbers(u) == [phase |-> "reply", balance |-> balance[u], cash |-> Withdrawable(u)]

\* refresh and loadHistory, as the server answers them.
Poll ==
    /\ session # NoUser
    /\ poll = NoPoll
    /\ poll' = Numbers(session)
    /\ UNCHANGED <<ledgerVars, withdrawalVars, session, shown, cash, asking>>

\* The reply is shown whoever is signed in by then.
PollArrives ==
    /\ poll # NoPoll
    /\ poll' = NoPoll
    /\ shown' = poll.balance
    /\ cash' = IF poll.cash = Unknown THEN cash ELSE poll.cash
    /\ UNCHANGED <<ledgerVars, withdrawalVars, session, asking>>

\* The button, and the request it makes: accepted or rejected.
Press(w, credits) ==
    /\ session # NoUser
    /\ asking.phase # "sending"
    /\ credits >= MinRequest
    /\ credits <= IF cash = Unknown THEN shown ELSE cash
    /\ \/ /\ RequestWithdrawal(w, session, credits)
          /\ asking' = [phase |-> "sending", said |-> "none", withdrawal |-> w]
       \/ /\ ~MayWithdraw(session, credits)
          /\ asking' = [phase |-> "error", said |-> "rejected"]
          /\ UNCHANGED <<ledgerVars, withdrawalVars>>
    /\ UNCHANGED <<session, shown, cash, poll>>

\* Mutant of Told: an error is always reported as a refund.
MutTold ==
    /\ asking.phase = "sending"
    /\ handler[asking.withdrawal] = "answered"
    /\ LET paid == withdrawal[asking.withdrawal].status = "paid" IN
         asking' = [asking EXCEPT !.phase = IF paid THEN "done" ELSE "error",
                                  !.said = IF paid THEN "paid" ELSE "failed"]
    /\ UNCHANGED <<ledgerVars, withdrawalVars, session, shown, cash, poll>>

\* The answer: paid, refunded, or under review and not refunded.
Told ==
    /\ asking.phase = "sending"
    /\ handler[asking.withdrawal] = "answered"
    /\ LET status == withdrawal[asking.withdrawal].status IN
         asking' = [asking EXCEPT !.phase = IF status = "paid" THEN "done" ELSE "error",
                                  !.said = status]
    /\ UNCHANGED <<ledgerVars, withdrawalVars, session, shown, cash, poll>>

\* The request fails at the browser, whatever becomes of it at the server.
RequestCut ==
    /\ asking.phase = "sending"
    /\ asking' = [phase |-> "error", said |-> "cut"]
    /\ UNCHANGED <<ledgerVars, withdrawalVars, session, shown, cash, poll>>
=============================================================================
