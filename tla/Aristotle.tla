----------------------------- MODULE Aristotle ------------------------------
(***************************************************************************)
(* The client of Harmonic's proof agent (aristotle.ts) with as much of the  *)
(* service as it relies on: a project is a list of tasks in the order they  *)
(* were asked; ask() may or may not answer with the id of the task it       *)
(* created, and the list that a poll gets may lag behind it.  solve is      *)
(* called by the chat, by tools and by the X bot, one call per asker.      *)
(***************************************************************************)
EXTENDS Naturals, Sequences, FiniteSets

CONSTANT Asker      \* the calls of solve there may be

VARIABLES
    projects,   \* at the service: the tasks of each project
    solve       \* solve[a]: where a's call is

ariVars == <<projects, solve>>

NoProject == 0
NoTask == 0
Running == {"RUNNING"}
Terminal == {"COMPLETE", "COMPLETE_WITH_ERRORS", "OUT_OF_BUDGET", "FAILED", "CANCELED"}
Bad == {"FAILED", "CANCELED"}

Idle == [phase |-> "idle", project |-> NoProject, task |-> NoTask, result |-> "none"]
Done == [Idle EXCEPT !.phase = "done"]

AriInit ==
    /\ projects = <<>>
    /\ solve = [a \in Asker |-> Idle]

Task(a) == [asker |-> a, status |-> "RUNNING"]

\* solve is called, with the project to continue, if any.
Solve(a, prior) ==
    /\ solve[a].phase = "idle"
    /\ solve' = [solve EXCEPT ![a].phase = "requesting", ![a].project = prior]

\* The call resolves: ok and verified, ok, or not ok.
Return(a, project, result) ==
    solve' = [solve EXCEPT ![a] =
        [phase |-> "returned", project |-> project, task |-> @.task, result |-> result]]

\* createProject
Create(a) ==
    /\ solve[a].phase = "requesting" /\ solve[a].project = NoProject
    /\ projects' = Append(projects, <<Task(a)>>)
    /\ solve' = [solve EXCEPT ![a] =
         [phase |-> "polling", project |-> Len(projects) + 1, task |-> NoTask,
          result |-> "none"]]

\* askProject, mode INSTRUCT: another task of the same project.  The reply may
\* not name it ("body may be empty").
Ask(a) ==
    /\ solve[a].phase = "requesting" /\ solve[a].project # NoProject
    /\ projects' = [projects EXCEPT ![solve[a].project] = Append(@, Task(a))]
    /\ \E id \in {Len(projects[solve[a].project]) + 1, NoTask} :
         solve' = [solve EXCEPT ![a].phase = "polling", ![a].task = id]

\* The request fails before the service has it, or its reply is lost; the error
\* names no project.
RequestFails(a) ==
    /\ solve[a].phase = "requesting"
    /\ \/ UNCHANGED projects
       \/ /\ solve[a].project = NoProject
          /\ projects' = Append(projects, <<Task(a)>>)
       \/ /\ solve[a].project # NoProject
          /\ projects' = [projects EXCEPT ![solve[a].project] = Append(@, Task(a))]
    /\ Return(a, NoProject, "error")

\* The agent ends a task.
EndTask(p, i, status) ==
    /\ projects[p][i].status = "RUNNING"
    /\ projects' = [projects EXCEPT ![p][i].status = status]
    /\ UNCHANGED solve

\* Of the first n tasks, those that are listed: the one ask() named if it is among
\* them, otherwise the newest.
Watched(a, n) == IF solve[a].task \in 1 .. n THEN solve[a].task ELSE n

\* Mutant of Verdict: whatever is not bad is proved.
MutVerdict(status) == "verified"

Verdict(status) == IF status = "COMPLETE" THEN "verified" ELSE "answered"

\* One poll that finds the task it watches in a terminal state.  Others change
\* nothing, as do polls that fail or get an empty list.
Poll(a) ==
    /\ solve[a].phase = "polling"
    /\ LET p == solve[a].project
       IN \E n \in DOMAIN projects[p] :
            LET status == projects[p][Watched(a, n)].status
            IN  /\ status \in Terminal
                /\ \/ status \in Bad /\ Return(a, p, "error")
                   \/ status \notin Bad /\ Return(a, p, Verdict(status))
                   \/ status \notin Bad /\ Return(a, p, "error")  \* no summary
    /\ UNCHANGED projects

\* The time-out.  The project goes on without us.
Deadline(a) ==
    /\ solve[a].phase = "polling"
    /\ Return(a, solve[a].project, "error")
    /\ UNCHANGED projects

SolveStep(a) == Create(a) \/ Ask(a) \/ Poll(a) \/ Deadline(a)
=============================================================================
