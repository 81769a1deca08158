------------------------------- MODULE Engine -------------------------------
(***************************************************************************)
(* The /infer side of the orchestrator: InferenceEngine (engine.ts), the   *)
(* WorkerRegistry (registry.ts), AgentEngine (agent.ts), runAristotleJob   *)
(* and the worker socket handlers (server.ts), over the job transactions   *)
(* of packages/db, together with the worker processes and the Socket.IO    *)
(* connections that carry their registrations and reports.                 *)
(*                                                                         *)
(* The orchestrator is one Node process: every handler runs to completion  *)
(* before the next, so a handler is one action; the awaits of the agent    *)
(* loop and of the Aristotle call split those into several.  A worker      *)
(* reconnects on a fresh Socket.IO id, so connections and workers are      *)
(* different things here.                                                  *)
(***************************************************************************)
EXTENDS JobStore, Sequences

CONSTANTS
    Worker,         \* worker processes, named as they register
    Socket,         \* Socket.IO connections that can ever be opened (a bound)
    NoSocket, NoWorker,
    JobKind,        \* JobKind[j]: how j is submitted, see Kind
    JobModel,       \* JobModel[j]: the model j asks for
    PromptTokens,   \* PromptTokens[j]: estimateTokens over j's messages
    MaxTokens,      \* MaxTokens[j]: the caller's maxTokens, or DefaultMaxTokens
    Serves,         \* Serves[w]: the models w registers
    AgentCapable,   \* workers registering the "agent" capability
    Usage,          \* token totals a worker may report for a chat job
    MAX_ITERS,      \* agent turns per run (5 in the source)
    MaxRestarts     \* bound on orchestrator restarts

Kind == {"chat", "image", "agent", "aristotle", "arithmetic"}

\* servedBy of the jobs no contributed worker serves.
Harmonic == "aristotle:harmonic"
Local == "0c:local"
Provider == Worker \cup {Harmonic, Local}

ASSUME JobAssumption ==
    /\ JobKind \in [Job -> Kind]
    /\ PromptTokens \in [Job -> Nat]
    /\ MaxTokens \in [Job -> Nat]
    /\ Usage \subseteq Nat

ASSUME WorkerAssumption ==
    /\ IsFiniteSet(Worker)
    /\ NoSocket \notin Socket
    /\ NoWorker \notin Worker
    /\ MAX_ITERS \in Nat \ {0}
    /\ MaxRestarts \in Nat

VARIABLES
    outcome,    \* what each job's sink was last told
    \* InferenceEngine
    active,     \* the jobs in the map `active`
    assigned,   \* workerSocketId of an active job, or NoSocket
    queue,      \* the jobs in the array `queue` ...
    ahead,      \* ... and, for each, those before it
    timers,     \* jobs whose queueTimer is pending
    \* WorkerRegistry: absent, idle (busy = false) or busy, per connection
    registry,
    \* runs suspended at an await
    agent,      \* AgentEngine.run, per job
    solving,    \* jobs awaiting aristotle.solve
    \* connections and worker processes
    link,       \* fresh, open, half (the orchestrator has not noticed), gone
    owner,      \* the worker behind a connection
    up,         \* what travels from the worker to the orchestrator
    sendBuffer, \* what a disconnected worker will send on reconnecting
    running,    \* the jobs a worker process is working on
    restarts

engineVars == <<active, assigned, queue, ahead, timers>>
asyncVars  == <<agent, solving>>
netVars    == <<link, owner, up, sendBuffer>>
vars == <<storeVars, outcome, engineVars, registry, asyncVars, netVars, running, restarts>>

RegisterMsg == [type |-> "register"]
Message == {RegisterMsg} \cup [type : {"done", "error"}, job : Job]

AgentOff == [phase |-> "off", on |-> NoSocket, turns |-> 0]
AgentState == [phase : {"off", "turn", "tools"}, on : Socket \cup {NoSocket},
               turns : 0..(MAX_ITERS - 1)]

TypeOK ==
    /\ row \in [Job -> Row]
    /\ earned \in [Provider -> Int]
    /\ lifetimeRewards \in Int
    /\ outcome \in [Job -> {"pending", "rejected", "done", "refunded", "unserved"}]
    /\ active \subseteq Job
    /\ assigned \in [Job -> Socket \cup {NoSocket}]
    /\ queue \subseteq Job
    /\ ahead \in [Job -> SUBSET Job]
    /\ timers \subseteq Job
    /\ registry \in [Socket -> {"absent", "idle", "busy"}]
    /\ agent \in [Job -> AgentState]
    /\ solving \subseteq Job
    /\ link \in [Socket -> {"fresh", "open", "half", "gone"}]
    /\ owner \in [Socket -> Worker \cup {NoWorker}]
    /\ up \in [Socket -> Seq(Message)]
    /\ sendBuffer \in [Worker -> Seq(Message)]
    /\ running \in [Worker -> SUBSET Job]
    /\ restarts \in 0..MaxRestarts

Init ==
    /\ row = [j \in Job |-> NewRow]
    /\ earned = [p \in Provider |-> 0]
    /\ lifetimeRewards = 0
    /\ outcome = [j \in Job |-> "pending"]
    /\ active = {}
    /\ assigned = [j \in Job |-> NoSocket]
    /\ queue = {}
    /\ ahead = [j \in Job |-> {}]
    /\ timers = {}
    /\ registry = [s \in Socket |-> "absent"]
    /\ agent = [j \in Job |-> AgentOff]
    /\ solving = {}
    /\ link = [s \in Socket |-> "fresh"]
    /\ owner = [s \in Socket |-> NoWorker]
    /\ up = [s \in Socket |-> <<>>]
    /\ sendBuffer = [w \in Worker |-> <<>>]
    /\ running = [w \in Worker |-> {}]
    /\ restarts = 0

-----------------------------------------------------------------------------
(***************************************************************************)
(* Prices and routing.                                                     *)
(***************************************************************************)
\* What admitting the job sets aside.
ReserveFor(j) ==
    CASE JobKind[j] = "chat"       -> ReserveEstimate(JobModel[j], PromptTokens[j], MaxTokens[j])
      [] JobKind[j] = "image"      -> IMAGE_CREDITS
      [] JobKind[j] = "agent"      -> AGENT_CREDITS
      [] JobKind[j] = "aristotle"  -> ARISTOTLE_CREDITS
      [] JobKind[j] = "arithmetic" -> ARISTOTLE_TRIVIAL_CREDITS

\* What settling it costs, given the token total reported for it: every kind
\* but chat has a fixed charge.
ChargeFor(j, tokens) ==
    IF JobKind[j] = "chat" THEN SettleCost(JobModel[j], tokens) ELSE ReserveFor(j)

Unseen(j) == row[j].status = "none" /\ outcome[j] = "pending"

Reject(j) ==
    /\ outcome' = [outcome EXCEPT ![j] = "rejected"]
    /\ UNCHANGED <<storeVars, engineVars, registry, asyncVars, netVars, running, restarts>>

\* pickIdle: the connections whose worker is idle and has the model.  The choice
\* among them, by measured speed, is left open.
IdleFor(j, reg) == {s \in Socket : reg[s] = "idle" /\ JobModel[j] \in Serves[owner[s]]}

\* Mutant of Matchings: any other job may take the workers a job waits for.
MutMatchings(waiting, ahd, reg) ==
    {m \in [waiting -> Socket \cup {NoSocket}] :
        \A j \in waiting :
            /\ m[j] # NoSocket => /\ m[j] \in IdleFor(j, reg)
                                  /\ \A i \in waiting \ {j} : m[i] # m[j]
            /\ m[j] = NoSocket => \A s \in IdleFor(j, reg) : \E i \in waiting : m[i] = s}

\* The ways one pass over the queue can hand out idle workers: a worker takes
\* one job, and a job stays queued only if the jobs before it took every worker
\* that could have served it.
Matchings(waiting, ahd, reg) ==
    {m \in [waiting -> Socket \cup {NoSocket}] :
        \A j \in waiting :
            /\ m[j] # NoSocket => /\ m[j] \in IdleFor(j, reg)
                                  /\ \A i \in waiting \ {j} : m[i] # m[j]
            /\ m[j] = NoSocket =>
                  \A s \in IdleFor(j, reg) : \E i \in ahd[j] \cap waiting : m[i] = s}

\* Mutant of Schedule: the workers it picks are not marked busy.
MutSchedule(act, asg, q, ahd, reg, tms) ==
    LET waiting == {j \in q : j \in act /\ asg[j] = NoSocket}
    IN  \E m \in Matchings(waiting, ahd, reg) :
        LET started == {j \in waiting : m[j] # NoSocket}
            left    == waiting \ started
        IN  /\ assigned' = [j \in Job |-> IF j \in started THEN m[j] ELSE asg[j]]
            /\ registry' = reg
            /\ queue' = left
            /\ ahead' = [j \in Job |-> IF j \in left THEN ahd[j] \cap left ELSE {}]
            /\ timers' = tms \ started
            /\ running' = [w \in Worker |-> running[w] \cup
                  {j \in started : link[m[j]] = "open" /\ owner[m[j]] = w}]

\* schedule(), from the values its caller has computed.  A dispatch on an open
\* connection reaches the worker; on one whose other end is gone it is lost.  (A
\* dispatch lost in flight is one sent after the drop: nobody can tell.)
Schedule(act, asg, q, ahd, reg, tms) ==
    LET waiting == {j \in q : j \in act /\ asg[j] = NoSocket}
    IN  \E m \in Matchings(waiting, ahd, reg) :
        LET started == {j \in waiting : m[j] # NoSocket}
            left    == waiting \ started
        IN  /\ assigned' = [j \in Job |-> IF j \in started THEN m[j] ELSE asg[j]]
            /\ registry' = [s \in Socket |->
                  IF \E j \in started : m[j] = s THEN "busy" ELSE reg[s]]
            /\ queue' = left
            /\ ahead' = [j \in Job |-> IF j \in left THEN ahd[j] \cap left ELSE {}]
            /\ timers' = tms \ started
            /\ running' = [w \in Worker |-> running[w] \cup
                  {j \in started : link[m[j]] = "open" /\ owner[m[j]] = w}]

-----------------------------------------------------------------------------
(***************************************************************************)
(* InferenceEngine.                                                        *)
(***************************************************************************)
\* submit: a chat or image job, from a socket or from the REST endpoint.
Submit(j) ==
    /\ JobKind[j] \in {"chat", "image"}
    /\ Unseen(j)
    /\ \/ /\ ~CanReserve(j, ReserveFor(j))
          /\ Reject(j)
       \/ /\ CanReserve(j, ReserveFor(j))
          /\ row' = [row EXCEPT ![j] = Reserved(@, ReserveFor(j))]
          /\ active' = active \cup {j}
          /\ Schedule(active \cup {j}, assigned, queue \cup {j},
                      [ahead EXCEPT ![j] = queue], registry, timers \cup {j})
          /\ NoPayOut
          /\ UNCHANGED <<outcome, asyncVars, netVars, restarts>>

\* Mutant of FailQueued: the job is refunded but not forgotten.
MutFailQueued(j) ==
    /\ j \in timers
    /\ timers' = timers \ {j}
    /\ IF j \in active /\ assigned[j] = NoSocket
       THEN /\ row' = [row EXCEPT ![j] = Refunded(@)]
            /\ outcome' = [outcome EXCEPT ![j] = "unserved"]
            /\ UNCHANGED <<active, queue, ahead>>
       ELSE UNCHANGED <<row, outcome, queue, ahead, active>>
    /\ NoPayOut
    /\ UNCHANGED <<assigned, registry, asyncVars, netVars, running, restarts>>

\* failQueued: the 30 s queue timer of a job fires.
FailQueued(j) ==
    /\ j \in timers
    /\ timers' = timers \ {j}
    /\ IF j \in active /\ assigned[j] = NoSocket
       THEN /\ queue' = queue \ {j}
            /\ ahead' = [i \in Job |-> IF i = j THEN {} ELSE ahead[i] \ {j}]
            /\ row' = [row EXCEPT ![j] = Refunded(@)]
            /\ outcome' = [outcome EXCEPT ![j] = "unserved"]
            /\ active' = active \ {j}
       ELSE UNCHANGED <<row, outcome, queue, ahead, active>>
    /\ NoPayOut
    /\ UNCHANGED <<assigned, registry, asyncVars, netVars, running, restarts>>

Freed(s) == IF registry[s] = "absent" THEN registry ELSE [registry EXCEPT ![s] = "idle"]

\* onWorkerDone: a report for a job that is not active is dropped before
\* anything else happens; otherwise the sender is freed and the job settled,
\* whoever it was assigned to.
OnWorkerDone(s, j) ==
    /\ IF j \in active
       THEN /\ \E tokens \in Usage :
                  /\ row' = [row EXCEPT ![j] = Settled(@, ChargeFor(j, tokens))]
                  /\ PayOut(ChargeFor(j, tokens), owner[assigned[j]])
            /\ outcome' = [outcome EXCEPT ![j] = "done"]
            /\ active' = active \ {j}
            /\ Schedule(active \ {j}, [assigned EXCEPT ![j] = NoSocket],
                        queue, ahead, Freed(s), timers)
       ELSE UNCHANGED <<storeVars, outcome, engineVars, registry, running>>
    /\ UNCHANGED <<asyncVars, restarts>>

\* Mutant of OnWorkerError: a job that is no longer active is refunded too.
MutOnWorkerError(s, j) ==
    /\ row' = [row EXCEPT ![j] = Refunded(@)]
    /\ NoPayOut
    /\ outcome' = [outcome EXCEPT ![j] = "refunded"]
    /\ active' = active \ {j}
    /\ Schedule(active \ {j}, [assigned EXCEPT ![j] = NoSocket],
                queue, ahead, Freed(s), timers)
    /\ UNCHANGED <<asyncVars, restarts>>

\* onWorkerError: the sender is freed even when the job is not active.
OnWorkerError(s, j) ==
    /\ IF j \in active
       THEN /\ row' = [row EXCEPT ![j] = Refunded(@)]
            /\ outcome' = [outcome EXCEPT ![j] = "refunded"]
       ELSE UNCHANGED <<row, outcome>>
    /\ NoPayOut
    /\ active' = active \ {j}
    /\ Schedule(active \ {j}, [assigned EXCEPT ![j] = NoSocket],
                queue, ahead, Freed(s), timers)
    /\ UNCHANGED <<asyncVars, restarts>>

\* Mutant of OnWorkerGone: the registry forgets the connection, its jobs stay.
MutOnWorkerGone(s) ==
    /\ Schedule(active, assigned, queue, ahead, [registry EXCEPT ![s] = "absent"], timers)
    /\ UNCHANGED <<storeVars, outcome, active, asyncVars, restarts>>

\* onWorkerGone, with workers.remove: every job assigned to the connection is
\* refunded, then the queue is looked at again.
OnWorkerGone(s) ==
    LET lost == {j \in active : assigned[j] = s}
    IN  /\ row' = [j \in Job |-> IF j \in lost THEN Refunded(row[j]) ELSE row[j]]
        /\ outcome' = [j \in Job |-> IF j \in lost THEN "refunded" ELSE outcome[j]]
        /\ active' = active \ lost
        /\ Schedule(active \ lost,
                    [j \in Job |-> IF j \in lost THEN NoSocket ELSE assigned[j]],
                    queue, ahead, [registry EXCEPT ![s] = "absent"], timers)
        /\ NoPayOut
        /\ UNCHANGED <<asyncVars, restarts>>

-----------------------------------------------------------------------------
(***************************************************************************)
(* AgentEngine.run.  The run holds its worker busy across all its awaits;  *)
(* it frees the worker without calling schedule().                         *)
(***************************************************************************)
AgentRun(j) == agent[j].phase # "off"

StartAgent(j) ==
    /\ JobKind[j] = "agent"
    /\ Unseen(j)
    /\ LET able == {s \in IdleFor(j, registry) : owner[s] \in AgentCapable}
       IN  \/ /\ ~CanReserve(j, ReserveFor(j))
              /\ Reject(j)
           \/ /\ CanReserve(j, ReserveFor(j))
              /\ able = {}
              /\ row' = [row EXCEPT ![j] = Refunded(Reserved(@, ReserveFor(j)))]
              /\ outcome' = [outcome EXCEPT ![j] = "unserved"]
              /\ NoPayOut
              /\ UNCHANGED <<engineVars, registry, asyncVars, netVars, running, restarts>>
           \/ /\ CanReserve(j, ReserveFor(j))
              /\ row' = [row EXCEPT ![j] = Reserved(@, ReserveFor(j))]
              /\ NoPayOut
              /\ \E s \in able :
                    /\ registry' = [registry EXCEPT ![s] = "busy"]
                    /\ agent' = [agent EXCEPT ![j] = [phase |-> "turn", on |-> s, turns |-> 0]]
              /\ UNCHANGED <<outcome, engineVars, solving, netVars, running, restarts>>

\* Mutant of FinishAgent: the worker is not freed.
MutFinishAgent(j) ==
    /\ agent' = [agent EXCEPT ![j] = AgentOff]
    /\ row' = [row EXCEPT ![j] = Settled(@, ReserveFor(j))]
    /\ PayOut(ReserveFor(j), owner[agent[j].on])
    /\ outcome' = [outcome EXCEPT ![j] = "done"]
    /\ UNCHANGED <<engineVars, registry, solving, netVars, running, restarts>>

\* Final answer, or step limit: the worker is freed, the run settled.
FinishAgent(j) ==
    /\ registry' = Freed(agent[j].on)
    /\ agent' = [agent EXCEPT ![j] = AgentOff]
    /\ row' = [row EXCEPT ![j] = Settled(@, ReserveFor(j))]
    /\ PayOut(ReserveFor(j), owner[agent[j].on])
    /\ outcome' = [outcome EXCEPT ![j] = "done"]
    /\ UNCHANGED <<engineVars, solving, netVars, running, restarts>>

\* Mutant of AbortAgent: the catch block does not refund.
MutAbortAgent(j) ==
    /\ registry' = Freed(agent[j].on)
    /\ agent' = [agent EXCEPT ![j] = AgentOff]
    /\ outcome' = [outcome EXCEPT ![j] = "refunded"]
    /\ UNCHANGED <<storeVars, engineVars, solving, netVars, running, restarts>>

\* The catch block: the worker is freed, the run refunded.
AbortAgent(j) ==
    /\ registry' = Freed(agent[j].on)
    /\ agent' = [agent EXCEPT ![j] = AgentOff]
    /\ row' = [row EXCEPT ![j] = Refunded(@)]
    /\ NoPayOut
    /\ outcome' = [outcome EXCEPT ![j] = "refunded"]
    /\ UNCHANGED <<engineVars, solving, netVars, running, restarts>>

\* The worker acknowledges a turn: with an error, an answer or tool calls.
AgentReply(j) ==
    /\ agent[j].phase = "turn"
    /\ link[agent[j].on] = "open"
    /\ \/ AbortAgent(j)
       \/ FinishAgent(j)
       \/ /\ agent' = [agent EXCEPT ![j].phase = "tools"]
          /\ UNCHANGED <<storeVars, outcome, engineVars, registry, solving, netVars,
                         running, restarts>>

\* No acknowledgement within 60 s; a later one is ignored.
AgentTimeout(j) ==
    /\ agent[j].phase = "turn"
    /\ AbortAgent(j)

\* Mutant of AgentTools: one turn too many.
MutAgentTools(j) ==
    /\ agent[j].phase = "tools"
    /\ \/ AbortAgent(j)
       \/ agent[j].turns = MAX_ITERS /\ FinishAgent(j)
       \/ /\ agent[j].turns < MAX_ITERS
          /\ agent' = [agent EXCEPT ![j] = [phase |-> "turn", on |-> @.on, turns |-> @.turns + 1]]
          /\ UNCHANGED <<storeVars, outcome, engineVars, registry, solving, netVars,
                         running, restarts>>

\* The tools of a turn have run on the orchestrator: next turn, or step limit.
\* Null arguments throw on the way.
AgentTools(j) ==
    /\ agent[j].phase = "tools"
    /\ \/ AbortAgent(j)
       \/ /\ agent[j].turns + 1 = MAX_ITERS
          /\ FinishAgent(j)
       \/ /\ agent[j].turns + 1 < MAX_ITERS
          /\ agent' = [agent EXCEPT ![j] = [phase |-> "turn", on |-> @.on, turns |-> @.turns + 1]]
          /\ UNCHANGED <<storeVars, outcome, engineVars, registry, solving, netVars,
                         running, restarts>>

-----------------------------------------------------------------------------
(***************************************************************************)
(* runAristotleJob.                                                        *)
(***************************************************************************)
\* Plain arithmetic is reserved, answered and settled in one go.
AnswerArithmetic(j) ==
    /\ JobKind[j] = "arithmetic"
    /\ Unseen(j)
    /\ \/ /\ ~CanReserve(j, ReserveFor(j))
          /\ Reject(j)
       \/ /\ CanReserve(j, ReserveFor(j))
          /\ row' = [row EXCEPT ![j] = Settled(Reserved(@, ReserveFor(j)), ReserveFor(j))]
          /\ PayOut(ReserveFor(j), Local)
          /\ outcome' = [outcome EXCEPT ![j] = "done"]
          /\ UNCHANGED <<engineVars, registry, asyncVars, netVars, running, restarts>>

StartAristotle(j) ==
    /\ JobKind[j] = "aristotle"
    /\ Unseen(j)
    /\ \/ /\ ~CanReserve(j, ReserveFor(j))
          /\ Reject(j)
       \/ /\ CanReserve(j, ReserveFor(j))
          /\ row' = [row EXCEPT ![j] = Reserved(@, ReserveFor(j))]
          /\ solving' = solving \cup {j}
          /\ NoPayOut
          /\ UNCHANGED <<outcome, engineVars, registry, agent, netVars, running, restarts>>

\* aristotle.solve never throws: it resolves to an answer or to an error.
AristotleReturns(j) ==
    /\ j \in solving
    /\ solving' = solving \ {j}
    /\ \/ /\ row' = [row EXCEPT ![j] = Settled(@, ReserveFor(j))]
          /\ PayOut(ReserveFor(j), Harmonic)
          /\ outcome' = [outcome EXCEPT ![j] = "done"]
       \/ /\ row' = [row EXCEPT ![j] = Refunded(@)]
          /\ NoPayOut
          /\ outcome' = [outcome EXCEPT ![j] = "refunded"]
    /\ UNCHANGED <<engineVars, registry, agent, netVars, running, restarts>>

-----------------------------------------------------------------------------
(***************************************************************************)
(* Worker processes and their connections.                                 *)
(***************************************************************************)
Connected(w, s) == link[s] = "open" /\ owner[s] = w

\* The client's socket connects: what it buffered while disconnected goes out
\* first, then the "connect" handler registers the worker.
Connect(w, s) ==
    /\ link[s] = "fresh"
    /\ ~\E t \in Socket : Connected(w, t)
    /\ link' = [link EXCEPT ![s] = "open"]
    /\ owner' = [owner EXCEPT ![s] = w]
    /\ up' = [up EXCEPT ![s] = Append(sendBuffer[w], RegisterMsg)]
    /\ sendBuffer' = [sendBuffer EXCEPT ![w] = <<>>]
    /\ UNCHANGED <<storeVars, outcome, engineVars, registry, asyncVars, running, restarts>>

\* The worker's process ends a job and reports it: on its connection if it has
\* one, else into the send buffer.
Report(w, j, type) ==
    /\ j \in running[w]
    /\ running' = [running EXCEPT ![w] = @ \ {j}]
    /\ \/ \E s \in Socket :
             /\ Connected(w, s)
             /\ up' = [up EXCEPT ![s] = Append(@, [type |-> type, job |-> j])]
             /\ UNCHANGED sendBuffer
       \/ /\ ~\E s \in Socket : Connected(w, s)
          /\ sendBuffer' = [sendBuffer EXCEPT ![w] = Append(@, [type |-> type, job |-> j])]
          /\ UNCHANGED up
    /\ UNCHANGED <<storeVars, outcome, engineVars, registry, asyncVars, link, owner, restarts>>

\* The connection breaks: what was in flight is lost, the process works on.
LinkDrop(s) ==
    /\ link[s] = "open"
    /\ link' = [link EXCEPT ![s] = "half"]
    /\ up' = [up EXCEPT ![s] = <<>>]
    /\ UNCHANGED <<storeVars, outcome, engineVars, registry, asyncVars, owner, sendBuffer,
                   running, restarts>>

\* The worker's process dies, and its connection and jobs with it.
WorkerCrash(w) ==
    /\ running[w] # {} \/ sendBuffer[w] # <<>>
    /\ running' = [running EXCEPT ![w] = {}]
    /\ sendBuffer' = [sendBuffer EXCEPT ![w] = <<>>]
    /\ link' = [s \in Socket |-> IF Connected(w, s) THEN "half" ELSE link[s]]
    /\ up' = [s \in Socket |-> IF Connected(w, s) THEN <<>> ELSE up[s]]
    /\ UNCHANGED <<storeVars, outcome, engineVars, registry, asyncVars, owner, restarts>>

\* workerRegister: a fresh registry entry; schedule() is not called.
Register(s) ==
    /\ registry' = [registry EXCEPT ![s] = "idle"]
    /\ UNCHANGED <<storeVars, outcome, engineVars, asyncVars, running, restarts>>

\* The orchestrator handles the next message of a worker.
Receive(s) ==
    /\ link[s] = "open"
    /\ up[s] # <<>>
    /\ up' = [up EXCEPT ![s] = Tail(@)]
    /\ LET msg == Head(up[s])
       IN  \/ msg.type = "register" /\ Register(s)
           \/ msg.type = "done"     /\ OnWorkerDone(s, msg.job)
           \/ msg.type = "error"    /\ OnWorkerError(s, msg.job)
    /\ UNCHANGED <<link, owner, sendBuffer>>

\* The "disconnect" event of a worker's socket.
Disconnect(s) ==
    /\ link[s] = "half"
    /\ link' = [link EXCEPT ![s] = "gone"]
    /\ OnWorkerGone(s)
    /\ UNCHANGED <<owner, up, sendBuffer>>

\* The orchestrator's process dies and starts again: the database and the
\* workers' processes survive, its memory, timers and connections do not.
Restart ==
    /\ restarts < MaxRestarts
    /\ restarts' = restarts + 1
    /\ active' = {}
    /\ assigned' = [j \in Job |-> NoSocket]
    /\ queue' = {}
    /\ ahead' = [j \in Job |-> {}]
    /\ timers' = {}
    /\ registry' = [s \in Socket |-> "absent"]
    /\ agent' = [j \in Job |-> AgentOff]
    /\ solving' = {}
    /\ link' = [s \in Socket |-> IF link[s] = "fresh" THEN "fresh" ELSE "gone"]
    /\ up' = [s \in Socket |-> <<>>]
    /\ UNCHANGED <<storeVars, outcome, owner, sendBuffer, running>>

-----------------------------------------------------------------------------
JobStep(j) ==
    \/ Submit(j)
    \/ FailQueued(j)
    \/ StartAgent(j)
    \/ AgentReply(j)
    \/ AgentTimeout(j)
    \/ AgentTools(j)
    \/ AnswerArithmetic(j)
    \/ StartAristotle(j)
    \/ AristotleReturns(j)

WorkerStep(w) ==
    \/ \E s \in Socket : Connect(w, s)
    \/ \E j \in Job, type \in {"done", "error"} : Report(w, j, type)
    \/ WorkerCrash(w)

SocketStep(s) == LinkDrop(s) \/ Receive(s) \/ Disconnect(s)

Next ==
    \/ \E j \in Job : JobStep(j)
    \/ \E w \in Worker : WorkerStep(w)
    \/ \E s \in Socket : SocketStep(s)
    \/ Restart

Spec == Init /\ [][Next]_vars

\* Timers fire, the event loop gets to every message and every broken
\* connection, an agent's turn and its tools end, aristotle.solve has a
\* deadline, and a worker process ends what it runs.  Nobody is obliged to
\* submit, connect, disconnect or crash.
Fairness ==
    /\ \A j \in Job :
          /\ WF_vars(FailQueued(j))
          /\ WF_vars(AgentReply(j) \/ AgentTimeout(j))
          /\ WF_vars(AgentTools(j))
          /\ WF_vars(AristotleReturns(j))
    /\ \A s \in Socket : WF_vars(Receive(s)) /\ WF_vars(Disconnect(s))
    /\ \A w \in Worker, j \in Job : WF_vars(\E type \in {"done", "error"} : Report(w, j, type))

FairSpec == Spec /\ Fairness
-----------------------------------------------------------------------------
(***************************************************************************)
(* Properties.                                                             *)
(***************************************************************************)
\* The numbers of credits this system can set aside or charge.
Amounts == {ReserveFor(j) : j \in Job} \cup {ChargeFor(j, t) : j \in Job, t \in Usage}

Ledger == INSTANCE JobLedger WITH Amount <- Amounts

\* However jobs are routed and whatever fails, what happens to a job's money
\* and what its caller is told is what JobLedger promises: one outcome, settled
\* or refunded exactly once (engine.ts, agent.ts, runAristotleJob).
LedgerPromise == Ledger!Spec

\* A job waits in the queue, with its timeout armed, exactly while it is active
\* and not assigned: none is forgotten outside the queue, and none is failed by
\* a timer that outlived its dispatch (submit, schedule, failQueued).
QueueExact ==
    /\ queue = {j \in active : assigned[j] = NoSocket}
    /\ timers = queue

\* A job is never left with a connection the registry no longer knows: whoever
\* removes the entry refunds its jobs (the "disconnect" handler, onWorkerGone).
AssignedToRegistered ==
    \A j \in active : assigned[j] # NoSocket => registry[assigned[j]] # "absent"

\* A connected worker is not kept busy by nothing: each path that drops a job
\* or an agent run also frees its worker, or the worker has moved on to another
\* connection (onWorkerDone, onWorkerError, AgentEngine.run).
NoBusyLeak ==
    \A s \in Socket : registry[s] = "busy" /\ link[s] = "open" =>
        \/ \E j \in active : assigned[j] = s
        \/ \E j \in Job : AgentRun(j) /\ agent[j].on = s

\* Jobs for the same model are dispatched in the order they were submitted
\* (schedule scans the queue from the front on every event).
NoOvertaking ==
    [][\A i, j \in Job :
          /\ i \in ahead[j]
          /\ JobModel[i] = JobModel[j]
          /\ assigned[j] = NoSocket
          /\ assigned'[j] # NoSocket
          => assigned'[i] # NoSocket]_vars

\* Serving jobs mints no credits: what providers and stakers are paid comes out
\* of what callers paid for finished jobs, whatever is still reserved (settle).
Solvency ==
    Total(earned) + lifetimeRewards <= -Total([j \in Job |-> row[j].net])

\* No account is overdrawn ("a user can never overspend mid-stream").
NoOverdraft == \A j \in Job : Balance(JobUser[j]) >= 0

\* Every open reservation has someone in the orchestrator who will settle or
\* refund it: the engine, an agent run or an Aristotle call.
ReservationHasOwner ==
    \A j \in Job : row[j].status = "reserved" =>
        j \in active \/ AgentRun(j) \/ j \in solving

\* The work a connection's worker has been given and not yet returned.
Load(s) == {j \in active : assigned[j] = s} \cup {j \in Job : agent[j].on = s}

\* A worker is given a job, or an agent run, only while it is idle: it never has
\* two at once ("dispatches each job to the fastest idle capable worker").
OneJobPerWorker == \A s \in Socket : Cardinality(Load(s)) <= 1

\* The same for the workers that have not reconnected: only a report that
\* outlives its connection can free a worker that is busy (onWorkerError).
OneJobUntilReconnect ==
    \A s \in Socket :
        (\A t \in Socket \ {s} : owner[t] # owner[s]) => Cardinality(Load(s)) <= 1

\* Every admitted job gets an outcome, whatever workers and connections do.
EventuallyAnswered ==
    \A j \in Job : (row[j].status = "reserved") ~> (outcome[j] # "pending")
=============================================================================
