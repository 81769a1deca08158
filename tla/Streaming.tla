------------------------------ MODULE Streaming ------------------------------
(***************************************************************************)
(* An answer on its way: the worker that generates it (worker-native, or a  *)
(* browser tab of the contribute page), the engine that passes it on, the   *)
(* sink of the caller's kind (the chat and create pages over a socket, an   *)
(* HTTP client that streams or that waits for the whole), and the caller.   *)
(* The tokens of an answer are numbered; the image of the create page is    *)
(* its only token.  Workers all have the one model that is asked.  Engine   *)
(* has the money and the agents.                                           *)
(***************************************************************************)
EXTENDS Naturals, SequencesExt

CONSTANTS
    Prompt,     \* requests that may be made
    Way,        \* Way[p]: which kind of caller makes p
    Size,       \* Size[p]: how many tokens its answer has
    Socket,     \* sockets the tab may create; the native worker creates one
    NoSocket,
    Conn        \* bound on the connections they make

ASSUME StreamingAssumption ==
    /\ Way \in [Prompt -> {"chat", "create", "sse", "json"}]
    /\ Size \in [Prompt -> Nat]
    /\ NoSocket \notin Socket
    /\ IsFiniteSet(Conn)
    /\ "none" \notin Conn

VARIABLES
    job,        \* engine.active, and how each job was ended
    line,       \* engine.queue
    reg,        \* the registry: which connections are registered, and busy
    link,       \* each connection's state and the socket it is of
    up,         \* what is under way on it to the orchestrator
    buffer,     \* socket.io's sendBuffer of each socket
    tab,        \* the contribute page: phase, models loading, sockets, socketRef
    made,       \* made[p]: where p is generated, and how far
    gathered,   \* what the sink of a waiting HTTP client has gathered
    wire,       \* what is under way to the caller
    shown, said, cut,   \* what the caller got; the outcome; connection lost
    torn        \* history: the requests a packet of which was lost

workerVars == <<link, up, buffer, tab, made, torn>>
engineVars == <<job, line, reg>>
callerVars == <<gathered, wire, shown, said, cut>>
streamVars == <<workerVars, engineVars, callerVars>>

NotMade == [sock |-> NoSocket, n |-> 0]
NoJob == [state |-> "none", conn |-> "none"]

StreamInit ==
    /\ job = [p \in Prompt |-> NoJob]
    /\ line = <<>>
    /\ reg = [c \in Conn |-> "none"]
    /\ link = [c \in Conn |-> [state |-> "unused", sock |-> NoSocket]]
    /\ up = [c \in Conn |-> <<>>]
    /\ buffer = [s \in Socket |-> <<>>]
    /\ tab = [phase |-> "idle", loads |-> 0, created |-> {}, closed |-> {}, ref |-> NoSocket]
    /\ made = [p \in Prompt |-> NotMade]
    /\ gathered = [p \in Prompt |-> <<>>]
    /\ wire = [p \in Prompt |-> <<>>]
    /\ shown = [p \in Prompt |-> <<>>]
    /\ said = [p \in Prompt |-> "none"]
    /\ cut = {}
    /\ torn = {}

Active(p) == job[p].state \in {"queued", "assigned"}
OpenLink(s) == {c \in Conn : link[c] = [state |-> "open", sock |-> s]}

(***************************************************************************)
(* The sinks.  To a connection that is lost they write in vain.             *)
(***************************************************************************)
\* What the caller is sent when p has a token or ends.
ToCaller(p, event) ==
    IF p \in cut \/ (Way[p] = "json" /\ event.type = "token") THEN wire[p]
    ELSE IF Way[p] = "json" /\ event.type = "done"
    THEN Append(wire[p], [type |-> "done", content |-> gathered[p]])
    ELSE Append(wire[p], event)

TellAll(ended, event) ==
    wire' = [p \in Prompt |-> IF p \in ended THEN ToCaller(p, event) ELSE wire[p]]

(***************************************************************************)
(* The engine.                                                             *)
(***************************************************************************)
\* schedule, over a queue, with jobs and connections as they are by then; a
\* job that is given to a connection nobody reads is never begun.
Schedule(queue, jobs, conns) ==
    LET idle == {c \in Conn : conns[c] = "idle"}
        n == IF Len(queue) < Cardinality(idle) THEN Len(queue) ELSE Cardinality(idle)
    IN  \E taken \in Injection(1 .. n, idle) :
          /\ line' = SubSeq(queue, n + 1, Len(queue))
          /\ reg' = [c \in Conn |-> IF c \in Range(taken) THEN "busy" ELSE conns[c]]
          /\ job' = [p \in Prompt |->
               IF \E i \in 1 .. n : queue[i] = p
               THEN [state |-> "assigned", conn |-> taken[CHOOSE i \in 1 .. n : queue[i] = p]]
               ELSE jobs[p]]
          /\ made' = [p \in Prompt |->
               IF \E i \in 1 .. n : queue[i] = p /\ link[taken[i]].state = "open"
               THEN [sock |-> link[taken[CHOOSE i \in 1 .. n : queue[i] = p]].sock, n |-> 0]
               ELSE made[p]]

\* submit: refused for want of credits, or queued.
Submit(p) ==
    /\ said[p] = "none"
    /\ said' = [said EXCEPT ![p] = "waiting"]
    /\ \/ /\ wire' = [wire EXCEPT ![p] = <<[type |-> "error"]>>]
          /\ UNCHANGED <<engineVars, made>>
       \/ /\ Schedule(Append(line, p), [job EXCEPT ![p].state = "queued"], reg)
          /\ UNCHANGED wire
    /\ UNCHANGED <<link, up, buffer, tab, torn, gathered, shown, cut>>

\* failQueued: the timer of a job no worker took.
FailQueued(p) ==
    /\ job[p].state = "queued"
    /\ job' = [job EXCEPT ![p] = [state |-> "over", conn |-> "none"]]
    /\ \E i \in DOMAIN line : line[i] = p /\ line' = RemoveAt(line, i)
    /\ TellAll({p}, [type |-> "error"])
    /\ UNCHANGED <<reg, workerVars, gathered, shown, said, cut>>

\* onWorkerToken, onWorkerMedia: from whichever worker.
OnWorkerToken(p, n) ==
    /\ IF Active(p)
       THEN /\ TellAll({p}, [type |-> "token", n |-> n])
            /\ gathered' = IF Way[p] = "json" THEN [gathered EXCEPT ![p] = Append(@, n)]
                           ELSE gathered
       ELSE UNCHANGED <<wire, gathered>>
    /\ UNCHANGED <<engineVars, made>>

Freed(c) == IF reg[c] = "none" THEN reg ELSE [reg EXCEPT ![c] = "idle"]

Over(ended) ==
    [p \in Prompt |-> IF p \in ended THEN [state |-> "over", conn |-> "none"] ELSE job[p]]

\* onWorkerDone
OnWorkerDone(c, p) ==
    /\ IF Active(p)
       THEN TellAll({p}, [type |-> "done"]) /\ Schedule(line, Over({p}), Freed(c))
       ELSE UNCHANGED <<wire, engineVars, made>>
    /\ UNCHANGED gathered

\* onWorkerError: frees the worker and schedules in any case.
OnWorkerError(c, p) ==
    /\ LET ended == IF Active(p) THEN {p} ELSE {} IN
         TellAll(ended, [type |-> "error"]) /\ Schedule(line, Over(ended), Freed(c))
    /\ UNCHANGED gathered

ServedOn(c) == {p \in Prompt : Active(p) /\ job[p].conn = c}

\* Mutant of OnWorkerGone: the jobs are queued again for another worker.
MutOnWorkerGone(c) ==
    LET lost == ServedOn(c) IN
      /\ \E again \in {q \in [1 .. Cardinality(lost) -> lost] : Range(q) = lost} :
           Schedule(line \o again,
                    [p \in Prompt |-> IF p \in lost THEN [state |-> "queued", conn |-> "none"]
                                      ELSE job[p]],
                    [reg EXCEPT ![c] = "none"])
      /\ UNCHANGED wire

\* onWorkerGone, after workers.remove: every job it was serving is refunded.
OnWorkerGone(c) ==
    /\ TellAll(ServedOn(c), [type |-> "error"])
    /\ Schedule(line, Over(ServedOn(c)), [reg EXCEPT ![c] = "none"])

(***************************************************************************)
(* The worker.                                                             *)
(***************************************************************************)
\* socket.emit: on the connection if there is one, else into the buffer; a
\* closed socket keeps what nobody will send.
Transmit(s, packet) ==
    /\ up' = [c \in Conn |-> IF c \in OpenLink(s) THEN Append(up[c], packet) ELSE up[c]]
    /\ buffer' = IF OpenLink(s) = {} /\ s \notin tab.closed
                 THEN [buffer EXCEPT ![s] = Append(@, packet)] ELSE buffer

\* job.dispatch: the next token, or the image.
Generate(p) ==
    /\ made[p].sock # NoSocket /\ made[p].n < Size[p]
    /\ made' = [made EXCEPT ![p].n = @ + 1]
    /\ Transmit(made[p].sock, [type |-> "token", p |-> p, n |-> made[p].n + 1])
    /\ UNCHANGED <<link, tab, torn, engineVars, callerVars>>

\* The end of the handler, or of its try block.
EndJob(p) ==
    /\ made[p].sock # NoSocket
    /\ made' = [made EXCEPT ![p] = NotMade]
    /\ \/ made[p].n = Size[p] /\ Transmit(made[p].sock, [type |-> "done", p |-> p])
       \/ made[p].n < Size[p] /\ Transmit(made[p].sock, [type |-> "error", p |-> p])
    /\ UNCHANGED <<link, tab, torn, engineVars, callerVars>>

\* start() begins to load the model.  The button is back after a disconnection, too,
\* while the socket there was reconnects.
Start ==
    /\ tab.phase \in {"idle", "error"}
    /\ tab' = [tab EXCEPT !.phase = "loading", !.loads = @ + 1]
    /\ UNCHANGED <<link, up, buffer, made, torn, engineVars, callerVars>>

\* A load ends: a socket of its own.  What happened to the page meanwhile stands.
ModelLoads(s) ==
    /\ tab.loads > 0
    /\ s \notin tab.created
    /\ tab' = [tab EXCEPT !.loads = @ - 1, !.created = @ \cup {s}, !.ref = s]
    /\ UNCHANGED <<link, up, buffer, made, torn, engineVars, callerVars>>

LoadFails ==
    /\ tab.loads > 0
    /\ tab' = [tab EXCEPT !.loads = @ - 1, !.phase = "error"]
    /\ UNCHANGED <<link, up, buffer, made, torn, engineVars, callerVars>>

\* A socket connects: what it buffered first, then worker.register.
ConnectWorker(s, c) ==
    /\ s \in tab.created \ tab.closed
    /\ OpenLink(s) = {}
    /\ link[c].state = "unused"
    /\ link' = [link EXCEPT ![c] = [state |-> "open", sock |-> s]]
    /\ up' = [up EXCEPT ![c] = Append(buffer[s], [type |-> "register"])]
    /\ buffer' = [buffer EXCEPT ![s] = <<>>]
    /\ tab' = [tab EXCEPT !.phase = "online"]
    /\ UNCHANGED <<made, torn, engineVars, callerVars>>

\* The socket finds its connection dead, with what was under way on it.
DropWorker(c) ==
    /\ link[c].state = "open"
    /\ link' = [link EXCEPT ![c].state = "half"]
    /\ up' = [up EXCEPT ![c] = <<>>]
    /\ torn' = torn \cup {up[c][i].p : i \in {k \in DOMAIN up[c] : up[c][k].type = "token"}}
    /\ tab' = [tab EXCEPT !.phase = "idle"]
    /\ UNCHANGED <<buffer, made, engineVars, callerVars>>

\* stop(): closes the socket socketRef has, if any.
Stop ==
    /\ tab.phase = "online"
    /\ tab' = [tab EXCEPT !.phase = "idle", !.closed = @ \cup ({tab.ref} \ {NoSocket}),
                          !.ref = NoSocket]
    /\ link' = [c \in Conn |-> IF c \in OpenLink(tab.ref)
                               THEN [link[c] EXCEPT !.state = "closing"] ELSE link[c]]
    /\ UNCHANGED <<up, buffer, made, torn, engineVars, callerVars>>

\* The orchestrator gets a worker's next packet.
ReceiveFrom(c) ==
    /\ link[c].state \in {"open", "closing"}
    /\ up[c] # <<>>
    /\ up' = [up EXCEPT ![c] = Tail(@)]
    /\ LET packet == Head(up[c]) IN
         \/ /\ packet.type = "register"
            /\ reg' = [reg EXCEPT ![c] = "idle"]
            /\ UNCHANGED <<job, line, made, wire, gathered>>
         \/ packet.type = "token" /\ OnWorkerToken(packet.p, packet.n)
         \/ packet.type = "done" /\ OnWorkerDone(c, packet.p)
         \/ packet.type = "error" /\ OnWorkerError(c, packet.p)
    /\ UNCHANGED <<link, buffer, tab, torn, shown, said, cut>>

\* The "disconnect" event of a worker's connection.
WorkerGone(c) ==
    /\ \/ link[c].state = "half"
       \/ link[c].state = "closing" /\ up[c] = <<>>
    /\ link' = [link EXCEPT ![c].state = "gone"]
    /\ OnWorkerGone(c)
    /\ UNCHANGED <<up, buffer, tab, torn, gathered, shown, said, cut>>

(***************************************************************************)
(* The caller.                                                             *)
(***************************************************************************)
\* The page's handlers, or the HTTP client's reading.
Show(p) ==
    /\ wire[p] # <<>>
    /\ wire' = [wire EXCEPT ![p] = Tail(@)]
    /\ LET event == Head(wire[p]) IN
         /\ shown' = [shown EXCEPT ![p] =
              IF event.type = "token" THEN Append(@, event.n)
              ELSE IF "content" \in DOMAIN event THEN event.content ELSE @]
         /\ said' = [said EXCEPT ![p] = IF event.type = "token" THEN @ ELSE event.type]
    /\ UNCHANGED <<workerVars, engineVars, gathered, cut>>

\* The caller's connection is lost; a page's next one is another.
CutCaller(p) ==
    /\ said[p] = "waiting" /\ p \notin cut
    /\ cut' = cut \cup {p}
    /\ wire' = [wire EXCEPT ![p] = <<>>]
    /\ UNCHANGED <<workerVars, engineVars, gathered, shown, said>>
=============================================================================
