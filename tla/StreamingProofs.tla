--------------------------- MODULE StreamingProofs ---------------------------
(***************************************************************************)
(* Proofs about the answers of Assistant, for every set of prompts, sockets *)
(* and connections: what a caller is shown is the answer, in order, once    *)
(* and, if it ended well, whole.                                           *)
(***************************************************************************)
EXTENDS Assistant, SequenceTheorems, FiniteSetTheorems, TLAPS

-----------------------------------------------------------------------------
(***************************************************************************)
(* Sequences.                                                              *)
(***************************************************************************)
\* Where a sequence's elements are once one of them is taken out.
LEMMA RemoveAtParts ==
    ASSUME NEW S, NEW s \in Seq(S), NEW i \in 1 .. Len(s)
    PROVE  /\ RemoveAt(s, i) \in Seq(S)
           /\ Len(s) \in Nat \ {0} /\ Len(RemoveAt(s, i)) = Len(s) - 1
           /\ \A j \in 1 .. Len(s) - 1 :
                RemoveAt(s, i)[j] = s[IF j < i THEN j ELSE j + 1]
<1> DEFINE n == Len(s)
           a == SubSeq(s, 1, i - 1)
           b == SubSeq(s, i + 1, n)
<1>1. n \in Nat \ {0} /\ i \in Nat \ {0} /\ i <= n /\ \A j \in 1 .. n : s[j] \in S
  BY LenProperties, ElementOfSeq
<1>2. /\ a \in Seq(S) /\ Len(a) = i - 1 /\ \A j \in 1 .. i - 1 : a[j] = s[j]
  <2>1. \A j \in 1 .. i - 1 : s[j] \in S
    BY <1>1
  <2> QED
    BY <1>1, <2>1, SubSeqProperties
<1>3. /\ b \in Seq(S) /\ Len(b) = n - i /\ \A j \in 1 .. n - i : b[j] = s[i + j]
  <2>1. \A j \in i + 1 .. n : s[j] \in S
    BY <1>1
  <2> QED
    BY <1>1, <2>1, SubSeqProperties
<1>4. RemoveAt(s, i) = a \o b
  BY DEF RemoveAt
<1> HIDE DEF n, a, b
<1>5. /\ a \o b \in Seq(S) /\ Len(a \o b) = n - 1
      /\ \A j \in 1 .. n - 1 : (a \o b)[j] = IF j <= i - 1 THEN a[j] ELSE b[j - (i - 1)]
  <2>1. /\ a \o b \in Seq(S) /\ Len(a \o b) = Len(a) + Len(b)
        /\ \A j \in 1 .. Len(a) + Len(b) :
             (a \o b)[j] = IF j <= Len(a) THEN a[j] ELSE b[j - Len(a)]
    BY <1>2, <1>3, ConcatProperties
  <2>2. Len(a) + Len(b) = n - 1 /\ Len(a) = i - 1
    BY <1>1, <1>2, <1>3
  <2> QED
    BY <2>1, <2>2
<1>6. ASSUME NEW j \in 1 .. n - 1
      PROVE  (a \o b)[j] = s[IF j < i THEN j ELSE j + 1]
  <2>1. CASE j < i
    <3>1. j <= i - 1 /\ j \in 1 .. i - 1
      BY <1>1, <2>1
    <3> QED
      BY <1>2, <1>5, <2>1, <3>1
  <2>2. CASE ~ (j < i)
    <3>1. ~ (j <= i - 1) /\ j - (i - 1) \in 1 .. n - i /\ i + (j - (i - 1)) = j + 1
      BY <1>1, <2>2
    <3>2. (a \o b)[j] = b[j - (i - 1)]
      BY <1>5, <3>1
    <3>3. b[j - (i - 1)] = s[i + (j - (i - 1))]
      BY <1>3, <3>1
    <3> QED
      BY <2>2, <3>1, <3>2, <3>3
  <2> QED
    BY <2>1, <2>2
<1> QED
  BY <1>1, <1>4, <1>5, <1>6 DEF n

Elements(s) == {s[i] : i \in 1 .. Len(s)}
Distinct(s) == \A i, j \in 1 .. Len(s) : s[i] = s[j] => i = j

LEMMA RemovedRest ==
    ASSUME NEW S, NEW s \in Seq(S), Distinct(s), NEW i \in 1 .. Len(s)
    PROVE  /\ RemoveAt(s, i) \in Seq(S) /\ Distinct(RemoveAt(s, i))
           /\ Elements(RemoveAt(s, i)) = Elements(s) \ {s[i]}
<1> DEFINE t == RemoveAt(s, i)
           at(j) == IF j < i THEN j ELSE j + 1
<1>1. /\ t \in Seq(S) /\ Len(s) \in Nat \ {0} /\ Len(t) = Len(s) - 1
      /\ \A j \in 1 .. Len(t) : t[j] = s[at(j)]
  BY RemoveAtParts
<1> HIDE DEF t
<1>2. \A j \in 1 .. Len(t) : at(j) \in 1 .. Len(s) /\ at(j) # i
  BY <1>1
<1>3. \A j, k \in 1 .. Len(t) : at(j) = at(k) => j = k
  BY <1>1
<1>4. ASSUME NEW k \in 1 .. Len(s), k # i
      PROVE  \E j \in 1 .. Len(t) : at(j) = k
  <2>1. CASE k < i
    BY <1>1, <1>4, <2>1
  <2>2. CASE ~ (k < i)
    <3>1. k - 1 \in 1 .. Len(t) /\ ~ (k - 1 < i) /\ (k - 1) + 1 = k
      BY <1>1, <1>4, <2>2
    <3> QED
      BY <3>1
  <2> QED
    BY <2>1, <2>2
<1> HIDE DEF at
<1>5. Distinct(t)
  BY <1>1, <1>2, <1>3 DEF Distinct
<1>6. Elements(t) \subseteq Elements(s) \ {s[i]}
  BY <1>1, <1>2 DEF Elements, Distinct
<1>7. Elements(s) \ {s[i]} \subseteq Elements(t)
  <2> SUFFICES ASSUME NEW x \in Elements(s), x # s[i] PROVE x \in Elements(t)
    OBVIOUS
  <2>1. PICK k \in 1 .. Len(s) : x = s[k]
    BY DEF Elements
  <2>2. PICK j \in 1 .. Len(t) : at(j) = k
    BY <1>4, <2>1
  <2> QED
    BY <1>1, <2>1, <2>2 DEF Elements
<1> QED
  BY <1>1, <1>5, <1>6, <1>7 DEF t

-----------------------------------------------------------------------------
(***************************************************************************)
(* What the proof sees of a worker's connections: a pipe for each socket,   *)
(* which is what it has under way, or has buffered while it is away.        *)
(***************************************************************************)
Live(c) == link[c].state \in {"open", "closing"}
LiveOn(s) == {c \in Conn : Live(c) /\ link[c].sock = s}

Pipe == [s \in Socket |->
           IF LiveOn(s) # {} THEN up[CHOOSE c \in LiveOn(s) : TRUE] ELSE buffer[s]]

Packet ==
    [type : {"register"}] \cup [type : {"token"}, p : Prompt, n : Nat]
    \cup [type : {"done", "error"}, p : Prompt]

TabType ==
    [phase : {"idle", "loading", "online", "error"}, loads : Nat, created : SUBSET Socket,
     closed : SUBSET Socket, ref : Socket \cup {NoSocket}]

LinkInv ==
    /\ link \in [Conn -> [state : {"unused", "open", "half", "closing", "gone"},
                          sock : Socket \cup {NoSocket}]]
    /\ up \in [Conn -> Seq(Packet)]
    /\ buffer \in [Socket -> Seq(Packet)]
    /\ tab \in TabType
    /\ \A c \in Conn : Live(c) => link[c].sock \in Socket
    /\ \A c, d \in Conn : Live(c) /\ Live(d) /\ link[c].sock = link[d].sock => c = d
    /\ \A c \in Conn : ~Live(c) => up[c] = <<>>
    /\ \A c \in Conn : Live(c) => buffer[link[c].sock] = <<>>
    /\ \A c \in Conn : link[c].state = "closing" => link[c].sock \in tab.closed
    /\ \A c \in Conn : link[c].state = "open" => link[c].sock \notin tab.closed

JobType ==
    [state : {"assigned"}, conn : Conn] \cup [state : {"none", "queued", "over"}, conn : {"none"}]

QueuedIn(queue, jobs) ==
    /\ jobs \in [Prompt -> JobType]
    /\ queue \in Seq(Prompt)
    /\ \A i \in 1 .. Len(queue) : jobs[queue[i]].state = "queued"
    /\ \A i, j \in 1 .. Len(queue) : queue[i] = queue[j] => i = j

JobInv ==
    /\ QueuedIn(line, job)
    /\ made \in [Prompt -> [sock : Socket \cup {NoSocket}, n : Nat]]

Of(q, p) == {i \in 1 .. Len(q) : q[i].type # "register" /\ q[i].p = p}
Tokens(q, p) == {i \in Of(q, p) : q[i].type = "token"}

InOrder(q, p) ==
    \A i, j \in Of(q, p) : i < j =>
        q[i].type = "token" /\ (q[j].type = "token" => q[i].n < q[j].n)

\* The token before the i-th.
Before(q, p, i) == IF q[i].type = "token" THEN q[i].n - 1 ELSE Size[p]

\* Token n is the last that was passed on, or comes before place k.
Has(q, p, g, n, k) == n = g \/ \E j \in Tokens(q, p) : j < k /\ q[j].n = n

Chain(q, p, g) ==
    \A i \in Of(q, p) : q[i].type # "error" => Has(q, p, g, Before(q, p, i), i)

Making(p) == made[p].sock # NoSocket

PacketsOf(p) ==
    /\ Making(p) => job[p].state \in {"assigned", "over"} /\ made[p].n <= Size[p]
    /\ \A s \in Socket :
         /\ InOrder(Pipe[s], p)
         /\ \A i \in Tokens(Pipe[s], p) :
              /\ Pipe[s][i].n \in 1 .. Size[p]
              /\ Making(p) => Pipe[s][i].n <= made[p].n
         /\ Of(Pipe[s], p) # {} =>
              /\ job[p].state \in {"assigned", "over"}
              /\ \A t \in Socket : Of(Pipe[t], p) # {} => t = s
              /\ Making(p) => made[p].sock = s /\ Of(Pipe[s], p) = Tokens(Pipe[s], p)

Event ==
    [type : {"token"}, n : Nat] \cup [type : {"done", "error"}]
    \cup [type : {"done"}, content : Seq(Nat)]

Rising(s) == \A i, j \in 1 .. Len(s) : i < j => s[i] < s[j]

\* Token x comes after all that was passed on.
After(x, sh, wi, ga) ==
    /\ \A i \in 1 .. Len(sh) : sh[i] < x
    /\ \A i \in 1 .. Len(wi) : wi[i].type = "token" => wi[i].n < x
    /\ \A i \in 1 .. Len(ga) : ga[i] < x

Later(p, x) == After(x, shown[p], wire[p], gathered[p])

CallerOf(p) ==
    /\ said[p] = "none" => job[p].state = "none" /\ wire[p] = <<>> /\ p \notin cut
    /\ job[p].state \in {"none", "queued"} => shown[p] = <<>> /\ gathered[p] = <<>>
    /\ job[p].state = "queued" => wire[p] = <<>>
    /\ Active(p) => said[p] = "waiting"
    /\ said[p] \in {"done", "error"} => wire[p] = <<>>
    /\ p \in cut => wire[p] = <<>>
    /\ \A i \in 1 .. Len(wire[p]) :
         /\ wire[p][i].type # "token" => i = Len(wire[p]) /\ ~Active(p)
         /\ wire[p][i].type = "token" => Way[p] # "json"
         /\ wire[p][i].type # "error" => job[p].state # "none"
         /\ wire[p][i].type = "done" /\ Way[p] = "json" => "content" \in DOMAIN wire[p][i]
         /\ "content" \in DOMAIN wire[p][i] =>
              wire[p][i].type = "done" /\ Way[p] = "json" /\ Rising(wire[p][i].content)
    /\ Rising(gathered[p])
    /\ Way[p] = "json" /\ said[p] # "done" => shown[p] = <<>>
    /\ Rising(shown[p])
    /\ \A i, j \in 1 .. Len(wire[p]) :
         i < j /\ wire[p][j].type = "token" => wire[p][i].n < wire[p][j].n
    /\ \A i \in 1 .. Len(shown[p]), j \in 1 .. Len(wire[p]) :
         wire[p][j].type = "token" => shown[p][i] < wire[p][j].n

\* What is under way, or is still to be made, comes later.
Ahead(p) ==
    Active(p) =>
        /\ \A s \in Socket : \A i \in Tokens(Pipe[s], p) : Later(p, Pipe[s][i].n)
        /\ Making(p) => Later(p, made[p].n + 1)

CallerTypes ==
    /\ shown \in [Prompt -> Seq(Nat)]
    /\ gathered \in [Prompt -> Seq(Nat)]
    /\ wire \in [Prompt -> Seq(Event)]
    /\ said \in [Prompt -> {"none", "waiting", "done", "error"}]
    /\ cut \in SUBSET Prompt

Given(p) ==
    IF Way[p] = "json" THEN Len(gathered[p]) ELSE Len(shown[p]) + Len(wire[p])

\* And without a gap.
Unbroken(p) ==
    Active(p) /\ (Way[p] = "json" \/ p \notin cut) =>
        \A s \in Socket :
           /\ Chain(Pipe[s], p, Given(p))
           /\ made[p].sock = s /\ s \notin tab.closed =>
                Has(Pipe[s], p, Given(p), made[p].n, Len(Pipe[s]) + 1)

WholeOf(p) ==
    /\ \A i \in 1 .. Len(wire[p]) : wire[p][i].type = "done" =>
         IF Way[p] = "json" THEN Len(wire[p][i].content) = Size[p]
         ELSE Len(shown[p]) + i - 1 = Size[p]
    /\ said[p] = "done" => Len(shown[p]) = Size[p]

Types == LinkInv /\ JobInv /\ CallerTypes
PromptInv(p) ==
    /\ PacketsOf(p) /\ CallerOf(p) /\ Ahead(p)
    /\ p \notin torn => Unbroken(p) /\ WholeOf(p)

-----------------------------------------------------------------------------
\* The steps of answers: of these variables no other step changes any.
StreamNext ==
    \/ \E p \in Prompt :
         Submit(p) \/ CutCaller(p) \/ FailQueued(p) \/ Generate(p) \/ EndJob(p) \/ Show(p)
    \/ \E s \in Socket : ModelLoads(s) \/ \E c \in Conn : ConnectWorker(s, c)
    \/ \E c \in Conn : DropWorker(c) \/ ReceiveFrom(c) \/ WorkerGone(c)
    \/ Start \/ LoadFails \/ Stop

LEMMA FreshOnes == NewSocket \subseteq Socket /\ NewConn \subseteq Conn
BY DEF NewSocket, NewConn, AnyOf

LEMMA StreamMoves == [Next]_vars => [StreamNext]_streamVars
<1> SUFFICES ASSUME [Next]_vars PROVE StreamNext \/ UNCHANGED streamVars
  OBVIOUS
<1>1. CASE AnswerStep
  BY <1>1, FreshOnes DEF AnswerStep, StreamNext
<1>2. CASE RouteStep
  BY <1>2 DEF RouteStep
<1>3. CASE \E t \in Call : CallStep(t)
  BY <1>3 DEF CallStep
<1>4. CASE PageStep
  BY <1>4 DEF PageStep
<1>5. CASE FailureStep
  BY <1>5 DEF FailureStep
<1>6. CASE AgentStep
  BY <1>6 DEF AgentStep
<1>7. CASE OutsideStep
  BY <1>7 DEF OutsideStep
<1>8. CASE \E q \in Question : JobStep(q)
  BY <1>8 DEF JobStep
<1>9. CASE \E a \in Asker : ClientStep(a)
  BY <1>9 DEF ClientStep
<1>10. CASE \E r \in Runner : BotStep(r)
  BY <1>10 DEF BotStep
<1>11. CASE UNCHANGED vars
  BY <1>11 DEF vars
<1> QED
  BY <1>1, <1>2, <1>3, <1>4, <1>5, <1>6, <1>7, <1>8, <1>9, <1>10, <1>11 DEF Next

-----------------------------------------------------------------------------
(***************************************************************************)
(* Scheduling.                                                             *)
(***************************************************************************)
\* A prompt is given away, and begun, at most once, from the queue.
Assigns(jobs) ==
    \A p \in Prompt :
        \/ job'[p] = jobs[p] /\ made'[p] = made[p]
        \/ /\ jobs[p].state = "queued" /\ job'[p].state = "assigned"
           /\ made'[p] = made[p] \/ (made'[p].sock \in Socket /\ made'[p].n = 0)

LEMMA ScheduleAssigns ==
    ASSUME NEW queue, NEW jobs, NEW conns, QueuedIn(queue, jobs), Types,
           Schedule(queue, jobs, conns)
    PROVE  JobInv' /\ Assigns(jobs)
<1> DEFINE idle == {c \in Conn : conns[c] = "idle"}
           n == IF Len(queue) < Cardinality(idle) THEN Len(queue) ELSE Cardinality(idle)
<1>1. /\ n \in Nat /\ n <= Len(queue) /\ Len(queue) \in Nat
      /\ queue \in Seq(Prompt) /\ \A i \in 1 .. Len(queue) : queue[i] \in Prompt
  <2>1. IsFiniteSet(idle) /\ Cardinality(idle) \in Nat
    BY StreamingAssumption, FS_Subset, FS_CardinalityType
  <2>2. Len(queue) \in Nat /\ queue \in Seq(Prompt) /\ \A i \in 1 .. Len(queue) : queue[i] \in Prompt
    BY LenProperties, ElementOfSeq DEF QueuedIn
  <2> HIDE DEF idle
  <2> QED
    BY <2>1, <2>2
<1>2. PICK taken \in Injection(1 .. n, idle) :
          /\ line' = SubSeq(queue, n + 1, Len(queue))
          /\ job' = [p \in Prompt |->
               IF \E i \in 1 .. n : queue[i] = p
               THEN [state |-> "assigned", conn |-> taken[CHOOSE i \in 1 .. n : queue[i] = p]]
               ELSE jobs[p]]
          /\ made' = [p \in Prompt |->
               IF \E i \in 1 .. n : queue[i] = p /\ link[taken[i]].state = "open"
               THEN [sock |-> link[taken[CHOOSE i \in 1 .. n : queue[i] = p]].sock, n |-> 0]
               ELSE made[p]]
  BY DEF Schedule
<1>3. \A i \in 1 .. n : taken[i] \in Conn
  BY <1>2 DEF Injection
<1> HIDE DEF n, idle
<1>4. /\ line' \in Seq(Prompt) /\ Len(line') = Len(queue) - n
      /\ \A i \in 1 .. Len(queue) - n : line'[i] = queue[n + i]
  <2>1. \A i \in n + 1 .. Len(queue) : queue[i] \in Prompt
    BY <1>1
  <2> QED
    BY <1>1, <1>2, <2>1, SubSeqProperties
<1>5. ASSUME NEW p \in Prompt, \A i \in 1 .. n : queue[i] # p
      PROVE  job'[p] = jobs[p] /\ made'[p] = made[p]
  BY <1>2, <1>5
<1>6. ASSUME NEW k \in 1 .. n
      PROVE  LET p == queue[k] IN
               /\ p \in Prompt /\ jobs[p].state = "queued"
               /\ job'[p] = [state |-> "assigned", conn |-> taken[k]]
               /\ made'[p] = IF link[taken[k]].state = "open"
                             THEN [sock |-> link[taken[k]].sock, n |-> 0] ELSE made[p]
  <2> DEFINE p == queue[k]
  <2>1. k \in 1 .. Len(queue) /\ \A i \in 1 .. n : i \in 1 .. Len(queue)
    BY <1>1
  <2>2. p \in Prompt /\ jobs[p].state = "queued" /\ \A i \in 1 .. n : queue[i] = p => i = k
    BY <1>1, <2>1 DEF QueuedIn
  <2> HIDE DEF p
  <2>3. (CHOOSE i \in 1 .. n : queue[i] = p) = k /\ \E i \in 1 .. n : queue[i] = p
    BY <2>2 DEF p
  <2>4. (\E i \in 1 .. n : queue[i] = p /\ link[taken[i]].state = "open")
          <=> link[taken[k]].state = "open"
    BY <2>2 DEF p
  <2>5. job'[p] = [state |-> "assigned", conn |-> taken[k]]
    BY <1>2, <2>2, <2>3
  <2>6. made'[p] = IF link[taken[k]].state = "open"
                   THEN [sock |-> link[taken[k]].sock, n |-> 0] ELSE made[p]
    BY <1>2, <2>2, <2>3, <2>4
  <2> QED
    BY <2>2, <2>5, <2>6 DEF p
<1>7. \A k \in 1 .. n : link[taken[k]].state = "open" => link[taken[k]].sock \in Socket
  BY <1>3 DEF Types, LinkInv, Live
<1>8. jobs \in [Prompt -> JobType] /\ made \in [Prompt -> [sock : Socket \cup {NoSocket}, n : Nat]]
  BY DEF QueuedIn, Types, JobInv
<1>9. job' \in [Prompt -> JobType]
  <2>1. DOMAIN job' = Prompt /\ job' = [p \in Prompt |-> job'[p]]
    BY <1>2
  <2> SUFFICES ASSUME NEW p \in Prompt PROVE job'[p] \in JobType
    BY <2>1
  <2>2. CASE \A i \in 1 .. n : queue[i] # p
    BY <1>5, <1>8, <2>2
  <2>3. CASE \E i \in 1 .. n : queue[i] = p
    <3>1. PICK k \in 1 .. n : queue[k] = p
      BY <2>3
    <3>2. job'[p] = [state |-> "assigned", conn |-> taken[k]]
      BY <1>6, <3>1
    <3> QED
      BY <1>3, <3>2 DEF JobType
  <2> QED
    BY <2>2, <2>3
<1>10. made' \in [Prompt -> [sock : Socket \cup {NoSocket}, n : Nat]]
  <2>1. DOMAIN made' = Prompt /\ made' = [p \in Prompt |-> made'[p]]
    BY <1>2
  <2> SUFFICES ASSUME NEW p \in Prompt PROVE made'[p] \in [sock : Socket \cup {NoSocket}, n : Nat]
    BY <2>1
  <2>2. CASE \A i \in 1 .. n : queue[i] # p
    BY <1>5, <1>8, <2>2
  <2>3. CASE \E i \in 1 .. n : queue[i] = p
    <3>1. PICK k \in 1 .. n : queue[k] = p
      BY <2>3
    <3>2. made'[p] = IF link[taken[k]].state = "open"
                     THEN [sock |-> link[taken[k]].sock, n |-> 0] ELSE made[p]
      BY <1>6, <3>1
    <3> QED
      BY <1>7, <1>8, <3>2
  <2> QED
    BY <2>2, <2>3
<1>11. Assigns(jobs)
  <2> SUFFICES ASSUME NEW p \in Prompt
               PROVE  \/ job'[p] = jobs[p] /\ made'[p] = made[p]
                      \/ /\ jobs[p].state = "queued" /\ job'[p].state = "assigned"
                         /\ made'[p] = made[p] \/ (made'[p].sock \in Socket /\ made'[p].n = 0)
    BY DEF Assigns
  <2>1. CASE \A i \in 1 .. n : queue[i] # p
    BY <1>5, <2>1
  <2>2. CASE \E i \in 1 .. n : queue[i] = p
    <3>1. PICK k \in 1 .. n : queue[k] = p
      BY <2>2
    <3>2. /\ jobs[p].state = "queued" /\ job'[p] = [state |-> "assigned", conn |-> taken[k]]
          /\ made'[p] = IF link[taken[k]].state = "open"
                        THEN [sock |-> link[taken[k]].sock, n |-> 0] ELSE made[p]
      BY <1>6, <3>1
    <3> QED
      BY <1>7, <3>2
  <2> QED
    BY <2>1, <2>2
<1>12. QueuedIn(line', job')
  <2>1. \A i \in 1 .. Len(queue) - n : n + i \in 1 .. Len(queue) /\ \A j \in 1 .. n : n + i # j
    BY <1>1
  <2>2. \A i \in 1 .. Len(line') : job'[line'[i]].state = "queued"
    <3> SUFFICES ASSUME NEW i \in 1 .. Len(line') PROVE job'[line'[i]].state = "queued"
      OBVIOUS
    <3>1. line'[i] = queue[n + i] /\ n + i \in 1 .. Len(queue)
      BY <1>4, <2>1
    <3>2. \A j \in 1 .. n : queue[j] # queue[n + i]
      <4> SUFFICES ASSUME NEW j \in 1 .. n, queue[j] = queue[n + i] PROVE FALSE
        OBVIOUS
      <4>1. j \in 1 .. Len(queue) /\ j # n + i
        BY <1>1, <1>4, <2>1
      <4> QED
        BY <3>1, <4>1 DEF QueuedIn
    <3> QED
      BY <1>1, <1>5, <3>1, <3>2 DEF QueuedIn
  <2>3. \A i, j \in 1 .. Len(line') : line'[i] = line'[j] => i = j
    <3> SUFFICES ASSUME NEW i \in 1 .. Len(line'), NEW j \in 1 .. Len(line'), line'[i] = line'[j]
                 PROVE  i = j
      OBVIOUS
    <3>1. n + i = n + j
      BY <1>4, <2>1 DEF QueuedIn
    <3> QED
      BY <1>1, <3>1
  <2> QED
    BY <1>4, <1>9, <2>2, <2>3 DEF QueuedIn
<1> QED
  BY <1>10, <1>11, <1>12 DEF JobInv

-----------------------------------------------------------------------------
(***************************************************************************)
(* What a step does to the pipes.                                          *)
(***************************************************************************)
PipeIs ==
    /\ Pipe \in [Socket -> Seq(Packet)]
    /\ \A c \in Conn : Live(c) => link[c].sock \in Socket /\ Pipe[link[c].sock] = up[c]
    /\ \A s \in Socket : LiveOn(s) = {} => Pipe[s] = buffer[s]

LEMMA PipeAt == LinkInv => PipeIs
<1> SUFFICES ASSUME LinkInv PROVE PipeIs
  OBVIOUS
<1>1. ASSUME NEW s \in Socket, LiveOn(s) = {}
      PROVE  Pipe[s] = buffer[s] /\ Pipe[s] \in Seq(Packet)
  BY <1>1 DEF Pipe, LinkInv
<1>2. ASSUME NEW c \in Conn, Live(c)
      PROVE  link[c].sock \in Socket /\ Pipe[link[c].sock] = up[c]
  <2> DEFINE s == link[c].sock
  <2>1. s \in Socket /\ LiveOn(s) = {c}
    BY <1>2 DEF LinkInv, LiveOn
  <2>2. (CHOOSE d \in LiveOn(s) : TRUE) = c /\ LiveOn(s) # {}
    BY <2>1
  <2> QED
    BY <2>1, <2>2 DEF Pipe
<1>3. ASSUME NEW s \in Socket, LiveOn(s) # {} PROVE Pipe[s] \in Seq(Packet)
  <2>1. PICK c \in Conn : Live(c) /\ link[c].sock = s
    BY <1>3 DEF LiveOn
  <2> QED
    BY <1>2, <2>1 DEF LinkInv
<1>4. Pipe \in [Socket -> Seq(Packet)]
  <2>1. \A s \in Socket : Pipe[s] \in Seq(Packet)
    BY <1>1, <1>3
  <2> QED
    BY <2>1 DEF Pipe
<1> QED
  BY <1>1, <1>2, <1>4 DEF PipeIs

LEMMA PipeAtNext == LinkInv' => PipeIs'
BY PipeAt, PTL

LEMMA PipeSame ==
    ASSUME UNCHANGED <<link, up, buffer>>
    PROVE  Pipe' = Pipe /\ (UNCHANGED tab /\ LinkInv => LinkInv')
<1>1. Pipe' = Pipe
  BY DEF Pipe, LiveOn, Live
<1>2. UNCHANGED tab /\ LinkInv => LinkInv'
  BY DEF LinkInv, Live
<1> QED
  BY <1>1, <1>2

\* Of two pipe families that agree but at s.
OnlyAt(s, q) ==
    /\ Pipe'[s] = q
    /\ \A t \in Socket : t # s => Pipe'[t] = Pipe[t]

LEMMA TransmitPipes ==
    ASSUME LinkInv, NEW s \in Socket, NEW pk \in Packet, Transmit(s, pk),
           UNCHANGED <<link, tab>>
    PROVE  /\ LinkInv'
           /\ \/ OnlyAt(s, Append(Pipe[s], pk)) /\ s \notin tab.closed
              \/ Pipe' = Pipe /\ s \in tab.closed
<1>1. /\ up \in [Conn -> Seq(Packet)] /\ buffer \in [Socket -> Seq(Packet)]
      /\ \A c \in Conn : up[c] \in Seq(Packet) /\ Append(up[c], pk) \in Seq(Packet)
      /\ Append(buffer[s], pk) \in Seq(Packet)
  BY AppendProperties DEF LinkInv
<1>2. PipeIs
  BY PipeAt
<1>3. CASE OpenLink(s) # {}
  <2>1. PICK c \in Conn : link[c] = [state |-> "open", sock |-> s]
    BY <1>3 DEF OpenLink
  <2>2. Live(c) /\ link[c].sock = s
    BY <2>1 DEF Live
  <2>3. \A d \in Conn : Live(d) /\ d # c => link[d].sock # s
    BY <2>2 DEF LinkInv
  <2>4. OpenLink(s) = {c}
    <3>1. \A d \in OpenLink(s) : d \in Conn /\ Live(d) /\ link[d].sock = s
      BY DEF OpenLink, Live
    <3> QED
      BY <2>1, <2>3, <3>1 DEF OpenLink
  <2>5. up' = [up EXCEPT ![c] = Append(up[c], pk)] /\ buffer' = buffer
    BY <1>1, <1>3, <2>4 DEF Transmit
  <2>6. LinkInv'
    BY <1>1, <2>2, <2>5 DEF LinkInv, Live
  <2>7. PipeIs'
    BY <2>6, PipeAtNext
  <2>8. Pipe'[s] = Append(Pipe[s], pk)
    <3>1. Pipe[s] = up[c] /\ Pipe'[s] = up'[c]
      BY <1>2, <2>2, <2>7 DEF PipeIs, Live
    <3> QED
      BY <1>1, <2>5, <3>1
  <2>9. ASSUME NEW t \in Socket, t # s PROVE Pipe'[t] = Pipe[t]
    <3>1. CASE LiveOn(t) = {}
      <4>1. LiveOn(t)' = {}
        BY <3>1 DEF LiveOn, Live
      <4> QED
        BY <1>2, <2>5, <2>7, <3>1, <4>1 DEF PipeIs
    <3>2. CASE LiveOn(t) # {}
      <4>1. PICK d \in Conn : Live(d) /\ link[d].sock = t
        BY <3>2 DEF LiveOn
      <4>2. d # c /\ Pipe[t] = up[d] /\ Pipe'[t] = up'[d]
        BY <1>2, <2>2, <2>7, <2>9, <4>1 DEF PipeIs, Live
      <4> QED
        BY <1>1, <2>5, <4>2
    <3> QED
      BY <3>1, <3>2
  <2>10. s \notin tab.closed
    <3>1. link[c].state = "open" /\ link[c].sock = s
      BY <2>1
    <3> QED
      BY <3>1 DEF LinkInv
  <2> QED
    BY <2>6, <2>8, <2>9, <2>10 DEF OnlyAt
<1>4. CASE OpenLink(s) = {} /\ s \notin tab.closed
  <2>1. up' = up /\ buffer' = [buffer EXCEPT ![s] = Append(buffer[s], pk)]
    BY <1>1, <1>4 DEF Transmit
  <2>2. LiveOn(s) = {}
    <3> SUFFICES ASSUME NEW c \in Conn, Live(c), link[c].sock = s PROVE FALSE
      BY DEF LiveOn
    <3>1. link[c].state = "open"
      BY <1>4 DEF Live, LinkInv
    <3>2. link[c] = [state |-> "open", sock |-> s]
      BY <3>1 DEF LinkInv
    <3> QED
      BY <1>4, <3>2 DEF OpenLink
  <2>3. LinkInv'
    BY <1>1, <2>1, <2>2 DEF LinkInv, Live, LiveOn
  <2>4. PipeIs'
    BY <2>3, PipeAtNext
  <2>5. LiveOn(s)' = {} /\ \A t \in Socket : LiveOn(t)' = LiveOn(t)
    BY <2>2 DEF LiveOn, Live
  <2>6. Pipe'[s] = Append(Pipe[s], pk)
    BY <1>1, <1>2, <2>1, <2>2, <2>4, <2>5 DEF PipeIs
  <2>7. ASSUME NEW t \in Socket, t # s PROVE Pipe'[t] = Pipe[t]
    <3>1. CASE LiveOn(t) = {}
      <4>1. LiveOn(t)' = {} /\ buffer'[t] = buffer[t]
        BY <1>1, <2>1, <2>5, <2>7, <3>1
      <4> QED
        BY <1>2, <2>4, <3>1, <4>1 DEF PipeIs
    <3>2. CASE LiveOn(t) # {}
      <4>1. PICK d \in Conn : Live(d) /\ link[d].sock = t
        BY <3>2 DEF LiveOn
      <4>2. Pipe[t] = up[d] /\ Pipe'[t] = up'[d]
        BY <1>2, <2>4, <4>1 DEF PipeIs, Live
      <4> QED
        BY <2>1, <4>2
    <3> QED
      BY <3>1, <3>2
  <2> QED
    BY <1>4, <2>3, <2>6, <2>7 DEF OnlyAt
<1>5. CASE OpenLink(s) = {} /\ s \in tab.closed
  <2>1. up' = up /\ buffer' = buffer
    BY <1>1, <1>5 DEF Transmit
  <2> QED
    BY <1>5, <2>1, PipeSame
<1> QED
  BY <1>3, <1>4, <1>5

LEMMA ConnectPipes ==
    ASSUME LinkInv, NEW s \in Socket, NEW c \in Conn, ConnectWorker(s, c)
    PROVE  /\ LinkInv'
           /\ OnlyAt(s, Append(Pipe[s], [type |-> "register"]))
           /\ tab'.closed = tab.closed
<1> DEFINE register == [type |-> "register"]
<1>1. /\ Append(buffer[s], register) \in Seq(Packet) /\ <<>> \in Seq(Packet)
      /\ buffer[s] \in Seq(Packet)
  <2>1. register \in Packet
    BY DEF Packet
  <2> QED
    BY <2>1, AppendProperties DEF LinkInv
<1> HIDE DEF register
<1>2. /\ s \notin tab.closed /\ OpenLink(s) = {} /\ link[c].state = "unused"
      /\ link' = [link EXCEPT ![c] = [state |-> "open", sock |-> s]]
      /\ up' = [up EXCEPT ![c] = Append(buffer[s], register)]
      /\ buffer' = [buffer EXCEPT ![s] = <<>>]
      /\ tab' = [tab EXCEPT !.phase = "online"]
  BY DEF ConnectWorker, register
<1>3. LiveOn(s) = {} /\ ~Live(c)
  <2>1. ASSUME NEW d \in Conn, Live(d), link[d].sock = s PROVE FALSE
    <3>1. link[d].state = "open"
      BY <1>2, <2>1 DEF Live, LinkInv
    <3>2. link[d] = [state |-> "open", sock |-> s]
      BY <2>1, <3>1 DEF LinkInv
    <3> QED
      BY <1>2, <3>2 DEF OpenLink
  <2> QED
    BY <1>2, <2>1 DEF LiveOn, Live
<1>4. /\ Live(c)' /\ link'[c].sock = s /\ up'[c] = Append(buffer[s], register)
      /\ link'[c].state = "open"
      /\ \A d \in Conn : d # c => link'[d] = link[d] /\ up'[d] = up[d] /\ (Live(d)' <=> Live(d))
  BY <1>2 DEF LinkInv, Live
<1>5. LinkInv'
  <2>1. /\ link' \in [Conn -> [state : {"unused", "open", "half", "closing", "gone"},
                               sock : Socket \cup {NoSocket}]]
        /\ up' \in [Conn -> Seq(Packet)] /\ buffer' \in [Socket -> Seq(Packet)]
        /\ tab' \in TabType
        /\ tab'.closed = tab.closed
    BY <1>1, <1>2 DEF LinkInv, TabType
  <2>2. \A d \in Conn : Live(d) => link[d].sock # s
    BY <1>3 DEF LiveOn
  <2>3. \A d \in Conn : Live(d)' /\ d # c => link'[d].sock # s /\ link'[d].sock \in Socket
                           /\ buffer'[link'[d].sock] = <<>>
    BY <1>2, <1>4, <2>2 DEF LinkInv
  <2>4. buffer'[s] = <<>>
    BY <1>2 DEF LinkInv
  <2>5. \A d, e \in Conn : Live(d)' /\ Live(e)' /\ link'[d].sock = link'[e].sock => d = e
    BY <1>4, <2>3 DEF LinkInv
  <2>6. \A d \in Conn : /\ link'[d].state = "closing" => link'[d].sock \in tab'.closed
                        /\ link'[d].state = "open" => link'[d].sock \notin tab'.closed
    BY <1>2, <1>4, <2>1 DEF LinkInv
  <2> QED
    BY <1>4, <2>1, <2>3, <2>4, <2>5, <2>6 DEF LinkInv
<1>6. PipeIs /\ PipeIs'
  BY <1>5, PipeAt, PipeAtNext
<1>7. Pipe'[s] = Append(Pipe[s], register)
  BY <1>3, <1>4, <1>6 DEF PipeIs
<1>8. ASSUME NEW t \in Socket, t # s PROVE Pipe'[t] = Pipe[t]
  <2>1. LiveOn(t)' = LiveOn(t)
    BY <1>3, <1>4, <1>8 DEF LiveOn
  <2>2. CASE LiveOn(t) = {}
    <3>1. LiveOn(t)' = {} /\ buffer'[t] = buffer[t]
      BY <1>2, <1>8, <2>1, <2>2 DEF LinkInv
    <3> QED
      BY <1>6, <2>2, <3>1 DEF PipeIs
  <2>3. CASE LiveOn(t) # {}
    <3>1. PICK d \in Conn : Live(d) /\ link[d].sock = t
      BY <2>3 DEF LiveOn
    <3>2. d # c
      BY <1>3, <3>1
    <3>3. Live(d)' /\ link'[d].sock = t /\ up'[d] = up[d]
      BY <1>4, <3>1, <3>2
    <3>4. Pipe[t] = up[d]
      BY <1>6, <3>1 DEF PipeIs
    <3>5. Pipe'[t] = up'[d]
      BY <1>6, <3>3 DEF PipeIs
    <3> QED
      BY <3>3, <3>4, <3>5
  <2> QED
    BY <2>2, <2>3
<1> QED
  BY <1>2, <1>5, <1>7, <1>8 DEF OnlyAt, register, LinkInv

\* The pipes of the sockets that a connection is not of.
LEMMA OthersKeep ==
    ASSUME LinkInv, LinkInv', NEW c \in Conn, NEW t \in Socket,
           Live(c) => link[c].sock # t,
           link'[c].sock = link[c].sock, Live(c)' => Live(c),
           \A d \in Conn : d # c => link'[d] = link[d] /\ up'[d] = up[d],
           buffer' = buffer
    PROVE  Pipe'[t] = Pipe[t]
<1>1. PipeIs /\ PipeIs'
  BY PipeAt, PipeAtNext
<1>2. \A d \in Conn : d # c => (Live(d)' <=> Live(d))
  BY DEF Live
<1>3. CASE LiveOn(t) = {}
  <2>1. LiveOn(t)' = {}
    BY <1>2, <1>3 DEF LiveOn
  <2> QED
    BY <1>1, <1>3, <2>1 DEF PipeIs
<1>4. CASE LiveOn(t) # {}
  <2>1. PICK d \in Conn : Live(d) /\ link[d].sock = t
    BY <1>4 DEF LiveOn
  <2>2. Live(d)' /\ link'[d].sock = t /\ up'[d] = up[d]
    BY <1>2, <2>1
  <2>3. Pipe[t] = up[d]
    BY <1>1, <2>1 DEF PipeIs
  <2>4. Pipe'[t] = up'[d]
    BY <1>1, <2>2 DEF PipeIs
  <2> QED
    BY <2>2, <2>3, <2>4
<1> QED
  BY <1>3, <1>4

LEMMA DropPipes ==
    ASSUME LinkInv, NEW c \in Conn, DropWorker(c)
    PROVE  /\ LinkInv'
           /\ tab'.closed = tab.closed
           /\ \E s \in Socket :
                /\ OnlyAt(s, <<>>)
                /\ torn' = torn \cup {Pipe[s][i].p :
                                        i \in {k \in 1 .. Len(Pipe[s]) : Pipe[s][k].type = "token"}}
<1>0. PICK s : s = link[c].sock
  OBVIOUS
<1>1. /\ link[c].state = "open"
      /\ link' = [link EXCEPT ![c].state = "half"]
      /\ up' = [up EXCEPT ![c] = <<>>]
      /\ torn' = torn \cup {up[c][i].p : i \in {k \in DOMAIN up[c] : up[c][k].type = "token"}}
      /\ tab' = [tab EXCEPT !.phase = "idle"]
      /\ buffer' = buffer
  BY DEF DropWorker
<1>2. Live(c) /\ s \in Socket
  BY <1>1, <1>0 DEF Live, LinkInv
<1>3. PipeIs
  BY PipeAt
<1>4. /\ ~Live(c)' /\ link'[c].state = "half" /\ link'[c].sock = s /\ up'[c] = <<>>
      /\ \A d \in Conn : d # c => link'[d] = link[d] /\ up'[d] = up[d] /\ (Live(d)' <=> Live(d))
  BY <1>1, <1>0 DEF LinkInv, Live
<1>5. tab' \in TabType /\ tab'.closed = tab.closed
  BY <1>1 DEF LinkInv, TabType
<1>6. LinkInv'
  <2>1. /\ link' \in [Conn -> [state : {"unused", "open", "half", "closing", "gone"},
                               sock : Socket \cup {NoSocket}]]
        /\ up' \in [Conn -> Seq(Packet)]
    <3>1. [link[c] EXCEPT !.state = "half"] \in
             [state : {"unused", "open", "half", "closing", "gone"}, sock : Socket \cup {NoSocket}]
      <4>1. link[c] \in [state : {"unused", "open", "half", "closing", "gone"},
                         sock : Socket \cup {NoSocket}]
        BY DEF LinkInv
      <4> QED
        BY <4>1
    <3> QED
      BY <1>1, <3>1 DEF LinkInv
  <2>2. /\ \A d \in Conn : Live(d)' => d # c /\ link'[d].sock \in Socket /\ buffer[link'[d].sock] = <<>>
        /\ \A d \in Conn : ~Live(d)' => up'[d] = <<>>
    <3>1. \A d \in Conn : Live(d)' => d # c
      BY <1>4
    <3>2. /\ \A d \in Conn : Live(d) => link[d].sock \in Socket /\ buffer[link[d].sock] = <<>>
          /\ \A d \in Conn : ~Live(d) => up[d] = <<>>
      BY DEF LinkInv
    <3> QED
      BY <1>4, <3>1, <3>2
  <2>3. \A d, e \in Conn : Live(d)' /\ Live(e)' /\ link'[d].sock = link'[e].sock => d = e
    BY <1>4, <2>2 DEF LinkInv
  <2>4. \A d \in Conn : /\ link'[d].state = "closing" => link'[d].sock \in tab.closed
                        /\ link'[d].state = "open" => link'[d].sock \notin tab.closed
    BY <1>4 DEF LinkInv
  <2> QED
    BY <1>1, <1>5, <2>1, <2>2, <2>3, <2>4 DEF LinkInv
<1>7. Pipe'[s] = <<>>
  <2>1. LiveOn(s)' = {}
    <3>1. \A d \in Conn : d # c /\ Live(d) => link[d].sock # s
      BY <1>2, <1>0 DEF LinkInv
    <3> QED
      BY <1>4, <3>1 DEF LiveOn
  <2>2. PipeIs'
    BY <1>6, PipeAtNext
  <2>3. Pipe'[s] = buffer'[s]
    BY <1>2, <2>1, <2>2 DEF PipeIs
  <2> QED
    BY <1>0, <1>1, <1>2, <2>3 DEF LinkInv
<1>8. \A t \in Socket : t # s => Pipe'[t] = Pipe[t]
  BY <1>1, <1>0, <1>4, <1>6, OthersKeep
<1>9. Pipe[s] = up[c] /\ DOMAIN up[c] = 1 .. Len(up[c])
  BY <1>2, <1>0, <1>3, LenProperties DEF PipeIs, LinkInv
<1>10. torn' = torn \cup {Pipe[s][i].p :
                                        i \in {k \in 1 .. Len(Pipe[s]) : Pipe[s][k].type = "token"}}
  BY <1>1, <1>9
<1> QED
  BY <1>2, <1>5, <1>6, <1>7, <1>8, <1>10 DEF OnlyAt

LEMMA StopPipes ==
    ASSUME LinkInv, Stop
    PROVE  LinkInv' /\ Pipe' = Pipe /\ tab.closed \subseteq tab'.closed
<1> DEFINE s == tab.ref
<1>1. /\ tab' = [tab EXCEPT !.phase = "idle", !.closed = @ \cup ({s} \ {NoSocket}), !.ref = NoSocket]
      /\ link' = [c \in Conn |-> IF c \in OpenLink(s)
                                 THEN [link[c] EXCEPT !.state = "closing"] ELSE link[c]]
      /\ UNCHANGED <<up, buffer>>
  BY DEF Stop
<1>2. \A c \in Conn : link[c].state = "open" => link[c].sock # NoSocket
  BY StreamingAssumption DEF LinkInv, Live
<1>3. /\ tab' \in TabType
      /\ tab'.closed = tab.closed \cup ({s} \ {NoSocket})
  BY <1>1 DEF LinkInv, TabType
<1> HIDE DEF s
<1>4. ASSUME NEW c \in Conn
      PROVE  /\ link'[c] \in [state : {"unused", "open", "half", "closing", "gone"},
                              sock : Socket \cup {NoSocket}]
             /\ link'[c].sock = link[c].sock /\ (Live(c)' <=> Live(c))
             /\ link'[c].state = IF link[c].state = "open" /\ link[c].sock = s
                                 THEN "closing" ELSE link[c].state
  <2>1. c \in OpenLink(s) <=> link[c].state = "open" /\ link[c].sock = s
    BY DEF OpenLink, LinkInv
  <2>2. CASE c \in OpenLink(s)
    <3>1. link'[c] = [link[c] EXCEPT !.state = "closing"]
      BY <1>1, <2>2
    <3> QED
      BY <2>1, <2>2, <3>1 DEF LinkInv, Live
  <2>3. CASE c \notin OpenLink(s)
    BY <1>1, <2>1, <2>3 DEF LinkInv, Live
  <2> QED
    BY <2>2, <2>3
<1>5. LinkInv'
  <2>1. link' \in [Conn -> [state : {"unused", "open", "half", "closing", "gone"},
                            sock : Socket \cup {NoSocket}]]
    BY <1>1, <1>4
  <2>2. /\ \A c \in Conn : Live(c)' => link'[c].sock \in Socket /\ buffer[link'[c].sock] = <<>>
        /\ \A c \in Conn : ~Live(c)' => up[c] = <<>>
    BY <1>4 DEF LinkInv
  <2>3. \A d, e \in Conn : Live(d)' /\ Live(e)' /\ link'[d].sock = link'[e].sock => d = e
    BY <1>4 DEF LinkInv
  <2>4. \A c \in Conn : link'[c].state = "closing" => link'[c].sock \in tab'.closed
    BY <1>2, <1>3, <1>4 DEF LinkInv
  <2>5. \A c \in Conn : link'[c].state = "open" => link'[c].sock \notin tab'.closed
    BY <1>3, <1>4 DEF LinkInv
  <2> QED
    BY <1>1, <1>3, <2>1, <2>2, <2>3, <2>4, <2>5 DEF LinkInv
<1>6. PipeIs /\ PipeIs'
  BY <1>5, PipeAt, PipeAtNext
<1>7. ASSUME NEW t \in Socket PROVE Pipe'[t] = Pipe[t]
  <2>1. CASE LiveOn(t) = {}
    <3>1. LiveOn(t)' = {}
      BY <1>4, <2>1 DEF LiveOn
    <3>2. Pipe'[t] = buffer'[t]
      BY <1>6, <3>1 DEF PipeIs
    <3> QED
      BY <1>1, <1>6, <2>1, <3>2 DEF PipeIs
  <2>2. CASE LiveOn(t) # {}
    <3>1. PICK d \in Conn : Live(d) /\ link[d].sock = t
      BY <2>2 DEF LiveOn
    <3>2. Live(d)' /\ link'[d].sock = t /\ up'[d] = up[d]
      BY <1>1, <1>4, <3>1
    <3>3. Pipe[t] = up[d]
      BY <1>6, <3>1 DEF PipeIs
    <3>4. Pipe'[t] = up'[d]
      BY <1>6, <3>2 DEF PipeIs
    <3> QED
      BY <3>2, <3>3, <3>4
  <2> QED
    BY <2>1, <2>2
<1>8. Pipe' = Pipe
  <2>1. Pipe = [t \in Socket |-> Pipe[t]] /\ Pipe' = [t \in Socket |-> Pipe'[t]]
    BY <1>6 DEF PipeIs
  <2> QED
    BY <1>7, <2>1
<1> QED
  BY <1>3, <1>5, <1>8

LEMMA ReceivePipes ==
    ASSUME LinkInv, NEW c \in Conn, link[c].state \in {"open", "closing"}, up[c] # <<>>,
           up' = [up EXCEPT ![c] = Tail(@)], UNCHANGED <<link, buffer, tab>>
    PROVE  /\ LinkInv'
           /\ link[c].sock \in Socket /\ Pipe[link[c].sock] = up[c]
           /\ OnlyAt(link[c].sock, Tail(Pipe[link[c].sock]))
<1>1. Live(c) /\ (\A d \in Conn : Live(d)' <=> Live(d))
  BY DEF Live
<1>2. Tail(up[c]) \in Seq(Packet)
  BY HeadTailProperties DEF LinkInv
<1>3. LinkInv'
  <2>1. up' \in [Conn -> Seq(Packet)] /\ \A d \in Conn : ~Live(d) => up'[d] = <<>>
    BY <1>1, <1>2 DEF LinkInv
  <2> QED
    BY <1>1, <2>1 DEF LinkInv
<1>4. PipeIs /\ PipeIs'
  BY <1>3, PipeAt, PipeAtNext
<1>5. link[c].sock \in Socket /\ Pipe[link[c].sock] = up[c] /\ up'[c] = Tail(up[c])
  BY <1>1, <1>4 DEF PipeIs, LinkInv
<1>6. Pipe'[link[c].sock] = up'[c]
  BY <1>1, <1>4 DEF PipeIs
<1>7. \A d \in Conn : d # c => up'[d] = up[d]
  BY DEF LinkInv
<1>8. \A t \in Socket : t # link[c].sock => Pipe'[t] = Pipe[t]
  BY <1>1, <1>3, <1>7, OthersKeep
<1> QED
  BY <1>3, <1>5, <1>6, <1>8 DEF OnlyAt

LEMMA GonePipes ==
    ASSUME LinkInv, NEW c \in Conn,
           link[c].state = "half" \/ (link[c].state = "closing" /\ up[c] = <<>>),
           link' = [link EXCEPT ![c].state = "gone"], UNCHANGED <<up, buffer, tab>>
    PROVE  LinkInv' /\ Pipe' = Pipe
<1>1. /\ ~Live(c)' /\ link'[c].state = "gone" /\ link'[c].sock = link[c].sock /\ up[c] = <<>>
      /\ \A d \in Conn : d # c => link'[d] = link[d] /\ (Live(d)' <=> Live(d))
  BY DEF LinkInv, Live
<1>2. LinkInv'
  <2>1. link' \in [Conn -> [state : {"unused", "open", "half", "closing", "gone"},
                            sock : Socket \cup {NoSocket}]]
    <3>1. [link[c] EXCEPT !.state = "gone"] \in
             [state : {"unused", "open", "half", "closing", "gone"}, sock : Socket \cup {NoSocket}]
      BY DEF LinkInv
    <3> QED
      BY <3>1 DEF LinkInv
  <2>2. /\ \A d \in Conn : Live(d)' => d # c /\ link'[d].sock \in Socket /\ buffer[link'[d].sock] = <<>>
        /\ \A d \in Conn : ~Live(d)' => up[d] = <<>>
    BY <1>1 DEF LinkInv
  <2>3. \A d, e \in Conn : Live(d)' /\ Live(e)' /\ link'[d].sock = link'[e].sock => d = e
    BY <1>1, <2>2 DEF LinkInv
  <2>4. \A d \in Conn : /\ link'[d].state = "closing" => link'[d].sock \in tab.closed
                        /\ link'[d].state = "open" => link'[d].sock \notin tab.closed
    BY <1>1 DEF LinkInv
  <2> QED
    BY <2>1, <2>2, <2>3, <2>4 DEF LinkInv
<1>3. PipeIs /\ PipeIs'
  BY <1>2, PipeAt, PipeAtNext
<1>4. ASSUME NEW t \in Socket PROVE Pipe'[t] = Pipe[t]
  <2>1. CASE Live(c) /\ link[c].sock = t
    <3>1. LiveOn(t)' = {}
      <4>1. \A d \in Conn : d # c /\ Live(d) => link[d].sock # t
        BY <2>1 DEF LinkInv
      <4> QED
        BY <1>1, <4>1 DEF LiveOn
    <3>2. Pipe'[t] = buffer'[t]
      BY <1>3, <3>1 DEF PipeIs
    <3>3. Pipe[t] = up[c] /\ buffer[t] = <<>>
      BY <1>3, <2>1 DEF PipeIs, LinkInv
    <3> QED
      BY <1>1, <3>2, <3>3
  <2>2. CASE ~ (Live(c) /\ link[c].sock = t)
    BY <1>1, <1>2, <2>2, OthersKeep
  <2> QED
    BY <2>1, <2>2
<1>5. Pipe' = Pipe
  <2>1. Pipe = [t \in Socket |-> Pipe[t]] /\ Pipe' = [t \in Socket |-> Pipe'[t]]
    BY <1>3 DEF PipeIs
  <2> QED
    BY <1>4, <2>1
<1> QED
  BY <1>2, <1>5

-----------------------------------------------------------------------------
(***************************************************************************)
(* What a pipe holds of a prompt when packets come and go.                 *)
(***************************************************************************)
\* r holds of p what q does.
Carries(q, r, p) ==
    /\ InOrder(q, p) => InOrder(r, p)
    /\ Of(r, p) = {} <=> Of(q, p) = {}
    /\ Of(q, p) = Tokens(q, p) => Of(r, p) = Tokens(r, p)
    /\ \A i \in Tokens(r, p) : \E j \in Tokens(q, p) : r[i] = q[j]
    /\ \A g : Chain(q, p, g) => Chain(r, p, g)
    /\ \A g, n : Has(q, p, g, n, Len(q) + 1) => Has(r, p, g, n, Len(r) + 1)

Shifted(q, r, p, k) ==
    /\ \A i \in Of(r, p) : i + k \in Of(q, p) /\ r[i] = q[i + k]
    /\ \A i \in Of(q, p) : i - k \in Of(r, p)

LEMMA ShiftCarries ==
    ASSUME NEW q \in Seq(Packet), NEW r \in Seq(Packet), NEW p, NEW k \in Nat, Shifted(q, r, p, k)
    PROVE  Carries(q, r, p)
<1>1. /\ \A i \in Of(r, p) : i \in Nat /\ i + k \in Of(q, p) /\ r[i] = q[i + k] /\ i <= Len(r)
      /\ \A i \in Of(q, p) : /\ i \in Nat /\ i - k \in Of(r, p) /\ (i - k) + k = i
                             /\ r[i - k] = q[i] /\ i <= Len(q)
      /\ Len(q) \in Nat /\ Len(r) \in Nat
  <2>1. Len(q) \in Nat /\ Len(r) \in Nat
    BY LenProperties
  <2>2. \A i \in Of(q, p) : i \in Nat /\ i <= Len(q)
    BY <2>1 DEF Of
  <2>3. \A i \in Of(r, p) : i \in Nat /\ i <= Len(r)
    BY <2>1 DEF Of
  <2>4. \A i \in Of(q, p) : (i - k) + k = i
    BY <2>2
  <2> QED
    BY <2>1, <2>2, <2>3, <2>4 DEF Shifted
<1>2. /\ \A i \in Tokens(r, p) : i \in Of(r, p) /\ i + k \in Tokens(q, p)
      /\ \A i \in Tokens(q, p) : i \in Of(q, p) /\ i - k \in Tokens(r, p)
  BY <1>1 DEF Tokens
<1>3. ASSUME InOrder(q, p) PROVE InOrder(r, p)
  <2> SUFFICES ASSUME NEW i \in Of(r, p), NEW j \in Of(r, p), i < j
               PROVE  r[i].type = "token" /\ (r[j].type = "token" => r[i].n < r[j].n)
    BY DEF InOrder
  <2>1. i + k < j + k
    BY <1>1
  <2>2. q[i + k].type = "token" /\ (q[j + k].type = "token" => q[i + k].n < q[j + k].n)
    BY <1>1, <1>3, <2>1 DEF InOrder
  <2> QED
    BY <1>1, <2>2
<1>4. Of(r, p) = {} <=> Of(q, p) = {}
  BY <1>1
<1>5. ASSUME Of(q, p) = Tokens(q, p) PROVE Of(r, p) = Tokens(r, p)
  BY <1>1, <1>5 DEF Tokens
<1>6. \A i \in Tokens(r, p) : \E j \in Tokens(q, p) : r[i] = q[j]
  BY <1>1, <1>2
<1>7. ASSUME NEW g, NEW n, NEW i \in Of(r, p), Has(q, p, g, n, i + k)
      PROVE  Has(r, p, g, n, i)
  <2>1. CASE n = g
    BY <2>1 DEF Has
  <2>2. CASE \E j \in Tokens(q, p) : j < i + k /\ q[j].n = n
    <3>1. PICK j \in Tokens(q, p) : j < i + k /\ q[j].n = n
      BY <2>2
    <3>2. j - k < i
      BY <1>1, <1>2, <3>1
    <3> QED
      BY <1>1, <1>2, <3>1, <3>2 DEF Has
  <2> QED
    BY <1>7, <2>1, <2>2 DEF Has
<1>8. ASSUME NEW g, Chain(q, p, g) PROVE Chain(r, p, g)
  <2> SUFFICES ASSUME NEW i \in Of(r, p), r[i].type # "error"
               PROVE  Has(r, p, g, Before(r, p, i), i)
    BY DEF Chain
  <2>1. Before(r, p, i) = Before(q, p, i + k)
    BY <1>1 DEF Before
  <2>2. Has(q, p, g, Before(q, p, i + k), i + k)
    BY <1>1, <1>8 DEF Chain
  <2> QED
    BY <1>7, <2>1, <2>2
<1>9. ASSUME NEW g, NEW n, Has(q, p, g, n, Len(q) + 1)
      PROVE  Has(r, p, g, n, Len(r) + 1)
  <2>1. CASE n = g
    BY <2>1 DEF Has
  <2>2. CASE \E j \in Tokens(q, p) : q[j].n = n
    <3>1. PICK j \in Tokens(q, p) : q[j].n = n
      BY <2>2
    <3>2. j - k < Len(r) + 1
      BY <1>1, <1>2
    <3> QED
      BY <1>1, <1>2, <3>1, <3>2 DEF Has
  <2> QED
    BY <1>9, <2>1, <2>2 DEF Has
<1> QED
  BY <1>3, <1>4, <1>5, <1>6, <1>8, <1>9 DEF Carries

LEMMA SameCarries ==
    ASSUME NEW q \in Seq(Packet), NEW p
    PROVE  Carries(q, q, p)
<1>1. \A i \in Of(q, p) : i + 0 = i /\ i - 0 = i
  BY LenProperties DEF Of
<1> QED
  BY <1>1, ShiftCarries DEF Shifted

IsOf(x, p) == x.type # "register" /\ x.p = p

LEMMA AppendAt ==
    ASSUME NEW q \in Seq(Packet), NEW x \in Packet, NEW p
    PROVE  /\ Append(q, x) \in Seq(Packet) /\ Len(q) \in Nat /\ Len(Append(q, x)) = Len(q) + 1
           /\ Append(q, x)[Len(q) + 1] = x /\ \A i \in 1 .. Len(q) : Append(q, x)[i] = q[i]
           /\ IsOf(x, p) => Of(Append(q, x), p) = Of(q, p) \cup {Len(q) + 1}
           /\ ~IsOf(x, p) => Of(Append(q, x), p) = Of(q, p)
           /\ \A i \in Of(q, p) : i \in Nat /\ i < Len(q) + 1 /\ Append(q, x)[i] = q[i]
<1>1. /\ Append(q, x) \in Seq(Packet) /\ Len(q) \in Nat /\ Len(Append(q, x)) = Len(q) + 1
      /\ Append(q, x)[Len(q) + 1] = x /\ \A i \in 1 .. Len(q) : Append(q, x)[i] = q[i]
  BY AppendProperties, LenProperties
<1>2. \A i : i \in 1 .. Len(q) + 1 <=> i \in 1 .. Len(q) \/ i = Len(q) + 1
  BY <1>1
<1>3. \A i \in 1 .. Len(q) : i \in Nat /\ i < Len(q) + 1
  BY <1>1
<1> QED
  BY <1>1, <1>2, <1>3 DEF Of, IsOf

LEMMA AppendCarries ==
    ASSUME NEW q \in Seq(Packet), NEW x \in Packet, NEW p, ~IsOf(x, p)
    PROVE  Carries(q, Append(q, x), p)
<1>1. Append(q, x) \in Seq(Packet)
  BY AppendAt
<1>2. Of(Append(q, x), p) = Of(q, p)
  BY AppendAt
<1>3. \A i \in Of(q, p) : i \in Nat /\ Append(q, x)[i] = q[i]
  <2>1. Len(q) \in Nat /\ \A i \in 1 .. Len(q) : Append(q, x)[i] = q[i]
    BY AppendAt
  <2> QED
    BY <2>1 DEF Of
<1>4. \A i \in Of(q, p) : i + 0 = i /\ i - 0 = i
  BY <1>3
<1>5. Shifted(q, Append(q, x), p, 0)
  BY <1>2, <1>3, <1>4 DEF Shifted
<1> QED
  BY <1>1, <1>5, ShiftCarries

LEMMA TailAt ==
    ASSUME NEW q \in Seq(Packet), q # <<>>, NEW p
    PROVE  /\ Tail(q) \in Seq(Packet) /\ Len(q) \in Nat \ {0} /\ Len(Tail(q)) = Len(q) - 1
           /\ Head(q) = q[1] /\ q[1] \in Packet
           /\ \A i \in Of(Tail(q), p) :
                /\ i \in Nat \ {0} /\ i <= Len(Tail(q)) /\ i + 1 \in Of(q, p) /\ Tail(q)[i] = q[i + 1]
           /\ \A i \in Of(q, p) : i \in Nat \ {0} /\ i <= Len(q) /\ (i # 1 => i - 1 \in Of(Tail(q), p))
           /\ 1 \in Of(q, p) <=> IsOf(q[1], p)
<1>1. /\ Tail(q) \in Seq(Packet) /\ Len(q) \in Nat \ {0} /\ Len(Tail(q)) = Len(q) - 1
      /\ Head(q) = q[1] /\ \A i \in 1 .. Len(q) - 1 : Tail(q)[i] = q[i + 1]
  BY HeadTailProperties, LenProperties, EmptySeq
<1>2. 1 \in 1 .. Len(q) /\ q[1] \in Packet
  BY <1>1, ElementOfSeq
<1>3. \A i \in 1 .. Len(q) - 1 : i \in Nat \ {0} /\ i + 1 \in 1 .. Len(q)
  BY <1>1
<1>4. \A i \in 1 .. Len(q) : /\ i \in Nat \ {0} /\ i <= Len(q)
                             /\ i # 1 => i - 1 \in 1 .. Len(q) - 1 /\ (i - 1) + 1 = i
  BY <1>1
<1> QED
  BY <1>1, <1>2, <1>3, <1>4 DEF Of, IsOf

LEMMA TailCarries ==
    ASSUME NEW q \in Seq(Packet), q # <<>>, NEW p, ~IsOf(q[1], p)
    PROVE  Carries(q, Tail(q), p)
<1>1. Shifted(q, Tail(q), p, 1)
  BY TailAt DEF Shifted
<1> QED
  BY <1>1, ShiftCarries, TailAt

\* The head of q is p's, and what follows it.
LEMMA PopFacts ==
    ASSUME NEW q \in Seq(Packet), q # <<>>, NEW p \in Prompt, IsOf(q[1], p), InOrder(q, p)
    PROVE  /\ InOrder(Tail(q), p)
           /\ 1 \in Of(q, p)
           /\ Of(q, p) = Tokens(q, p) => Of(Tail(q), p) = Tokens(Tail(q), p)
           /\ \A i \in Tokens(Tail(q), p) : \E j \in Tokens(q, p) : Tail(q)[i] = q[j]
           /\ q[1].type = "token" =>
                1 \in Tokens(q, p) /\ \A i \in Tokens(Tail(q), p) : q[1].n < Tail(q)[i].n
           /\ q[1].type # "token" => Of(Tail(q), p) = {}
<1> DEFINE r == Tail(q)
<1>1. /\ \A i \in Of(r, p) : i \in Nat \ {0} /\ i + 1 \in Of(q, p) /\ r[i] = q[i + 1]
      /\ 1 \in Of(q, p)
  BY TailAt
<1> HIDE DEF r
<1>2. \A i \in Tokens(r, p) : i \in Of(r, p) /\ i + 1 \in Tokens(q, p)
  BY <1>1 DEF Tokens
<1>3. InOrder(r, p)
  <2> SUFFICES ASSUME NEW i \in Of(r, p), NEW j \in Of(r, p), i < j
               PROVE  r[i].type = "token" /\ (r[j].type = "token" => r[i].n < r[j].n)
    BY DEF InOrder
  <2>1. i + 1 < j + 1
    BY <1>1
  <2>2. q[i + 1].type = "token" /\ (q[j + 1].type = "token" => q[i + 1].n < q[j + 1].n)
    BY <1>1, <2>1 DEF InOrder
  <2> QED
    BY <1>1, <2>2
<1>4. ASSUME NEW i \in Of(r, p)
      PROVE  q[1].type = "token" /\ (r[i].type = "token" => q[1].n < r[i].n)
  <2>1. 1 < i + 1
    BY <1>1
  <2> QED
    BY <1>1, <2>1 DEF InOrder
<1>5. Of(q, p) = Tokens(q, p) => Of(r, p) = Tokens(r, p)
  BY <1>1 DEF Tokens
<1>6. q[1].type = "token" => 1 \in Tokens(q, p)
  BY <1>1 DEF Tokens
<1>7. \A i \in Tokens(r, p) : r[i].type = "token"
  BY DEF Tokens
<1> QED
  BY <1>1, <1>2, <1>3, <1>4, <1>5, <1>6, <1>7 DEF r

LEMMA PopChain ==
    ASSUME NEW q \in Seq(Packet), q # <<>>, NEW p \in Prompt, IsOf(q[1], p), InOrder(q, p),
           \A i \in Tokens(q, p) : q[i].n \in 1 .. Size[p],
           NEW g \in Nat, Chain(q, p, g)
    PROVE  /\ q[1].type = "done" => Size[p] = g
           /\ q[1].type = "token" =>
                /\ q[1].n = g + 1 /\ Chain(Tail(q), p, g + 1)
                /\ \A n \in Nat : q[1].n <= n /\ Has(q, p, g, n, Len(q) + 1)
                                    => Has(Tail(q), p, g + 1, n, Len(Tail(q)) + 1)
<1> DEFINE r == Tail(q)
<1>1. /\ \A i \in Of(r, p) : i \in Nat \ {0} /\ i + 1 \in Of(q, p) /\ r[i] = q[i + 1] /\ i <= Len(r)
      /\ \A i \in Of(q, p) : i \in Nat \ {0} /\ (i # 1 => i - 1 \in Of(r, p))
      /\ 1 \in Of(q, p) /\ Len(q) \in Nat /\ Len(r) \in Nat
  <2>1. Len(q) \in Nat /\ Len(Tail(q)) \in Nat
    BY TailAt, LenProperties
  <2> QED
    BY <2>1, TailAt
<1> HIDE DEF r
<1>2. \A n : Has(q, p, g, n, 1) => n = g
  BY <1>1 DEF Has, Tokens
<1>3. q[1].type # "error" => Before(q, p, 1) = g
  BY <1>1, <1>2 DEF Chain
<1>4. Size[p] \in Nat
  BY StreamingAssumption
<1>5. q[1].type = "done" => Size[p] = g
  BY <1>3 DEF Before
<1>6. ASSUME q[1].type = "token"
      PROVE  /\ q[1].n = g + 1 /\ Chain(r, p, g + 1)
             /\ \A n \in Nat : q[1].n <= n /\ Has(q, p, g, n, Len(q) + 1)
                                 => Has(r, p, g + 1, n, Len(r) + 1)
  <2>1. 1 \in Tokens(q, p) /\ q[1].n \in 1 .. Size[p]
    BY <1>1, <1>6 DEF Tokens
  <2>2. q[1].n = g + 1
    BY <1>3, <1>4, <1>6, <2>1 DEF Before
  <2>3. \A i \in Tokens(q, p) : i # 1 => i - 1 \in Tokens(r, p) /\ q[i] = r[i - 1]
    <3> SUFFICES ASSUME NEW i \in Tokens(q, p), i # 1
                 PROVE  i - 1 \in Tokens(r, p) /\ q[i] = r[i - 1]
      OBVIOUS
    <3>1. i \in Of(q, p) /\ q[i].type = "token"
      BY DEF Tokens
    <3>2. i - 1 \in Of(r, p) /\ (i - 1) + 1 = i
      BY <1>1, <3>1
    <3> QED
      BY <1>1, <3>1, <3>2 DEF Tokens
  <2>4. ASSUME NEW i \in Of(r, p), NEW n, n # g, Has(q, p, g, n, i + 1)
        PROVE  Has(r, p, g + 1, n, i)
    <3>1. PICK j \in Tokens(q, p) : j < i + 1 /\ q[j].n = n
      BY <2>4 DEF Has
    <3>2. CASE j = 1
      BY <2>2, <3>1, <3>2 DEF Has
    <3>3. CASE j # 1
      <4>1. j \in Of(q, p) /\ j \in Nat /\ i \in Nat
        BY <1>1 DEF Tokens
      <4>2. j - 1 < i
        BY <3>1, <4>1
      <4> QED
        BY <2>3, <3>1, <3>3, <4>2 DEF Has
    <3> QED
      BY <3>2, <3>3
  <2>5. Chain(r, p, g + 1)
    <3> SUFFICES ASSUME NEW i \in Of(r, p), r[i].type # "error"
                 PROVE  Has(r, p, g + 1, Before(r, p, i), i)
      BY DEF Chain
    <3>1. i + 1 \in Of(q, p) /\ r[i] = q[i + 1] /\ 1 < i + 1
      BY <1>1
    <3>2. Has(q, p, g, Before(q, p, i + 1), i + 1) /\ Before(r, p, i) = Before(q, p, i + 1)
      BY <3>1 DEF Chain, Before
    <3>3. q[i + 1].type = "token" => q[1].n < q[i + 1].n /\ q[i + 1].n \in 1 .. Size[p]
      BY <1>1, <3>1 DEF InOrder, Tokens
    <3>4. Before(q, p, i + 1) # g
      BY <1>4, <2>1, <2>2, <3>3 DEF Before
    <3> QED
      BY <2>4, <3>2, <3>4
  <2>6. ASSUME NEW n \in Nat, q[1].n <= n, Has(q, p, g, n, Len(q) + 1)
        PROVE  Has(r, p, g + 1, n, Len(r) + 1)
    <3>1. n # g
      BY <2>2, <2>6
    <3>2. PICK j \in Tokens(q, p) : q[j].n = n
      BY <2>6, <3>1 DEF Has
    <3>3. CASE j = 1
      BY <2>2, <3>2, <3>3 DEF Has
    <3>4. CASE j # 1
      <4>1. j - 1 \in Tokens(r, p) /\ r[j - 1].n = n
        BY <2>3, <3>2, <3>4
      <4>2. j - 1 < Len(r) + 1
        BY <1>1, <4>1 DEF Tokens
      <4> QED
        BY <4>1, <4>2 DEF Has
    <3> QED
      BY <3>3, <3>4
  <2> QED
    BY <2>2, <2>5, <2>6
<1> QED
  BY <1>5, <1>6 DEF r

-----------------------------------------------------------------------------
(***************************************************************************)
(* What a step may be to one prompt.                                       *)
(***************************************************************************)
Frame ==
    /\ Types /\ Types' /\ PipeIs /\ PipeIs'
    /\ tab.closed \subseteq tab'.closed /\ torn \subseteq torn'

CallerKept(p) ==
    /\ wire'[p] = wire[p] /\ shown'[p] = shown[p] /\ gathered'[p] = gathered[p]
    /\ said'[p] = said[p] /\ (p \in cut' <=> p \in cut)

PipesCarry(p) == \A s \in Socket : Carries(Pipe[s], Pipe'[s], p)

LEMMA AddNat == \A a, b \in Nat : a + b \in Nat
OBVIOUS

LEMMA CallerShapes ==
    ASSUME CallerTypes, NEW p \in Prompt
    PROVE  /\ shown[p] \in Seq(Nat) /\ Len(shown[p]) \in Nat
           /\ \A i \in 1 .. Len(shown[p]) : shown[p][i] \in Nat
           /\ gathered[p] \in Seq(Nat) /\ Len(gathered[p]) \in Nat
           /\ \A i \in 1 .. Len(gathered[p]) : gathered[p][i] \in Nat
           /\ wire[p] \in Seq(Event) /\ Len(wire[p]) \in Nat
           /\ \A i \in 1 .. Len(wire[p]) : wire[p][i] \in Event
           /\ Given(p) \in Nat
<1>1. shown[p] \in Seq(Nat) /\ gathered[p] \in Seq(Nat) /\ wire[p] \in Seq(Event)
  BY DEF CallerTypes
<1>2. Len(shown[p]) \in Nat /\ Len(gathered[p]) \in Nat /\ Len(wire[p]) \in Nat
  BY <1>1, LenProperties
<1>3. /\ \A i \in 1 .. Len(shown[p]) : shown[p][i] \in Nat
      /\ \A i \in 1 .. Len(gathered[p]) : gathered[p][i] \in Nat
      /\ \A i \in 1 .. Len(wire[p]) : wire[p][i] \in Event
  BY <1>1, ElementOfSeq
<1>4. Given(p) \in Nat
  <2>1. Len(shown[p]) + Len(wire[p]) \in Nat
    BY <1>2, AddNat, Zenon
  <2>2. Given(p) = Len(gathered[p]) \/ Given(p) = Len(shown[p]) + Len(wire[p])
    BY DEF Given
  <2> QED
    BY <1>2, <2>1, <2>2
<1> QED
  BY <1>1, <1>2, <1>3, <1>4

LEMMA EventFields ==
    ASSUME NEW e \in Event
    PROVE  /\ e.type \in {"token", "done", "error"}
           /\ e.type = "token" => e.n \in Nat
           /\ "content" \in DOMAIN e => e.type = "done" /\ e.content \in Seq(Nat)
BY DEF Event

LEMMA PacketsCarry ==
    ASSUME NEW p \in Prompt, PacketsOf(p), PipesCarry(p), made'[p] = made[p],
           job'[p].state = job[p].state \/ job'[p].state \in {"assigned", "over"}
    PROVE  PacketsOf(p)'
<1>1. Making(p)' <=> Making(p)
  BY DEF Making
<1>2. Making(p)' => job'[p].state \in {"assigned", "over"} /\ made'[p].n <= Size[p]
  BY <1>1 DEF PacketsOf
<1>3. ASSUME NEW s \in Socket
      PROVE  /\ InOrder(Pipe'[s], p)
             /\ \A i \in Tokens(Pipe'[s], p) :
                  /\ Pipe'[s][i].n \in 1 .. Size[p]
                  /\ Making(p)' => Pipe'[s][i].n <= made'[p].n
             /\ Of(Pipe'[s], p) # {} =>
                  /\ job'[p].state \in {"assigned", "over"}
                  /\ \A t \in Socket : Of(Pipe'[t], p) # {} => t = s
                  /\ Making(p)' => made'[p].sock = s /\ Of(Pipe'[s], p) = Tokens(Pipe'[s], p)
  <2>1. /\ InOrder(Pipe'[s], p)
        /\ \A t \in Socket : Of(Pipe'[t], p) = {} <=> Of(Pipe[t], p) = {}
        /\ Of(Pipe[s], p) = Tokens(Pipe[s], p) => Of(Pipe'[s], p) = Tokens(Pipe'[s], p)
        /\ \A i \in Tokens(Pipe'[s], p) : \E j \in Tokens(Pipe[s], p) : Pipe'[s][i] = Pipe[s][j]
    BY DEF PipesCarry, Carries, PacketsOf
  <2> QED
    BY <1>1, <2>1 DEF PacketsOf
<1> QED
  BY <1>2, <1>3 DEF PacketsOf

\* Nothing happens to p, or to what is under way.
LEMMA RestKeeps ==
    ASSUME NEW p \in Prompt, Frame, PromptInv(p), PipesCarry(p), CallerKept(p),
           made'[p] = made[p], job'[p].state = job[p].state
    PROVE  PromptInv(p)'
<1>1. PacketsOf(p)'
  BY PacketsCarry DEF PromptInv
<1>2. CallerOf(p)'
  BY DEF PromptInv, CallerOf, CallerKept, Active
<1>3. (Active(p)' <=> Active(p)) /\ (Making(p)' <=> Making(p))
  BY DEF Active, Making
<1>4. \A x : After(x, shown[p], wire[p], gathered[p]) => After(x, shown'[p], wire'[p], gathered'[p])
  BY DEF CallerKept
<1>5. Ahead(p)'
  <2> SUFFICES ASSUME Active(p)
               PROVE  /\ \A s \in Socket : \A i \in Tokens(Pipe'[s], p) :
                           After(Pipe'[s][i].n, shown'[p], wire'[p], gathered'[p])
                      /\ Making(p) => After(made[p].n + 1, shown'[p], wire'[p], gathered'[p])
    BY <1>3 DEF Ahead, Later
  <2>1. ASSUME NEW s \in Socket, NEW i \in Tokens(Pipe'[s], p)
        PROVE  After(Pipe'[s][i].n, shown'[p], wire'[p], gathered'[p])
    <3>1. PICK j \in Tokens(Pipe[s], p) : Pipe'[s][i] = Pipe[s][j]
      BY DEF PipesCarry, Carries
    <3>2. After(Pipe[s][j].n, shown[p], wire[p], gathered[p])
      BY DEF PromptInv, Ahead, Later
    <3> QED
      BY <1>4, <3>1, <3>2
  <2>2. ASSUME Making(p) PROVE After(made[p].n + 1, shown'[p], wire'[p], gathered'[p])
    BY <1>4, <2>2 DEF PromptInv, Ahead, Later
  <2> QED
    BY <2>1, <2>2
<1>6. p \notin torn' => p \notin torn
  BY DEF Frame
<1>7. ASSUME p \notin torn PROVE Unbroken(p)'
  <2>1. Given(p)' = Given(p)
    BY DEF Given, CallerKept
  <2> SUFFICES ASSUME Active(p), Way[p] = "json" \/ p \notin cut, NEW s \in Socket
               PROVE  /\ Chain(Pipe'[s], p, Given(p))
                      /\ made[p].sock = s /\ s \notin tab'.closed =>
                           Has(Pipe'[s], p, Given(p), made[p].n, Len(Pipe'[s]) + 1)
    BY <1>3, <2>1 DEF Unbroken, CallerKept
  <2>2. /\ Chain(Pipe[s], p, Given(p))
        /\ made[p].sock = s /\ s \notin tab'.closed =>
             Has(Pipe[s], p, Given(p), made[p].n, Len(Pipe[s]) + 1)
    BY <1>7 DEF PromptInv, Unbroken, Frame
  <2> QED
    BY <2>2 DEF PipesCarry, Carries
<1>8. p \notin torn => WholeOf(p)'
  BY DEF PromptInv, WholeOf, CallerKept
<1> QED
  BY <1>1, <1>2, <1>5, <1>6, <1>7, <1>8 DEF PromptInv

\* p is taken into the queue, or given to a worker, who may begin it.
LEMMA BeginKeeps ==
    ASSUME NEW p \in Prompt, Frame, PromptInv(p), PipesCarry(p),
           job[p].state \in {"none", "queued"}, job'[p].state \in {"queued", "assigned"},
           job[p].state = "none" => said[p] = "none",
           \/ made'[p] = made[p]
           \/ job'[p].state = "assigned" /\ made'[p].sock \in Socket /\ made'[p].n = 0,
           wire'[p] = wire[p], shown'[p] = shown[p], gathered'[p] = gathered[p],
           said'[p] = "waiting", p \in cut' <=> p \in cut
    PROVE  PromptInv(p)'
<1>1. /\ ~Making(p) /\ \A s \in Socket : Of(Pipe'[s], p) = {} /\ Tokens(Pipe'[s], p) = {}
  BY DEF PromptInv, PacketsOf, PipesCarry, Carries, Tokens
<1>2. wire'[p] = <<>> /\ shown'[p] = <<>> /\ gathered'[p] = <<>>
  BY DEF PromptInv, CallerOf
<1>3. Making(p)' => job'[p].state = "assigned" /\ made'[p].n = 0 /\ 0 <= Size[p]
  BY <1>1, StreamingAssumption DEF Making
<1>4. PacketsOf(p)'
  <2>1. \A s \in Socket : InOrder(Pipe'[s], p)
    BY <1>1 DEF InOrder
  <2> QED
    BY <1>1, <1>3, <2>1 DEF PacketsOf
<1>5. Len(wire'[p]) = 0 /\ Len(shown'[p]) = 0 /\ Len(gathered'[p]) = 0
  BY <1>2, EmptySeq
<1>6. CallerOf(p)'
  <2>1. Rising(shown'[p]) /\ Rising(gathered'[p])
    BY <1>5 DEF Rising
  <2>2. Active(p)'
    BY DEF Active
  <2> QED
    BY <1>2, <1>5, <2>1, <2>2 DEF CallerOf
<1>7. Ahead(p)'
  <2>1. \A x : After(x, shown'[p], wire'[p], gathered'[p])
    BY <1>5 DEF After
  <2> QED
    BY <1>1, <2>1 DEF Ahead, Later
<1>8. Unbroken(p)'
  <2>1. Given(p)' = 0
    BY <1>5 DEF Given
  <2>2. made'[p].sock \in Socket => made'[p].n = 0
    BY <1>1, StreamingAssumption DEF Making
  <2>3. ASSUME NEW s \in Socket
        PROVE  /\ Chain(Pipe'[s], p, 0)
               /\ made'[p].sock = s => Has(Pipe'[s], p, 0, made'[p].n, Len(Pipe'[s]) + 1)
    BY <1>1, <2>2 DEF Chain, Has
  <2> QED
    BY <2>1, <2>3 DEF Unbroken
<1>9. WholeOf(p)'
  BY <1>5 DEF WholeOf
<1> QED
  BY <1>4, <1>6, <1>7, <1>8, <1>9 DEF PromptInv

\* p is refused for want of credits.
LEMMA RefuseKeeps ==
    ASSUME NEW p \in Prompt, Frame, PromptInv(p), PipesCarry(p),
           said[p] = "none", said'[p] = "waiting", wire'[p] = <<[type |-> "error"]>>,
           UNCHANGED <<job, made, shown, gathered, cut>>
    PROVE  PromptInv(p)'
<1>1. job[p].state = "none" /\ ~Active(p) /\ p \notin cut /\ shown[p] = <<>> /\ gathered[p] = <<>>
  BY DEF PromptInv, CallerOf, Active
<1>2. ~Active(p)'
  BY <1>1 DEF Active
<1>3. PacketsOf(p)'
  BY PacketsCarry DEF PromptInv
<1>4. /\ Len(wire'[p]) = 1 /\ wire'[p][1].type = "error"
      /\ "content" \notin DOMAIN wire'[p][1] /\ \A i \in 1 .. 1 : i = 1
  OBVIOUS
<1>5. Len(shown[p]) = 0 /\ Len(gathered[p]) = 0
  BY <1>1, EmptySeq
<1>6. CallerOf(p)'
  <2>1. Rising(shown'[p]) /\ Rising(gathered'[p])
    BY <1>5 DEF Rising
  <2>2. \A i \in 1 .. Len(wire'[p]) : i = 1
    BY <1>4
  <2> QED
    BY <1>1, <1>2, <1>4, <1>5, <2>1, <2>2 DEF CallerOf
<1>7. Ahead(p)' /\ Unbroken(p)'
  BY <1>2 DEF Ahead, Unbroken
<1>8. WholeOf(p)'
  <2>1. \A i \in 1 .. Len(wire'[p]) : i = 1
    BY <1>4
  <2> QED
    BY <1>4, <2>1 DEF WholeOf
<1> QED
  BY <1>3, <1>6, <1>7, <1>8 DEF PromptInv

\* The caller's connection is lost.
LEMMA CutKeeps ==
    ASSUME NEW p \in Prompt, Frame, PromptInv(p), PipesCarry(p),
           said[p] = "waiting", p \in cut', wire'[p] = <<>>,
           UNCHANGED <<job, made, shown, gathered, said>>
    PROVE  PromptInv(p)'
<1>1. PacketsOf(p)'
  BY PacketsCarry DEF PromptInv
<1>2. Len(wire'[p]) = 0
  BY EmptySeq
<1>3. (Active(p)' <=> Active(p)) /\ (Making(p)' <=> Making(p))
  BY DEF Active, Making
<1>4. CallerOf(p)'
  BY <1>2, <1>3 DEF PromptInv, CallerOf
<1>5. \A x : After(x, shown[p], wire[p], gathered[p]) => After(x, shown'[p], wire'[p], gathered'[p])
  BY <1>2 DEF After
<1>6. Ahead(p)'
  <2>1. \A s \in Socket : \A i \in Tokens(Pipe'[s], p) : \E j \in Tokens(Pipe[s], p) : Pipe'[s][i] = Pipe[s][j]
    BY DEF PipesCarry, Carries
  <2> QED
    BY <1>3, <1>5, <2>1 DEF PromptInv, Ahead, Later
<1>7. p \notin torn' => p \notin torn
  BY DEF Frame
<1>8. ASSUME p \notin torn PROVE Unbroken(p)'
  <2>1. CASE Way[p] # "json"
    BY <2>1 DEF Unbroken
  <2>2. CASE Way[p] = "json"
    <3>1. Given(p)' = Given(p)
      BY <2>2 DEF Given
    <3> SUFFICES ASSUME Active(p), NEW s \in Socket
                 PROVE  /\ Chain(Pipe'[s], p, Given(p))
                        /\ made[p].sock = s /\ s \notin tab'.closed =>
                             Has(Pipe'[s], p, Given(p), made[p].n, Len(Pipe'[s]) + 1)
      BY <1>3, <3>1 DEF Unbroken
    <3>2. /\ Chain(Pipe[s], p, Given(p))
          /\ made[p].sock = s /\ s \notin tab'.closed =>
               Has(Pipe[s], p, Given(p), made[p].n, Len(Pipe[s]) + 1)
      BY <1>8, <2>2 DEF PromptInv, Unbroken, Frame
    <3> QED
      BY <3>2 DEF PipesCarry, Carries
  <2> QED
    BY <2>1, <2>2
<1>9. p \notin torn => WholeOf(p)'
  BY <1>2 DEF PromptInv, WholeOf
<1> QED
  BY <1>1, <1>4, <1>6, <1>7, <1>8, <1>9 DEF PromptInv

\* The pipe of s loses its head, which is p's.
PopsAt(s, p) ==
    /\ Pipe[s] # <<>> /\ IsOf(Pipe[s][1], p)
    /\ OnlyAt(s, Tail(Pipe[s]))

\* What is in the pipes was in them before.
LEMMA PoppedTokens ==
    ASSUME NEW p \in Prompt, Frame, PacketsOf(p), NEW s \in Socket, PopsAt(s, p)
    PROVE  /\ Pipe[s] \in Seq(Packet)
           /\ \A t \in Socket : InOrder(Pipe[t], p) /\ InOrder(Pipe'[t], p)
           /\ \A t \in Socket : t # s => Of(Pipe[t], p) = {} /\ Of(Pipe'[t], p) = {} /\ Tokens(Pipe'[t], p) = {}
           /\ \A t \in Socket : \A i \in Tokens(Pipe'[t], p) :
                t = s /\ \E j \in Tokens(Pipe[t], p) : Pipe'[t][i] = Pipe[t][j]
           /\ \A t \in Socket : Of(Pipe'[t], p) # {} => t = s
           /\ job[p].state \in {"assigned", "over"}
           /\ Making(p) => made[p].sock = s /\ Pipe[s][1].type = "token"
           /\ \A i \in Tokens(Pipe[s], p) : Pipe[s][i].n \in 1 .. Size[p]
<1>1. Pipe[s] \in Seq(Packet) /\ \A t \in Socket : InOrder(Pipe[t], p)
  BY DEF Frame, PipeIs, PacketsOf
<1>2. /\ 1 \in Of(Pipe[s], p) /\ InOrder(Tail(Pipe[s]), p)
      /\ \A i \in Tokens(Tail(Pipe[s]), p) : \E j \in Tokens(Pipe[s], p) : Tail(Pipe[s])[i] = Pipe[s][j]
  BY <1>1, PopFacts DEF PopsAt
<1>3. \A t \in Socket : t # s => Of(Pipe[t], p) = {} /\ Pipe'[t] = Pipe[t]
  BY <1>2 DEF PacketsOf, PopsAt, OnlyAt
<1>4. Pipe'[s] = Tail(Pipe[s])
  BY DEF PopsAt, OnlyAt
<1>5. \A t \in Socket : t # s => Of(Pipe'[t], p) = {} /\ Tokens(Pipe'[t], p) = {} /\ InOrder(Pipe'[t], p)
  BY <1>1, <1>3 DEF Tokens
<1>6. job[p].state \in {"assigned", "over"} /\ (Making(p) => made[p].sock = s /\ 1 \in Tokens(Pipe[s], p))
  BY <1>2 DEF PacketsOf
<1>7. \A i \in Tokens(Pipe[s], p) : Pipe[s][i].n \in 1 .. Size[p] /\ Pipe[s][i].type = "token"
  BY DEF PacketsOf, Tokens
<1>8. \A t \in Socket : InOrder(Pipe[t], p) /\ InOrder(Pipe'[t], p)
  BY <1>1, <1>2, <1>4, <1>5
<1>9. ASSUME NEW t \in Socket, NEW i \in Tokens(Pipe'[t], p)
      PROVE  t = s /\ \E j \in Tokens(Pipe[t], p) : Pipe'[t][i] = Pipe[t][j]
  <2>1. t = s
    BY <1>5
  <2>2. \E j \in Tokens(Pipe[s], p) : Pipe'[s][i] = Pipe[s][j]
    BY <1>2, <1>4, <2>1
  <2> QED
    BY <2>1, <2>2
<1>10. Making(p) => made[p].sock = s /\ Pipe[s][1].type = "token"
  BY <1>6, <1>7
<1>11. \A t \in Socket : Of(Pipe'[t], p) # {} => t = s
  BY <1>5
<1>12. \A t \in Socket : t # s => Of(Pipe[t], p) = {} /\ Of(Pipe'[t], p) = {} /\ Tokens(Pipe'[t], p) = {}
  BY <1>3, <1>5
<1> QED
  BY <1>1, <1>6, <1>7, <1>8, <1>9, <1>10, <1>11, <1>12

LEMMA PopPackets ==
    ASSUME NEW p \in Prompt, Frame, PacketsOf(p), NEW s \in Socket, PopsAt(s, p),
           made'[p] = made[p], job'[p].state = job[p].state \/ job'[p].state = "over"
    PROVE  PacketsOf(p)'
<1>1. Making(p)' <=> Making(p)
  BY DEF Making
<1>2. Making(p)' => job'[p].state \in {"assigned", "over"} /\ made'[p].n <= Size[p]
  BY <1>1 DEF PacketsOf
<1>3. Of(Pipe[s], p) = Tokens(Pipe[s], p) => Of(Pipe'[s], p) = Tokens(Pipe'[s], p)
  BY PoppedTokens, PopFacts DEF PopsAt, OnlyAt
<1>4. Of(Pipe[s], p) # {}
  BY PoppedTokens, PopFacts DEF PopsAt
<1>5. ASSUME NEW t \in Socket
      PROVE  /\ InOrder(Pipe'[t], p)
             /\ \A i \in Tokens(Pipe'[t], p) :
                  /\ Pipe'[t][i].n \in 1 .. Size[p]
                  /\ Making(p)' => Pipe'[t][i].n <= made'[p].n
             /\ Of(Pipe'[t], p) # {} =>
                  /\ job'[p].state \in {"assigned", "over"}
                  /\ \A x \in Socket : Of(Pipe'[x], p) # {} => x = t
                  /\ Making(p)' => made'[p].sock = t /\ Of(Pipe'[t], p) = Tokens(Pipe'[t], p)
  <2>1. InOrder(Pipe'[t], p)
    BY PoppedTokens
  <2>2. \A i \in Tokens(Pipe'[t], p) : \E j \in Tokens(Pipe[t], p) : Pipe'[t][i] = Pipe[t][j]
    BY PoppedTokens
  <2>3. \A j \in Tokens(Pipe[t], p) : /\ Pipe[t][j].n \in 1 .. Size[p]
                                      /\ Making(p)' => Pipe[t][j].n <= made'[p].n
    BY <1>1 DEF PacketsOf
  <2>4. ASSUME Of(Pipe'[t], p) # {}
        PROVE  /\ job'[p].state \in {"assigned", "over"}
               /\ \A x \in Socket : Of(Pipe'[x], p) # {} => x = t
               /\ Making(p)' => made'[p].sock = t /\ Of(Pipe'[t], p) = Tokens(Pipe'[t], p)
    <3>1. t = s /\ \A x \in Socket : Of(Pipe'[x], p) # {} => x = s
      BY <2>4, PoppedTokens
    <3>2. job'[p].state \in {"assigned", "over"}
      BY PoppedTokens
    <3>3. Making(p) => made[p].sock = s /\ Of(Pipe[s], p) = Tokens(Pipe[s], p)
      BY <1>4 DEF PacketsOf
    <3> QED
      BY <1>1, <1>3, <3>1, <3>2, <3>3
  <2> QED
    BY <2>1, <2>2, <2>3, <2>4
<1> QED
  BY <1>2, <1>5 DEF PacketsOf

\* A packet of p, that is over, is received in vain.
LEMMA DrainKeeps ==
    ASSUME NEW p \in Prompt, Frame, PromptInv(p), NEW s \in Socket, PopsAt(s, p), ~Active(p),
           CallerKept(p), made'[p] = made[p], job'[p].state = job[p].state
    PROVE  PromptInv(p)'
<1>1. PacketsOf(p)'
  BY PopPackets DEF PromptInv
<1>2. ~Active(p)'
  BY DEF Active
<1>3. CallerOf(p)'
  BY <1>2 DEF PromptInv, CallerOf, CallerKept
<1>4. Ahead(p)' /\ Unbroken(p)'
  BY <1>2 DEF Ahead, Unbroken
<1>5. p \notin torn' => p \notin torn
  BY DEF Frame
<1>6. p \notin torn => WholeOf(p)'
  BY DEF PromptInv, WholeOf, CallerKept
<1> QED
  BY <1>1, <1>3, <1>4, <1>5, <1>6 DEF PromptInv

\* p is over: its caller is told, and whatever comes of it now comes in vain.
LEMMA EndKeeps ==
    ASSUME NEW p \in Prompt, Frame, PromptInv(p), Active(p), job'[p].state = "over",
           made'[p] = made[p], shown'[p] = shown[p], gathered'[p] = gathered[p],
           said'[p] = said[p], p \in cut' <=> p \in cut,
           NEW event \in [type : {"done", "error"}], wire'[p] = ToCaller(p, event),
           \/ PipesCarry(p) /\ event.type = "error"
           \/ \E s \in Socket : PopsAt(s, p) /\ Pipe[s][1].type = event.type
    PROVE  PromptInv(p)'
<1>1. PacketsOf(p)'
  BY PacketsCarry, PopPackets DEF PromptInv
<1>2. ~Active(p)'
  BY DEF Active
<1>3. /\ \A i \in 1 .. Len(wire[p]) : wire[p][i].type = "token" /\ "content" \notin DOMAIN wire[p][i]
      /\ said[p] = "waiting"
      /\ Way[p] = "json" => Len(wire[p]) = 0
      /\ p \in cut => Len(wire[p]) = 0
  <2>1. \A i \in 1 .. Len(wire[p]) : wire[p][i].type = "token" /\ "content" \notin DOMAIN wire[p][i]
    BY DEF PromptInv, CallerOf
  <2>2. Len(wire[p]) \in Nat
    BY CallerShapes DEF Frame, Types
  <2>3. Way[p] = "json" => Len(wire[p]) = 0
    <3> SUFFICES ASSUME Way[p] = "json", Len(wire[p]) # 0 PROVE FALSE
      OBVIOUS
    <3>1. 1 \in 1 .. Len(wire[p])
      BY <2>2
    <3> QED
      BY <2>1, <3>1 DEF PromptInv, CallerOf
  <2>4. p \in cut => Len(wire[p]) = 0
    BY EmptySeq DEF PromptInv, CallerOf
  <2> QED
    BY <2>1, <2>3, <2>4 DEF PromptInv, CallerOf
<1>4. /\ shown[p] \in Seq(Nat) /\ gathered[p] \in Seq(Nat) /\ wire[p] \in Seq(Event)
      /\ Len(wire[p]) \in Nat /\ Len(shown[p]) \in Nat /\ Len(gathered[p]) \in Nat
  BY CallerShapes DEF Frame, Types
\* What the caller is sent.
<1>5. ASSUME p \notin cut
      PROVE  /\ Len(wire'[p]) = Len(wire[p]) + 1
             /\ \A i \in 1 .. Len(wire[p]) : wire'[p][i] = wire[p][i]
             /\ wire'[p][Len(wire[p]) + 1].type = event.type
             /\ event.type = "done" /\ Way[p] = "json" =>
                  /\ wire'[p][Len(wire[p]) + 1].content = gathered[p]
                  /\ "content" \in DOMAIN wire'[p][Len(wire[p]) + 1]
             /\ ~ (event.type = "done" /\ Way[p] = "json") =>
                  "content" \notin DOMAIN wire'[p][Len(wire[p]) + 1]
  <2>1. event \in Event /\ [type |-> "done", content |-> gathered[p]] \in Event
        /\ event.type \in {"done", "error"} /\ "content" \notin DOMAIN event
    BY <1>4 DEF Event
  <2>2. CASE Way[p] = "json" /\ event.type = "done"
    <3> DEFINE last == [type |-> "done", content |-> gathered[p]]
    <3>1. wire'[p] = Append(wire[p], last)
      BY <1>5, <2>1, <2>2 DEF ToCaller
    <3>2. /\ last \in Event /\ last.type = "done" /\ last.content = gathered[p]
          /\ "content" \in DOMAIN last
      BY <2>1
    <3> HIDE DEF last
    <3> QED
      BY <1>4, <2>2, <3>1, <3>2, AppendProperties
  <2>3. CASE ~ (Way[p] = "json" /\ event.type = "done")
    <3>1. wire'[p] = Append(wire[p], event)
      BY <1>5, <2>1, <2>3 DEF ToCaller
    <3> QED
      BY <1>4, <2>1, <2>3, <3>1, AppendProperties
  <2> QED
    BY <2>2, <2>3
<1>6. p \in cut => wire'[p] = wire[p]
  BY DEF ToCaller
<1>7. CallerOf(p)'
  <2>1. CASE p \in cut
    BY <1>2, <1>6, <2>1 DEF PromptInv, CallerOf
  <2>2. CASE p \notin cut
    <3>1. \A i \in 1 .. Len(wire'[p]) : i \in 1 .. Len(wire[p]) \/ i = Len(wire[p]) + 1
      BY <1>4, <1>5, <2>2
    <3>2. event.type \in {"done", "error"}
      OBVIOUS
    <3>3. \A i \in 1 .. Len(wire'[p]) :
            /\ wire'[p][i].type # "token" => i = Len(wire'[p])
            /\ wire'[p][i].type = "token" => Way[p] # "json" /\ i \in 1 .. Len(wire[p])
            /\ wire'[p][i].type = "done" /\ Way[p] = "json" => "content" \in DOMAIN wire'[p][i]
            /\ "content" \in DOMAIN wire'[p][i] =>
                 wire'[p][i].type = "done" /\ Way[p] = "json" /\ Rising(wire'[p][i].content)
      <4> SUFFICES ASSUME NEW i \in 1 .. Len(wire'[p])
                   PROVE  /\ wire'[p][i].type # "token" => i = Len(wire'[p])
                          /\ wire'[p][i].type = "token" => Way[p] # "json" /\ i \in 1 .. Len(wire[p])
                          /\ wire'[p][i].type = "done" /\ Way[p] = "json" =>
                               "content" \in DOMAIN wire'[p][i]
                          /\ "content" \in DOMAIN wire'[p][i] =>
                               /\ wire'[p][i].type = "done" /\ Way[p] = "json"
                               /\ Rising(wire'[p][i].content)
        OBVIOUS
      <4>1. CASE i \in 1 .. Len(wire[p])
        BY <1>3, <1>5, <2>2, <4>1 DEF PromptInv, CallerOf
      <4>2. CASE i = Len(wire[p]) + 1
        BY <1>5, <2>2, <3>2, <4>2 DEF PromptInv, CallerOf
      <4> QED
        BY <3>1, <4>1, <4>2
    <3>4. \A i \in 1 .. Len(wire'[p]), j \in 1 .. Len(wire'[p]) :
            i < j /\ wire'[p][j].type = "token" => wire'[p][i].n < wire'[p][j].n
      <4> SUFFICES ASSUME NEW i \in 1 .. Len(wire'[p]), NEW j \in 1 .. Len(wire'[p]),
                          i < j, wire'[p][j].type = "token"
                   PROVE  wire'[p][i].n < wire'[p][j].n
        OBVIOUS
      <4>1. i \in 1 .. Len(wire[p]) /\ j \in 1 .. Len(wire[p])
        BY <1>4, <3>3
      <4> QED
        BY <1>5, <2>2, <4>1 DEF PromptInv, CallerOf
    <3>5. \A i \in 1 .. Len(shown[p]), j \in 1 .. Len(wire'[p]) :
            wire'[p][j].type = "token" => shown[p][i] < wire'[p][j].n
      BY <1>5, <2>2, <3>3 DEF PromptInv, CallerOf
    <3>6. job'[p].state \notin {"none", "queued"} /\ said'[p] = "waiting"
      BY <1>3
    <3> QED
      BY <1>2, <2>2, <3>3, <3>4, <3>5, <3>6 DEF PromptInv, CallerOf
  <2> QED
    BY <2>1, <2>2
<1>8. Ahead(p)' /\ Unbroken(p)'
  BY <1>2 DEF Ahead, Unbroken
<1>9. p \notin torn' => p \notin torn
  BY DEF Frame
<1>10. ASSUME p \notin torn PROVE WholeOf(p)'
  <2>1. CASE p \in cut
    BY <1>6, <1>10, <2>1 DEF PromptInv, WholeOf
  <2>2. CASE p \notin cut
    <3>1. \A i \in 1 .. Len(wire'[p]) : wire'[p][i].type = "done" => i = Len(wire[p]) + 1
      <4>1. \A i \in 1 .. Len(wire'[p]) : i \in 1 .. Len(wire[p]) \/ i = Len(wire[p]) + 1
        BY <1>4, <1>5, <2>2
      <4> QED
        BY <1>3, <1>5, <2>2, <4>1
    <3>2. ASSUME event.type = "done" PROVE Given(p) = Size[p]
      <4>1. PICK s \in Socket : PopsAt(s, p) /\ Pipe[s][1].type = "done"
        BY <3>2
      <4>2. /\ Pipe[s] \in Seq(Packet) /\ InOrder(Pipe[s], p)
            /\ \A i \in Tokens(Pipe[s], p) : Pipe[s][i].n \in 1 .. Size[p]
        BY <4>1, PoppedTokens DEF PromptInv
      <4>3. Given(p) \in Nat
        BY CallerShapes DEF Frame, Types
      <4>4. Chain(Pipe[s], p, Given(p))
        BY <1>10, <2>2 DEF PromptInv, Unbroken
      <4> HIDE DEF Given
      <4> QED
        BY <4>1, <4>2, <4>3, <4>4, PopChain DEF PopsAt
    <3>3. wire'[p][Len(wire[p]) + 1].type = "done" =>
            IF Way[p] = "json" THEN Len(wire'[p][Len(wire[p]) + 1].content) = Size[p]
            ELSE Len(shown[p]) + (Len(wire[p]) + 1) - 1 = Size[p]
      <4> SUFFICES ASSUME event.type = "done"
                   PROVE  IF Way[p] = "json" THEN Len(wire'[p][Len(wire[p]) + 1].content) = Size[p]
                          ELSE Len(shown[p]) + (Len(wire[p]) + 1) - 1 = Size[p]
        BY <1>5, <2>2
      <4>1. CASE Way[p] = "json"
        BY <1>5, <2>2, <3>2, <4>1 DEF Given
      <4>2. CASE Way[p] # "json"
        <5>1. Len(shown[p]) + Len(wire[p]) = Size[p]
          BY <3>2, <4>2 DEF Given
        <5>2. Len(shown[p]) + (Len(wire[p]) + 1) - 1 = Len(shown[p]) + Len(wire[p])
          BY <1>4
        <5> QED
          BY <4>2, <5>1, <5>2
      <4> QED
        BY <4>1, <4>2
    <3> QED
      BY <1>3, <3>1, <3>3 DEF WholeOf
  <2> QED
    BY <2>1, <2>2
<1> QED
  BY <1>1, <1>7, <1>8, <1>9, <1>10 DEF PromptInv

LEMMA OneMore == \A a, b \in Nat : a + (b + 1) = (a + b) + 1
OBVIOUS

\* A token of p is passed on.
LEMMA TokenKeeps ==
    ASSUME NEW p \in Prompt, Frame, PromptInv(p), Active(p), NEW s \in Socket, PopsAt(s, p),
           Pipe[s][1].type = "token",
           made'[p] = made[p], job'[p].state = job[p].state, shown'[p] = shown[p],
           said'[p] = said[p], p \in cut' <=> p \in cut,
           wire'[p] = ToCaller(p, [type |-> "token", n |-> Pipe[s][1].n]),
           gathered'[p] = IF Way[p] = "json" THEN Append(gathered[p], Pipe[s][1].n) ELSE gathered[p]
    PROVE  PromptInv(p)'
<1> DEFINE x == Pipe[s][1].n
<1>0. \A u \in Socket : Of(Pipe'[u], p) # {} => u = s
  BY PoppedTokens DEF PromptInv
<1>1. PacketsOf(p)'
  BY PopPackets DEF PromptInv
<1>2. /\ (Active(p)' <=> Active(p)) /\ (Making(p)' <=> Making(p))
      /\ job[p].state \notin {"none", "queued"} /\ job'[p].state \notin {"none", "queued"}
  BY PoppedTokens DEF Active, Making, PromptInv
<1>3. /\ Pipe[s] \in Seq(Packet) /\ InOrder(Pipe[s], p) /\ 1 \in Tokens(Pipe[s], p)
      /\ \A i \in Tokens(Pipe[s], p) : Pipe[s][i].n \in 1 .. Size[p]
      /\ \A i \in Tokens(Tail(Pipe[s]), p) : x < Tail(Pipe[s])[i].n
  BY PoppedTokens, PopFacts DEF PopsAt, PromptInv
<1>4. x \in Nat /\ x >= 1 /\ Size[p] \in Nat
  BY <1>3, StreamingAssumption
<1>5. After(x, shown[p], wire[p], gathered[p])
  BY <1>3 DEF PromptInv, Ahead, Later
<1>6. /\ shown[p] \in Seq(Nat) /\ gathered[p] \in Seq(Nat) /\ wire[p] \in Seq(Event)
      /\ Len(wire[p]) \in Nat /\ Len(shown[p]) \in Nat /\ Len(gathered[p]) \in Nat
      /\ \A i \in 1 .. Len(shown[p]) : shown[p][i] \in Nat
      /\ \A i \in 1 .. Len(gathered[p]) : gathered[p][i] \in Nat
      /\ \A i \in 1 .. Len(wire[p]) : wire[p][i] \in Event
  BY CallerShapes DEF Frame, Types
<1>7. /\ \A i \in 1 .. Len(wire[p]) :
           /\ wire[p][i].type = "token" /\ wire[p][i].n \in Nat
           /\ "content" \notin DOMAIN wire[p][i] /\ Way[p] # "json"
      /\ said[p] = "waiting"
      /\ p \in cut => wire[p] = <<>>
  <2>1. \A i \in 1 .. Len(wire[p]) : /\ wire[p][i].type = "token" /\ Way[p] # "json"
                                     /\ "content" \notin DOMAIN wire[p][i]
    BY DEF PromptInv, CallerOf
  <2>2. \A i \in 1 .. Len(wire[p]) : wire[p][i].n \in Nat
    BY <1>6, <2>1, EventFields
  <2> QED
    BY <2>1, <2>2 DEF PromptInv, CallerOf
<1> DEFINE token == [type |-> "token", n |-> x]
\* What the caller is sent.
<1>8. \/ /\ wire'[p] = wire[p]
         /\ Way[p] = "json" \/ p \in cut
      \/ /\ Way[p] # "json" /\ p \notin cut
         /\ Len(wire'[p]) = Len(wire[p]) + 1
         /\ \A i \in 1 .. Len(wire[p]) : wire'[p][i] = wire[p][i]
         /\ wire'[p][Len(wire[p]) + 1] = token
  <2>1. token \in Event /\ token.type = "token"
    BY <1>4 DEF Event
  <2>2. CASE Way[p] = "json" \/ p \in cut
    <3>1. wire'[p] = wire[p]
      BY <2>2 DEF ToCaller
    <3> QED
      BY <2>2, <3>1
  <2>3. CASE Way[p] # "json" /\ p \notin cut
    <3>1. wire'[p] = Append(wire[p], token)
      BY <2>3 DEF ToCaller
    <3> HIDE DEF token
    <3>2. /\ Len(Append(wire[p], token)) = Len(wire[p]) + 1
          /\ \A i \in 1 .. Len(wire[p]) : Append(wire[p], token)[i] = wire[p][i]
          /\ Append(wire[p], token)[Len(wire[p]) + 1] = token
      BY <1>6, <2>1, AppendProperties
    <3> QED
      BY <2>3, <3>1, <3>2
  <2> QED
    BY <2>2, <2>3
<1>9. token.type = "token" /\ token.n = x /\ "content" \notin DOMAIN token
  OBVIOUS
<1>10. \/ gathered'[p] = gathered[p] /\ Way[p] # "json"
       \/ /\ Way[p] = "json" /\ Len(gathered'[p]) = Len(gathered[p]) + 1
          /\ \A i \in 1 .. Len(gathered[p]) : gathered'[p][i] = gathered[p][i]
          /\ gathered'[p][Len(gathered[p]) + 1] = x
  <2>1. CASE Way[p] = "json"
    <3>1. gathered'[p] = Append(gathered[p], x)
      BY <2>1
    <3> HIDE DEF x
    <3> QED
      BY <1>4, <1>6, <2>1, <3>1, AppendProperties
  <2>2. CASE Way[p] # "json"
    BY <2>2
  <2> QED
    BY <2>1, <2>2
<1> HIDE DEF token, x
<1>11. Rising(gathered'[p])
  <2>1. CASE gathered'[p] = gathered[p]
    BY <2>1 DEF PromptInv, CallerOf
  <2>2. CASE gathered'[p] # gathered[p]
    <3>1. \A i \in 1 .. Len(gathered'[p]) : i \in 1 .. Len(gathered[p]) \/ i = Len(gathered[p]) + 1
      BY <1>6, <1>10, <2>2
    <3>2. Rising(gathered[p])
      BY DEF PromptInv, CallerOf
    <3> SUFFICES ASSUME NEW i \in 1 .. Len(gathered'[p]), NEW j \in 1 .. Len(gathered'[p]), i < j
                 PROVE  gathered'[p][i] < gathered'[p][j]
      BY DEF Rising
    <3>3. i \in 1 .. Len(gathered[p])
      BY <1>6, <1>10, <2>2
    <3>4. CASE j \in 1 .. Len(gathered[p])
      BY <1>10, <2>2, <3>2, <3>3, <3>4 DEF Rising
    <3>5. CASE j = Len(gathered[p]) + 1
      BY <1>5, <1>10, <2>2, <3>3, <3>5 DEF After
    <3> QED
      BY <3>1, <3>4, <3>5
  <2> QED
    BY <2>1, <2>2
<1>12. CallerOf(p)'
  <2>1. CASE wire'[p] = wire[p]
    BY <1>2, <1>11, <2>1 DEF PromptInv, CallerOf
  <2>2. CASE wire'[p] # wire[p]
    <3>1. \A i \in 1 .. Len(wire'[p]) : i \in 1 .. Len(wire[p]) \/ i = Len(wire[p]) + 1
      BY <1>6, <1>8, <2>2
    <3>2. \A i \in 1 .. Len(wire'[p]) : /\ wire'[p][i].type = "token" /\ Way[p] # "json"
                                        /\ "content" \notin DOMAIN wire'[p][i]
      BY <1>7, <1>8, <1>9, <2>2, <3>1
    <3>3. ASSUME NEW i \in 1 .. Len(wire'[p]), NEW j \in 1 .. Len(wire'[p]), i < j
          PROVE  wire'[p][i].n < wire'[p][j].n
      <4>1. i \in 1 .. Len(wire[p])
        BY <1>6, <1>8, <2>2, <3>3
      <4>2. CASE j \in 1 .. Len(wire[p])
        BY <1>7, <1>8, <2>2, <3>3, <4>1, <4>2 DEF PromptInv, CallerOf
      <4>3. CASE j = Len(wire[p]) + 1
        BY <1>5, <1>7, <1>8, <1>9, <2>2, <4>1, <4>3 DEF After
      <4> QED
        BY <3>1, <4>2, <4>3
    <3>4. ASSUME NEW i \in 1 .. Len(shown[p]), NEW j \in 1 .. Len(wire'[p])
          PROVE  shown[p][i] < wire'[p][j].n
      <4>1. CASE j \in 1 .. Len(wire[p])
        BY <1>7, <1>8, <2>2, <4>1 DEF PromptInv, CallerOf
      <4>2. CASE j = Len(wire[p]) + 1
        BY <1>5, <1>8, <1>9, <2>2, <4>2 DEF After
      <4> QED
        BY <3>1, <4>1, <4>2
    <3> QED
      BY <1>2, <1>7, <1>8, <1>11, <2>2, <3>2, <3>3, <3>4 DEF PromptInv, CallerOf
  <2> QED
    BY <2>1, <2>2
\* What is to come is later than this token, too.
<1>13. ASSUME NEW y, y \in Nat, x < y, After(y, shown[p], wire[p], gathered[p])
       PROVE  After(y, shown'[p], wire'[p], gathered'[p])
  <2>1. \A i \in 1 .. Len(wire'[p]) : wire'[p][i].type = "token" => wire'[p][i].n < y
    <3>1. CASE wire'[p] = wire[p]
      BY <1>13, <3>1 DEF After
    <3>2. CASE wire'[p] # wire[p]
      <4>1. \A i \in 1 .. Len(wire'[p]) : i \in 1 .. Len(wire[p]) \/ i = Len(wire[p]) + 1
        BY <1>6, <1>8, <3>2
      <4> QED
        BY <1>8, <1>9, <1>13, <3>2, <4>1 DEF After
    <3> QED
      BY <3>1, <3>2
  <2>2. \A i \in 1 .. Len(gathered'[p]) : gathered'[p][i] < y
    <3>1. CASE gathered'[p] = gathered[p]
      BY <1>13, <3>1 DEF After
    <3>2. CASE gathered'[p] # gathered[p]
      <4>1. \A i \in 1 .. Len(gathered'[p]) : i \in 1 .. Len(gathered[p]) \/ i = Len(gathered[p]) + 1
        BY <1>6, <1>10, <3>2
      <4> QED
        BY <1>10, <1>13, <3>2, <4>1 DEF After
    <3> QED
      BY <3>1, <3>2
  <2> QED
    BY <1>13, <2>1, <2>2 DEF After
<1>14. Ahead(p)'
  <2>1. ASSUME NEW t \in Socket, NEW i \in Tokens(Pipe'[t], p)
        PROVE  After(Pipe'[t][i].n, shown'[p], wire'[p], gathered'[p])
    <3>1. t = s /\ \E j \in Tokens(Pipe[t], p) : Pipe'[t][i] = Pipe[t][j]
      BY PoppedTokens DEF PromptInv
    <3>2. PICK j \in Tokens(Pipe[s], p) : Pipe'[s][i] = Pipe[s][j]
      BY <3>1
    <3>3. After(Pipe[s][j].n, shown[p], wire[p], gathered[p]) /\ Pipe[s][j].n \in Nat
      BY <1>3 DEF PromptInv, Ahead, Later
    <3>4. x < Pipe'[s][i].n
      BY <1>3, <3>1 DEF PopsAt, OnlyAt
    <3> QED
      BY <1>13, <3>1, <3>2, <3>3, <3>4
  <2>2. ASSUME Making(p) PROVE After(made[p].n + 1, shown'[p], wire'[p], gathered'[p])
    <3>1. After(made[p].n + 1, shown[p], wire[p], gathered[p]) /\ made[p].n \in Nat
      BY <2>2 DEF PromptInv, Ahead, Later, Frame, Types, JobInv
    <3>2. x <= made[p].n
      BY <1>3, <2>2 DEF PromptInv, PacketsOf, x
    <3> QED
      BY <1>4, <1>13, <3>1, <3>2
  <2> QED
    BY <1>2, <2>1, <2>2 DEF Ahead, Later
<1>15. p \notin torn' => p \notin torn
  BY DEF Frame
<1>16. ASSUME p \notin torn PROVE Unbroken(p)'
  <2> SUFFICES ASSUME Way[p] = "json" \/ p \notin cut, NEW t \in Socket
               PROVE  /\ Chain(Pipe'[t], p, Given(p)')
                      /\ made[p].sock = t /\ t \notin tab'.closed =>
                           Has(Pipe'[t], p, Given(p)', made[p].n, Len(Pipe'[t]) + 1)
    BY <1>2 DEF Unbroken
  <2>1. Given(p)' = Given(p) + 1
    <3>1. CASE Way[p] = "json"
      BY <1>10, <3>1 DEF Given
    <3>2. CASE Way[p] # "json"
      <4>1. Len(wire'[p]) = Len(wire[p]) + 1
        BY <1>8, <3>2
      <4>2. Given(p) = Len(shown[p]) + Len(wire[p]) /\ Given(p)' = Len(shown[p]) + Len(wire'[p])
        BY <3>2 DEF Given
      <4>3. Len(shown[p]) + (Len(wire[p]) + 1) = (Len(shown[p]) + Len(wire[p])) + 1
        BY <1>6, OneMore
      <4> QED
        BY <4>1, <4>2, <4>3
    <3> QED
      BY <3>1, <3>2
  <2>2. Given(p) \in Nat
    BY CallerShapes DEF Frame, Types
  <2>3. Chain(Pipe[s], p, Given(p)) /\ \A u \in Socket : made[p].sock = u /\ u \notin tab.closed =>
           Has(Pipe[u], p, Given(p), made[p].n, Len(Pipe[u]) + 1)
    BY <1>2, <1>16 DEF PromptInv, Unbroken
  <2> HIDE DEF Given
  <2>4. CASE t # s
    <3>1. Of(Pipe'[t], p) = {}
      BY <1>0, <2>4
    <3>2. made[p].sock # t
      <4>1. made[p].sock = t => Making(p)
        BY StreamingAssumption DEF Making
      <4> QED
        BY <2>4, <4>1, PoppedTokens DEF PromptInv
    <3> QED
      BY <3>1, <3>2 DEF Chain
  <2>5. CASE t = s
    <3>1. Pipe'[s] = Tail(Pipe[s]) /\ Pipe[s] # <<>> /\ IsOf(Pipe[s][1], p)
      BY DEF PopsAt, OnlyAt
    <3>2. /\ Chain(Tail(Pipe[s]), p, Given(p) + 1)
          /\ \A n \in Nat : x <= n /\ Has(Pipe[s], p, Given(p), n, Len(Pipe[s]) + 1)
                              => Has(Tail(Pipe[s]), p, Given(p) + 1, n, Len(Tail(Pipe[s])) + 1)
      BY <1>3, <2>2, <2>3, <3>1, PopChain DEF x
    <3>3. ASSUME made[p].sock = s, s \notin tab'.closed
          PROVE  Has(Tail(Pipe[s]), p, Given(p) + 1, made[p].n, Len(Tail(Pipe[s])) + 1)
      <4>1. Making(p) /\ made[p].n \in Nat /\ s \notin tab.closed
        BY <3>3, StreamingAssumption DEF Making, Frame, Types, JobInv
      <4>2. x <= made[p].n
        BY <1>3, <4>1 DEF PromptInv, PacketsOf, x
      <4> QED
        BY <2>3, <3>2, <3>3, <4>1, <4>2
    <3> QED
      BY <2>1, <2>5, <3>1, <3>2, <3>3
  <2> QED
    BY <2>4, <2>5
<1>17. ASSUME p \notin torn PROVE WholeOf(p)'
  <2>1. \A i \in 1 .. Len(wire'[p]) : wire'[p][i].type = "token"
    <3>1. CASE wire'[p] = wire[p]
      BY <1>7, <3>1
    <3>2. CASE wire'[p] # wire[p]
      <4>1. \A i \in 1 .. Len(wire'[p]) : i \in 1 .. Len(wire[p]) \/ i = Len(wire[p]) + 1
        BY <1>6, <1>8, <3>2
      <4> QED
        BY <1>7, <1>8, <1>9, <3>2, <4>1
    <3> QED
      BY <3>1, <3>2
  <2> QED
    BY <1>7, <2>1 DEF WholeOf
<1> QED
  BY <1>1, <1>12, <1>14, <1>15, <1>16, <1>17 DEF PromptInv

\* The next token of p is made; a closed socket transmits it to nobody.
LEMMA PushKeeps ==
    ASSUME NEW p \in Prompt, Frame, PromptInv(p), NEW s \in Socket, made[p].sock = s,
           NEW event \in {"token", "done", "error"},
           NEW x \in Packet,
           x = IF event = "token" THEN [type |-> event, p |-> p, n |-> made[p].n + 1]
               ELSE [type |-> event, p |-> p],
           \/ OnlyAt(s, Append(Pipe[s], x)) /\ s \notin tab.closed
           \/ Pipe' = Pipe /\ s \in tab.closed,
           event = "token" => made[p].n < Size[p] /\ made'[p] = [made[p] EXCEPT !.n = @ + 1],
           event # "token" => made'[p] = NotMade,
           event = "done" => made[p].n = Size[p],
           CallerKept(p), job'[p] = job[p]
    PROVE  PromptInv(p)'
<1> DEFINE q == Pipe[s]
           r == Pipe'[s]
           m == made[p].n
<1>1. /\ Making(p) /\ m \in Nat /\ m <= Size[p] /\ Size[p] \in Nat /\ q \in Seq(Packet)
      /\ job[p].state \in {"assigned", "over"}
  <2>1. Making(p) /\ m \in Nat
    BY StreamingAssumption DEF Making, Frame, Types, JobInv
  <2> QED
    BY <2>1, StreamingAssumption DEF PromptInv, PacketsOf, Frame, PipeIs
<1>2. /\ event = "token" => made'[p].sock = s /\ made'[p].n = m + 1 /\ Making(p)'
      /\ event # "token" => made'[p].sock = NoSocket /\ ~Making(p)'
  <2>1. made[p] \in [sock : Socket \cup {NoSocket}, n : Nat]
    BY DEF Frame, Types, JobInv
  <2>2. event = "token" => made'[p].sock = s /\ made'[p].n = m + 1
    BY <2>1
  <2> QED
    BY <2>2, StreamingAssumption DEF Making, NotMade
<1>3. x.type = event /\ x.p = p /\ IsOf(x, p) /\ (event = "token" => x.n = m + 1)
  BY DEF IsOf
<1>4. /\ \A t \in Socket : t # s => Of(Pipe[t], p) = {} /\ Pipe'[t] = Pipe[t]
      /\ \A t \in Socket : t # s => Tokens(Pipe[t], p) = {}
      /\ InOrder(q, p) /\ Of(q, p) = Tokens(q, p)
      /\ \A i \in Tokens(q, p) : q[i].n \in 1 .. Size[p] /\ q[i].n <= m
  <2>1. \A t \in Socket : Of(Pipe[t], p) # {} => t = s /\ Of(Pipe[t], p) = Tokens(Pipe[t], p)
    BY <1>1 DEF PromptInv, PacketsOf
  <2>2. InOrder(q, p) /\ \A i \in Tokens(q, p) : q[i].n \in 1 .. Size[p] /\ q[i].n <= m
    BY <1>1 DEF PromptInv, PacketsOf
  <2>3. \A t \in Socket : t # s => Of(Pipe[t], p) = {} /\ Pipe'[t] = Pipe[t]
    BY <2>1 DEF OnlyAt
  <2>4. Of(q, p) = Tokens(q, p) /\ \A t \in Socket : t # s => Tokens(Pipe[t], p) = {}
    BY <2>1, <2>3 DEF Tokens
  <2> QED
    BY <2>2, <2>3, <2>4
\* What the pipe holds now.
<1>5. \/ r = q /\ s \in tab.closed
      \/ /\ s \notin tab.closed
         /\ Of(r, p) = Of(q, p) \cup {Len(q) + 1} /\ Len(q) \in Nat /\ Len(r) = Len(q) + 1
         /\ r[Len(q) + 1] = x
         /\ \A i \in Of(q, p) : i \in Nat /\ i < Len(q) + 1 /\ r[i] = q[i]
  <2>1. CASE OnlyAt(s, Append(q, x))
    <3>1. r = Append(q, x)
      BY <2>1 DEF OnlyAt
    <3>2. /\ Of(Append(q, x), p) = Of(q, p) \cup {Len(q) + 1} /\ Len(q) \in Nat
          /\ Len(Append(q, x)) = Len(q) + 1 /\ Append(q, x)[Len(q) + 1] = x
      BY <1>1, <1>3, AppendAt
    <3>3. \A i \in Of(q, p) : i \in Nat /\ i < Len(q) + 1 /\ Append(q, x)[i] = q[i]
      <4>1. Len(q) \in Nat /\ \A i \in 1 .. Len(q) : Append(q, x)[i] = q[i]
        BY <1>1, AppendAt
      <4> QED
        BY <4>1 DEF Of
    <3> QED
      BY <3>1, <3>2, <3>3
  <2>2. CASE Pipe' = Pipe /\ s \in tab.closed
    BY <2>2
  <2> QED
    BY <2>1, <2>2
<1> HIDE DEF q, r, m
<1>6. /\ \A i \in Of(r, p) : \/ i \in Of(q, p) /\ i \in Tokens(q, p) /\ r[i] = q[i] /\ q[i].type = "token"
                             \/ i = Len(q) + 1 /\ r[i] = x /\ \A j \in Of(q, p) : ~ (i < j)
      /\ \A i \in Tokens(r, p) : i \in Of(r, p) /\ r[i].type = "token"
  <2>1. \A i \in Of(q, p) : i \in Tokens(q, p) /\ q[i].type = "token"
    BY <1>4 DEF Tokens
  <2> QED
    BY <1>5, <2>1 DEF Tokens
<1>7. InOrder(r, p)
  <2>1. CASE r = q
    BY <1>4, <2>1
  <2>2. CASE r # q
    <3> SUFFICES ASSUME NEW i \in Of(r, p), NEW j \in Of(r, p), i < j
                 PROVE  r[i].type = "token" /\ (r[j].type = "token" => r[i].n < r[j].n)
      BY DEF InOrder
    <3>1. i \in Of(q, p) /\ i \in Tokens(q, p) /\ r[i] = q[i] /\ q[i].type = "token"
      BY <1>5, <1>6, <2>2
    <3>2. CASE j \in Of(q, p)
      BY <1>4, <1>5, <2>2, <3>1, <3>2 DEF InOrder
    <3>3. CASE j = Len(q) + 1
      <4>1. r[j] = x
        BY <1>5, <2>2, <3>3
      <4>2. event = "token" => r[i].n < m + 1
        BY <1>1, <1>4, <3>1
      <4> QED
        BY <1>3, <3>1, <4>1, <4>2
    <3> QED
      BY <1>6, <3>2, <3>3
  <2> QED
    BY <2>1, <2>2
<1>8. ASSUME NEW i \in Tokens(r, p)
      PROVE  \/ i \in Tokens(q, p) /\ r[i] = q[i]
             \/ event = "token" /\ r[i].n = m + 1
  BY <1>3, <1>6
<1>9. PacketsOf(p)'
  <2>1. Making(p)' => job'[p].state \in {"assigned", "over"} /\ made'[p].n <= Size[p]
    BY <1>1, <1>2 DEF m
  <2>2. ASSUME NEW i \in Tokens(r, p)
        PROVE  r[i].n \in 1 .. Size[p] /\ (Making(p)' => r[i].n <= made'[p].n)
    <3>1. CASE i \in Tokens(q, p) /\ r[i] = q[i]
      BY <1>1, <1>2, <1>4, <3>1
    <3>2. CASE event = "token" /\ r[i].n = m + 1
      BY <1>1, <1>2, <3>2 DEF m
    <3> QED
      BY <1>8, <3>1, <3>2
  <2>3. \A t \in Socket : t # s => Of(Pipe'[t], p) = {} /\ Tokens(Pipe'[t], p) = {}
    BY <1>4 DEF Tokens
  <2>4. Making(p)' => Of(r, p) = Tokens(r, p)
    BY <1>2, <1>3, <1>6 DEF Tokens
  <2>5. ASSUME NEW t \in Socket
        PROVE  /\ InOrder(Pipe'[t], p)
               /\ \A i \in Tokens(Pipe'[t], p) :
                    /\ Pipe'[t][i].n \in 1 .. Size[p]
                    /\ Making(p)' => Pipe'[t][i].n <= made'[p].n
               /\ Of(Pipe'[t], p) # {} =>
                    /\ job'[p].state \in {"assigned", "over"}
                    /\ \A u \in Socket : Of(Pipe'[u], p) # {} => u = t
                    /\ Making(p)' => made'[p].sock = t /\ Of(Pipe'[t], p) = Tokens(Pipe'[t], p)
    <3>1. CASE t = s
      BY <1>1, <1>2, <1>7, <2>2, <2>3, <2>4, <3>1 DEF r
    <3>2. CASE t # s
      BY <2>3, <3>2 DEF InOrder
    <3> QED
      BY <3>1, <3>2
  <2> QED
    BY <2>1, <2>5 DEF PacketsOf
<1>10. Active(p)' <=> Active(p)
  BY DEF Active
<1>11. CallerOf(p)'
  BY <1>10 DEF PromptInv, CallerOf, CallerKept
<1>12. Ahead(p)'
  <2> SUFFICES ASSUME Active(p)
               PROVE  /\ \A t \in Socket : \A i \in Tokens(Pipe'[t], p) :
                           After(Pipe'[t][i].n, shown[p], wire[p], gathered[p])
                      /\ Making(p)' => After(made'[p].n + 1, shown[p], wire[p], gathered[p])
    BY <1>10 DEF Ahead, Later, CallerKept
  <2>1. /\ \A i \in Tokens(q, p) : After(q[i].n, shown[p], wire[p], gathered[p])
        /\ After(m + 1, shown[p], wire[p], gathered[p])
    BY <1>1 DEF PromptInv, Ahead, Later, q, m
  <2>2. After(m + 1 + 1, shown[p], wire[p], gathered[p])
    <3>1. /\ \A i \in 1 .. Len(shown[p]) : shown[p][i] \in Nat
          /\ \A i \in 1 .. Len(gathered[p]) : gathered[p][i] \in Nat
          /\ \A i \in 1 .. Len(wire[p]) : wire[p][i].type = "token" => wire[p][i].n \in Nat
      BY CallerShapes, EventFields DEF Frame, Types
    <3> QED
      BY <1>1, <2>1, <3>1 DEF After
  <2>3. ASSUME NEW t \in Socket, NEW i \in Tokens(Pipe'[t], p)
        PROVE  After(Pipe'[t][i].n, shown[p], wire[p], gathered[p])
    <3>1. t = s
      BY <1>4 DEF Tokens
    <3> QED
      BY <1>8, <2>1, <3>1 DEF r
  <2> QED
    BY <1>2, <2>2, <2>3
<1>13. p \notin torn' => p \notin torn
  BY DEF Frame
<1>14. ASSUME p \notin torn PROVE Unbroken(p)'
  <2> DEFINE g == Given(p)
  <2>1. Given(p)' = g
    BY DEF Given, CallerKept
  <2> SUFFICES ASSUME Active(p), Way[p] = "json" \/ p \notin cut, NEW t \in Socket
               PROVE  /\ Chain(Pipe'[t], p, g)
                      /\ made'[p].sock = t /\ t \notin tab'.closed =>
                           Has(Pipe'[t], p, g, made'[p].n, Len(Pipe'[t]) + 1)
    BY <1>10, <2>1 DEF Unbroken, CallerKept
  <2>2. Chain(q, p, g) /\ (s \notin tab.closed => Has(q, p, g, m, Len(q) + 1))
    BY <1>14 DEF PromptInv, Unbroken, q, m
  <2> HIDE DEF g
  <2>3. CASE t # s
    <3>1. Of(Pipe'[t], p) = {}
      BY <1>4, <2>3
    <3>2. made'[p].sock # t
      BY <1>2, <2>3, StreamingAssumption
    <3> QED
      BY <3>1, <3>2 DEF Chain
  <2>4. CASE t = s /\ s \in tab.closed
    <3>1. s \in tab'.closed /\ r = q
      BY <1>5, <2>4 DEF Frame
    <3> QED
      BY <2>2, <2>4, <3>1 DEF r
  <2>5. CASE t = s /\ s \notin tab.closed
    <3>1. /\ Of(r, p) = Of(q, p) \cup {Len(q) + 1} /\ Len(q) \in Nat /\ Len(r) = Len(q) + 1
          /\ r[Len(q) + 1] = x
          /\ \A i \in Of(q, p) : i \in Nat /\ i < Len(q) + 1 /\ r[i] = q[i]
      BY <1>5, <2>5
    <3>2. Tokens(q, p) \subseteq Tokens(r, p) /\ \A j \in Tokens(q, p) : j \in Of(q, p)
      BY <3>1 DEF Tokens
    <3>3. ASSUME NEW n, NEW k, Has(q, p, g, n, k) PROVE Has(r, p, g, n, k)
      BY <3>1, <3>2, <3>3 DEF Has
    <3>4. Chain(r, p, g)
      <4> SUFFICES ASSUME NEW i \in Of(r, p), r[i].type # "error"
                   PROVE  Has(r, p, g, Before(r, p, i), i)
        BY DEF Chain
      <4>1. CASE i \in Of(q, p)
        <5>1. Before(r, p, i) = Before(q, p, i) /\ q[i].type # "error"
          BY <3>1, <4>1 DEF Before
        <5> QED
          BY <2>2, <3>3, <4>1, <5>1 DEF Chain
      <4>2. CASE i = Len(q) + 1
        <5>1. r[i] = x /\ event \in {"token", "done"}
          BY <1>3, <3>1, <4>2
        <5>2. Before(r, p, i) = m
          <6>1. CASE event = "token"
            BY <1>1, <1>3, <5>1, <6>1 DEF Before
          <6>2. CASE event = "done"
            BY <1>3, <5>1, <6>2 DEF Before, m
          <6> QED
            BY <5>1, <6>1, <6>2
        <5> QED
          BY <2>2, <2>5, <3>3, <4>2, <5>2
      <4> QED
        BY <3>1, <4>1, <4>2
    <3>5. ASSUME made'[p].sock = s
          PROVE  Has(r, p, g, made'[p].n, Len(r) + 1)
      <4>1. event = "token" /\ made'[p].n = m + 1
        BY <1>2, <3>5, StreamingAssumption
      <4>2. Len(q) + 1 \in Tokens(r, p) /\ r[Len(q) + 1].n = m + 1 /\ Len(q) + 1 < Len(r) + 1
        BY <1>3, <3>1, <4>1 DEF Tokens
      <4> QED
        BY <4>1, <4>2 DEF Has
    <3> QED
      BY <2>5, <3>4, <3>5 DEF r
  <2> QED
    BY <2>3, <2>4, <2>5
<1>15. p \notin torn => WholeOf(p)'
  BY DEF PromptInv, WholeOf, CallerKept
<1> QED
  BY <1>9, <1>11, <1>12, <1>13, <1>14, <1>15 DEF PromptInv

\* What is under way of a socket is lost.
LEMMA LoseKeeps ==
    ASSUME NEW p \in Prompt, Frame, PromptInv(p), NEW s \in Socket, OnlyAt(s, <<>>),
           Tokens(Pipe[s], p) = {} \/ p \in torn',
           CallerKept(p), made'[p] = made[p], job'[p] = job[p]
    PROVE  PromptInv(p)'
<1>1. /\ Pipe'[s] = <<>> /\ Of(Pipe'[s], p) = {} /\ Tokens(Pipe'[s], p) = {}
      /\ Len(Pipe'[s]) = 0
      /\ \A t \in Socket : t # s => Pipe'[t] = Pipe[t]
  <2>1. Len(<<>>) = 0
    BY EmptySeq
  <2>2. Of(<<>>, p) = {}
    BY <2>1 DEF Of
  <2> QED
    BY <2>1, <2>2 DEF Tokens, OnlyAt
<1>2. (Active(p)' <=> Active(p)) /\ (Making(p)' <=> Making(p)) /\ Given(p)' = Given(p)
  BY DEF Active, Making, Given, CallerKept
<1>3. PacketsOf(p)'
  <2>1. Making(p) => job[p].state \in {"assigned", "over"} /\ made[p].n <= Size[p]
    BY DEF PromptInv, PacketsOf
  <2>2. ASSUME NEW t \in Socket
        PROVE  /\ InOrder(Pipe'[t], p)
               /\ \A i \in Tokens(Pipe'[t], p) :
                    /\ Pipe'[t][i].n \in 1 .. Size[p]
                    /\ Making(p) => Pipe'[t][i].n <= made[p].n
               /\ Of(Pipe'[t], p) # {} =>
                    /\ job[p].state \in {"assigned", "over"}
                    /\ \A u \in Socket : Of(Pipe'[u], p) # {} => u = t
                    /\ Making(p) => made[p].sock = t /\ Of(Pipe'[t], p) = Tokens(Pipe'[t], p)
    <3>1. CASE t = s
      BY <1>1, <3>1 DEF InOrder
    <3>2. CASE t # s
      <4>1. Pipe'[t] = Pipe[t] /\ \A u \in Socket : Of(Pipe'[u], p) # {} => Of(Pipe[u], p) # {}
        BY <1>1, <3>2
      <4> QED
        BY <4>1 DEF PromptInv, PacketsOf
    <3> QED
      BY <3>1, <3>2
  <2> QED
    BY <1>2, <2>1, <2>2 DEF PacketsOf
<1>4. CallerOf(p)'
  BY <1>2 DEF PromptInv, CallerOf, CallerKept
<1>5. Ahead(p)'
  <2> SUFFICES ASSUME Active(p)
               PROVE  /\ \A t \in Socket : \A i \in Tokens(Pipe'[t], p) :
                           After(Pipe'[t][i].n, shown[p], wire[p], gathered[p])
                      /\ Making(p) => After(made[p].n + 1, shown[p], wire[p], gathered[p])
    BY <1>2 DEF Ahead, Later, CallerKept
  <2>1. \A t \in Socket : \A i \in Tokens(Pipe'[t], p) : i \in Tokens(Pipe[t], p) /\ Pipe'[t] = Pipe[t]
    BY <1>1
  <2> QED
    BY <2>1 DEF PromptInv, Ahead, Later
<1>6. p \notin torn' => p \notin torn
  BY DEF Frame
<1>7. ASSUME p \notin torn, Tokens(Pipe[s], p) = {} PROVE Unbroken(p)'
  <2> DEFINE g == Given(p)
  <2> SUFFICES ASSUME Active(p), Way[p] = "json" \/ p \notin cut, NEW t \in Socket
               PROVE  /\ Chain(Pipe'[t], p, g)
                      /\ made[p].sock = t /\ t \notin tab'.closed =>
                           Has(Pipe'[t], p, g, made[p].n, Len(Pipe'[t]) + 1)
    BY <1>2 DEF Unbroken, CallerKept
  <2>1. Chain(Pipe[t], p, g) /\ (made[p].sock = t /\ t \notin tab'.closed =>
           Has(Pipe[t], p, g, made[p].n, Len(Pipe[t]) + 1))
    BY <1>7 DEF PromptInv, Unbroken, Frame
  <2> HIDE DEF g
  <2>2. CASE t = s
    <3>1. Chain(Pipe'[t], p, g)
      BY <1>1, <2>2 DEF Chain
    <3> QED
      BY <1>7, <2>1, <2>2, <3>1 DEF Has
  <2>3. CASE t # s
    BY <1>1, <2>1, <2>3
  <2> QED
    BY <2>2, <2>3
<1>8. p \notin torn => WholeOf(p)'
  BY DEF PromptInv, WholeOf, CallerKept
<1> QED
  BY <1>3, <1>4, <1>5, <1>6, <1>7, <1>8 DEF PromptInv

\* The caller gets what it was sent next.
LEMMA ShowKeeps ==
    ASSUME NEW p \in Prompt, Frame, PromptInv(p), PipesCarry(p), wire[p] # <<>>,
           wire'[p] = Tail(wire[p]),
           shown'[p] = IF Head(wire[p]).type = "token" THEN Append(shown[p], Head(wire[p]).n)
                       ELSE IF "content" \in DOMAIN Head(wire[p]) THEN Head(wire[p]).content
                       ELSE shown[p],
           said'[p] = IF Head(wire[p]).type = "token" THEN said[p] ELSE Head(wire[p]).type,
           UNCHANGED <<job, made, gathered, cut>>
    PROVE  PromptInv(p)'
<1> DEFINE w == wire[p]
           v == wire'[p]
           e == w[1]
<1>1. PacketsOf(p)'
  BY PacketsCarry DEF PromptInv
<1>2. (Active(p)' <=> Active(p)) /\ (Making(p)' <=> Making(p))
  BY DEF Active, Making
<1>3. /\ shown[p] \in Seq(Nat) /\ gathered[p] \in Seq(Nat) /\ w \in Seq(Event)
      /\ Len(w) \in Nat /\ Len(shown[p]) \in Nat /\ Len(gathered[p]) \in Nat
      /\ \A i \in 1 .. Len(shown[p]) : shown[p][i] \in Nat
      /\ \A i \in 1 .. Len(w) : w[i] \in Event
  BY CallerShapes DEF Frame, Types
<1>4. /\ Head(w) = e /\ Len(w) >= 1 /\ Len(v) = Len(w) - 1 /\ 1 \in 1 .. Len(w) /\ e \in Event
      /\ \A i \in 1 .. Len(v) : v[i] = w[i + 1] /\ i \in Nat /\ i + 1 \in 1 .. Len(w) /\ i >= 1
  <2>1. /\ Head(w) = w[1] /\ Len(w) # 0 /\ Len(v) = Len(w) - 1
        /\ \A i \in 1 .. Len(w) - 1 : Tail(w)[i] = w[i + 1]
    BY <1>3, HeadTailProperties, EmptySeq
  <2>2. Len(w) >= 1 /\ 1 \in 1 .. Len(w)
    BY <1>3, <2>1
  <2>3. \A i \in 1 .. Len(w) - 1 : i \in Nat /\ i + 1 \in 1 .. Len(w) /\ i >= 1
    BY <1>3
  <2> QED
    BY <1>3, <2>1, <2>2, <2>3
<1>5. /\ said[p] \notin {"none", "done", "error"} /\ said[p] = "waiting" /\ p \notin cut
      /\ e.type # "token" => Len(w) = 1 /\ ~Active(p)
      /\ e.type = "token" => Way[p] # "json" /\ e.n \in Nat
      /\ e.type \in {"token", "done", "error"}
      /\ "content" \in DOMAIN e =>
           /\ e.type = "done" /\ Way[p] = "json" /\ Rising(e.content) /\ e.content \in Seq(Nat)
      /\ e.type = "done" /\ Way[p] = "json" => "content" \in DOMAIN e
      /\ job[p].state # "queued" /\ (e.type # "error" => job[p].state # "none")
  <2>1. said[p] \in {"none", "waiting", "done", "error"}
    BY DEF Frame, Types, CallerTypes
  <2>2. said[p] \notin {"none", "done", "error"} /\ p \notin cut
    BY DEF PromptInv, CallerOf
  <2>3. /\ e.type # "token" => Len(w) = 1 /\ ~Active(p)
        /\ e.type = "token" => Way[p] # "json"
        /\ "content" \in DOMAIN e => e.type = "done" /\ Way[p] = "json" /\ Rising(e.content)
        /\ e.type = "done" /\ Way[p] = "json" => "content" \in DOMAIN e
        /\ job[p].state # "queued" /\ (e.type # "error" => job[p].state # "none")
    BY <1>4 DEF PromptInv, CallerOf
  <2>4. /\ e.type \in {"token", "done", "error"} /\ (e.type = "token" => e.n \in Nat)
        /\ "content" \in DOMAIN e => e.content \in Seq(Nat)
    BY <1>4, EventFields
  <2> QED
    BY <2>1, <2>2, <2>3, <2>4
<1>6. /\ shown'[p] = IF e.type = "token" THEN Append(shown[p], e.n)
                     ELSE IF "content" \in DOMAIN e THEN e.content ELSE shown[p]
      /\ said'[p] = IF e.type = "token" THEN said[p] ELSE e.type
  BY <1>4
<1> HIDE DEF v, w, e
<1>7. p \notin torn' => p \notin torn
  BY DEF Frame
<1>8. CASE e.type = "token"
  <2> DEFINE t == shown'[p]
             n == Len(shown[p])
  <2>1. said'[p] = "waiting" /\ Way[p] # "json" /\ job[p].state \notin {"none", "queued"} /\ e.n \in Nat
    BY <1>5, <1>6, <1>8
  <2>2. /\ Len(t) = n + 1 /\ t[n + 1] = e.n /\ n \in Nat
        /\ \A i \in 1 .. n : t[i] = shown[p][i]
        /\ \A i \in 1 .. Len(t) : i \in 1 .. n \/ i = n + 1
    <3>1. t = Append(shown[p], e.n)
      BY <1>6, <1>8
    <3>2. /\ Len(Append(shown[p], e.n)) = n + 1 /\ Append(shown[p], e.n)[n + 1] = e.n
          /\ \A i \in 1 .. n : Append(shown[p], e.n)[i] = shown[p][i]
      BY <1>3, <2>1, AppendProperties
    <3>3. n \in Nat /\ \A i \in 1 .. n + 1 : i \in 1 .. n \/ i = n + 1
      BY <1>3
    <3> QED
      BY <3>1, <3>2, <3>3
  <2>3. /\ Rising(shown[p])
        /\ \A i, j \in 1 .. Len(w) : i < j /\ w[j].type = "token" => w[i].n < w[j].n
        /\ \A i \in 1 .. n, j \in 1 .. Len(w) : w[j].type = "token" => shown[p][i] < w[j].n
    BY DEF PromptInv, CallerOf, w
  <2> HIDE DEF t, n
  <2>4. Rising(t)
    <3> SUFFICES ASSUME NEW i \in 1 .. Len(t), NEW j \in 1 .. Len(t), i < j PROVE t[i] < t[j]
      BY DEF Rising
    <3>1. i \in 1 .. n
      BY <2>2
    <3>2. CASE j \in 1 .. n
      BY <2>2, <2>3, <3>1, <3>2 DEF Rising, n
    <3>3. CASE j = n + 1
      BY <1>4, <1>8, <2>2, <2>3, <3>1, <3>3 DEF e
    <3> QED
      BY <2>2, <3>2, <3>3
  <2>5. ASSUME NEW i \in 1 .. Len(t), NEW j \in 1 .. Len(v), v[j].type = "token"
        PROVE  t[i] < v[j].n
    <3>1. v[j] = w[j + 1] /\ j + 1 \in 1 .. Len(w) /\ 1 < j + 1
      BY <1>4
    <3>2. CASE i \in 1 .. n
      BY <2>2, <2>3, <2>5, <3>1, <3>2
    <3>3. CASE i = n + 1
      BY <1>4, <2>2, <2>3, <2>5, <3>1, <3>3 DEF e
    <3> QED
      BY <2>2, <3>2, <3>3
  <2>6. ASSUME NEW i \in 1 .. Len(v), NEW j \in 1 .. Len(v), i < j, v[j].type = "token"
        PROVE  v[i].n < v[j].n
    BY <1>4, <2>3, <2>6
  <2>7. \A i \in 1 .. Len(v) :
          /\ v[i].type # "token" => i = Len(v) /\ ~Active(p)
          /\ v[i].type = "token" => Way[p] # "json"
          /\ v[i].type # "error" => job[p].state # "none"
          /\ v[i].type = "done" /\ Way[p] = "json" => "content" \in DOMAIN v[i]
          /\ "content" \in DOMAIN v[i] =>
               v[i].type = "done" /\ Way[p] = "json" /\ Rising(v[i].content)
    <3>1. \A i \in 1 .. Len(w) :
            /\ w[i].type # "token" => i = Len(w) /\ ~Active(p)
            /\ w[i].type = "token" => Way[p] # "json"
            /\ w[i].type # "error" => job[p].state # "none"
            /\ w[i].type = "done" /\ Way[p] = "json" => "content" \in DOMAIN w[i]
            /\ "content" \in DOMAIN w[i] =>
                 w[i].type = "done" /\ Way[p] = "json" /\ Rising(w[i].content)
      BY DEF PromptInv, CallerOf, w
    <3>2. \A i \in 1 .. Len(v) : i + 1 = Len(w) => i = Len(v)
      BY <1>3, <1>4
    <3> QED
      BY <1>4, <3>1, <3>2
  <2>8. CallerOf(p)'
    <3>1. Active(p) => said[p] = "waiting"
      BY <1>5
    <3>2. Rising(gathered[p])
      BY DEF PromptInv, CallerOf
    <3> QED
      BY <1>2, <1>5, <2>1, <2>4, <2>5, <2>6, <2>7, <3>2 DEF CallerOf, t, v
  <2>9. ASSUME NEW x, After(x, shown[p], w, gathered[p]) PROVE After(x, t, v, gathered[p])
    <3>1. \A i \in 1 .. Len(t) : t[i] < x
      BY <1>4, <1>8, <2>2, <2>9 DEF After, e, n
    <3>2. \A i \in 1 .. Len(v) : v[i].type = "token" => v[i].n < x
      BY <1>4, <2>9 DEF After
    <3> QED
      BY <2>9, <3>1, <3>2 DEF After
  <2>10. Ahead(p)'
    <3>1. \A s \in Socket : \A i \in Tokens(Pipe'[s], p) : \E j \in Tokens(Pipe[s], p) : Pipe'[s][i] = Pipe[s][j]
      BY DEF PipesCarry, Carries
    <3> SUFFICES ASSUME Active(p)
                 PROVE  /\ \A s \in Socket : \A i \in Tokens(Pipe'[s], p) :
                             After(Pipe'[s][i].n, t, v, gathered[p])
                        /\ Making(p) => After(made[p].n + 1, t, v, gathered[p])
      BY <1>2 DEF Ahead, Later, t, v
    <3> QED
      BY <2>9, <3>1 DEF PromptInv, Ahead, Later, w
  <2>11. ASSUME p \notin torn PROVE Unbroken(p)'
    <3>1. Given(p)' = Given(p)
      <4>1. Given(p) = n + Len(w) /\ Given(p)' = Len(t) + Len(v)
        BY <2>1 DEF Given, n, w, t, v
      <4>2. (n + 1) + (Len(w) - 1) = n + Len(w)
        <5>1. n \in Nat /\ Len(w) \in Nat
          BY <1>3, <2>2
        <5> QED
          BY <5>1
      <4> QED
        BY <1>4, <2>2, <4>1, <4>2
    <3> SUFFICES ASSUME Active(p), NEW s \in Socket
                 PROVE  /\ Chain(Pipe'[s], p, Given(p))
                        /\ made[p].sock = s /\ s \notin tab'.closed =>
                             Has(Pipe'[s], p, Given(p), made[p].n, Len(Pipe'[s]) + 1)
      BY <1>2, <3>1 DEF Unbroken
    <3>2. /\ Chain(Pipe[s], p, Given(p))
          /\ made[p].sock = s /\ s \notin tab'.closed =>
               Has(Pipe[s], p, Given(p), made[p].n, Len(Pipe[s]) + 1)
      BY <1>5, <2>11 DEF PromptInv, Unbroken, Frame
    <3> QED
      BY <3>2 DEF PipesCarry, Carries
  <2>12. ASSUME p \notin torn PROVE WholeOf(p)'
    <3> SUFFICES ASSUME NEW i \in 1 .. Len(v), v[i].type = "done"
                 PROVE  Len(t) + i - 1 = Size[p]
      BY <2>1 DEF WholeOf, t, v
    <3>1. n + (i + 1) - 1 = Size[p]
      BY <1>4, <2>1, <2>12 DEF PromptInv, WholeOf, w, n
    <3>2. Len(t) + i - 1 = n + (i + 1) - 1
      BY <1>4, <2>2
    <3> QED
      BY <3>1, <3>2
  <2> QED
    BY <1>1, <1>7, <2>8, <2>10, <2>11, <2>12 DEF PromptInv
<1>9. CASE e.type # "token"
  <2>1. /\ Len(w) = 1 /\ ~Active(p) /\ ~Active(p)' /\ v = <<>>
        /\ \A i \in 1 .. Len(v) : FALSE
    <3>1. Len(w) = 1 /\ Len(v) = 0
      BY <1>4, <1>5, <1>9
    <3>2. v \in Seq(Event)
      BY DEF Frame, Types, CallerTypes, v
    <3>3. \A i \in 1 .. Len(v) : FALSE
      BY <3>1
    <3> QED
      BY <1>2, <1>5, <1>9, <3>1, <3>2, <3>3, EmptySeq
  <2>2. said'[p] = e.type /\ said'[p] \in {"done", "error"}
    BY <1>5, <1>6, <1>9
  <2>3. shown'[p] = IF "content" \in DOMAIN e THEN e.content ELSE shown[p]
    BY <1>6, <1>9
  <2>4. CallerOf(p)'
    <3>1. Rising(shown'[p]) /\ Rising(gathered[p])
      BY <1>5, <2>3 DEF PromptInv, CallerOf
    <3>2. Way[p] = "json" /\ said'[p] # "done" => shown'[p] = <<>>
      <4>1. Way[p] = "json" => shown[p] = <<>>
        BY <1>5 DEF PromptInv, CallerOf
      <4> QED
        BY <1>5, <2>2, <2>3, <4>1
    <3>3. job[p].state \in {"none", "queued"} => shown'[p] = <<>> /\ gathered[p] = <<>>
      BY <1>5, <2>3 DEF PromptInv, CallerOf
    <3> QED
      BY <1>5, <2>1, <2>2, <3>1, <3>2, <3>3 DEF CallerOf, v
  <2>5. Ahead(p)' /\ Unbroken(p)'
    BY <2>1 DEF Ahead, Unbroken
  <2>6. ASSUME p \notin torn PROVE WholeOf(p)'
    <3>1. e.type = "done" => IF Way[p] = "json" THEN Len(e.content) = Size[p]
                             ELSE Len(shown[p]) + 1 - 1 = Size[p]
      BY <1>4, <2>6 DEF PromptInv, WholeOf, w, e
    <3>2. e.type = "done" => Len(shown'[p]) = Size[p]
      <4>1. Len(shown[p]) + 1 - 1 = Len(shown[p])
        <5>1. Len(shown[p]) \in Nat
          BY <1>3
        <5> QED
          BY <5>1
      <4> QED
        BY <1>5, <2>3, <3>1, <4>1
    <3> QED
      BY <2>1, <2>2, <3>2 DEF WholeOf, v
  <2> QED
    BY <1>1, <1>7, <2>4, <2>5, <2>6 DEF PromptInv
<1> QED
  BY <1>8, <1>9

-----------------------------------------------------------------------------
(***************************************************************************)
(* Every step is one of these to every prompt.                             *)
(***************************************************************************)
AnswersInv == Types /\ \A p \in Prompt : PromptInv(p)

LEMMA Framed ==
    ASSUME Types, Types', tab.closed \subseteq tab'.closed, torn \subseteq torn'
    PROVE  Frame
BY PipeAt, PipeAtNext DEF Frame, Types

LEMMA SamePipes ==
    ASSUME Frame, Pipe' = Pipe, NEW p
    PROVE  PipesCarry(p)
BY SameCarries DEF Frame, PipeIs, PipesCarry

LEMMA PushedPipes ==
    ASSUME Frame, NEW s \in Socket, NEW x \in Packet, OnlyAt(s, Append(Pipe[s], x)),
           NEW p, ~IsOf(x, p)
    PROVE  PipesCarry(p)
<1> SUFFICES ASSUME NEW t \in Socket PROVE Carries(Pipe[t], Pipe'[t], p)
  BY DEF PipesCarry
<1>1. Pipe[t] \in Seq(Packet)
  BY DEF Frame, PipeIs
<1>2. CASE t = s
  BY <1>1, <1>2, AppendCarries DEF OnlyAt
<1>3. CASE t # s
  BY <1>1, <1>3, SameCarries DEF OnlyAt
<1> QED
  BY <1>2, <1>3

LEMMA PoppedPipes ==
    ASSUME Frame, NEW s \in Socket, OnlyAt(s, Tail(Pipe[s])), Pipe[s] # <<>>,
           NEW p, ~IsOf(Pipe[s][1], p)
    PROVE  PipesCarry(p)
<1> SUFFICES ASSUME NEW t \in Socket PROVE Carries(Pipe[t], Pipe'[t], p)
  BY DEF PipesCarry
<1>1. Pipe[t] \in Seq(Packet)
  BY DEF Frame, PipeIs
<1>2. CASE t = s
  BY <1>1, <1>2, TailCarries DEF OnlyAt
<1>3. CASE t # s
  BY <1>1, <1>3, SameCarries DEF OnlyAt
<1> QED
  BY <1>2, <1>3

LEMMA Told ==
    ASSUME CallerTypes, NEW ended \in SUBSET Prompt, NEW event \in Event, TellAll(ended, event)
    PROVE  /\ wire' \in [Prompt -> Seq(Event)]
           /\ \A p \in Prompt : wire'[p] = IF p \in ended THEN ToCaller(p, event) ELSE wire[p]
<1>1. \A p \in Prompt : wire'[p] = IF p \in ended THEN ToCaller(p, event) ELSE wire[p]
  BY DEF TellAll
<1>2. ASSUME NEW p \in Prompt PROVE ToCaller(p, event) \in Seq(Event) /\ wire[p] \in Seq(Event)
  <2>1. wire[p] \in Seq(Event) /\ gathered[p] \in Seq(Nat)
    BY DEF CallerTypes
  <2>2. [type |-> "done", content |-> gathered[p]] \in Event
    BY <2>1 DEF Event
  <2>3. /\ Append(wire[p], event) \in Seq(Event)
        /\ Append(wire[p], [type |-> "done", content |-> gathered[p]]) \in Seq(Event)
    BY <2>1, <2>2, AppendProperties
  <2> QED
    BY <2>1, <2>3 DEF ToCaller
<1>3. wire' \in [Prompt -> Seq(Event)]
  <2>1. wire' = [p \in Prompt |-> wire'[p]]
    BY DEF TellAll
  <2>2. \A p \in Prompt : wire'[p] \in Seq(Event)
    BY <1>1, <1>2
  <2> QED
    BY <2>1, <2>2
<1> QED
  BY <1>1, <1>3

\* After a schedule: p is left as it was, or taken from the queue.
LEMMA AssignKeeps ==
    ASSUME NEW p \in Prompt, Frame, PromptInv(p), PipesCarry(p), CallerKept(p),
           NEW jobs, Assigns(jobs), jobs[p] = job[p]
    PROVE  PromptInv(p)'
<1>1. CASE job'[p] = job[p] /\ made'[p] = made[p]
  BY <1>1, RestKeeps
<1>2. CASE /\ job[p].state = "queued" /\ job'[p].state = "assigned"
           /\ made'[p] = made[p] \/ (made'[p].sock \in Socket /\ made'[p].n = 0)
  <2>1. said[p] = "waiting"
    BY <1>2 DEF PromptInv, CallerOf, Active
  <2> QED
    BY <1>2, <2>1, BeginKeeps DEF CallerKept
<1> QED
  BY <1>1, <1>2 DEF Assigns

LEMMA OverQueued ==
    ASSUME JobInv, NEW ended \in SUBSET Prompt, \A p \in ended : job[p].state # "queued"
    PROVE  /\ QueuedIn(line, Over(ended))
           /\ \A p \in Prompt : Over(ended)[p] = IF p \in ended THEN [state |-> "over", conn |-> "none"]
                                                 ELSE job[p]
<1>1. \A p \in Prompt : Over(ended)[p] = IF p \in ended THEN [state |-> "over", conn |-> "none"]
                                         ELSE job[p]
  BY DEF Over
<1>2. Over(ended) \in [Prompt -> JobType]
  <2>1. Over(ended) = [p \in Prompt |-> Over(ended)[p]]
    BY DEF Over
  <2>2. [state |-> "over", conn |-> "none"] \in JobType
    BY DEF JobType
  <2>3. \A p \in Prompt : Over(ended)[p] \in JobType
    BY <1>1, <2>2 DEF JobInv, QueuedIn
  <2> QED
    BY <2>1, <2>3
<1>3. \A i \in 1 .. Len(line) : line[i] \in Prompt /\ Over(ended)[line[i]] = job[line[i]]
  <2>1. \A i \in 1 .. Len(line) : line[i] \in Prompt /\ line[i] \notin ended
    BY ElementOfSeq DEF JobInv, QueuedIn
  <2> QED
    BY <1>1, <2>1
<1> QED
  BY <1>1, <1>2, <1>3 DEF JobInv, QueuedIn

-----------------------------------------------------------------------------
(***************************************************************************)
(* The steps of the worker and of the caller.                              *)
(***************************************************************************)
\* The engine and the callers see nothing of a step.
Unseen == UNCHANGED <<job, line, made, wire, shown, gathered, said, cut>>

LEMMA UnseenTypes ==
    ASSUME Types, LinkInv', Unseen
    PROVE  Types' /\ \A p \in Prompt : CallerKept(p)
BY DEF Types, JobInv, CallerTypes, Unseen, CallerKept

LEMMA UnseenKeeps ==
    ASSUME AnswersInv, Frame, Unseen, \A p \in Prompt : PipesCarry(p)
    PROVE  AnswersInv'
<1>1. \A p \in Prompt : CallerKept(p)
  BY UnseenTypes DEF Frame, Types
<1>2. \A p \in Prompt : PromptInv(p)'
  BY <1>1, RestKeeps DEF AnswersInv, Unseen
<1> QED
  BY <1>2 DEF AnswersInv, Frame

LEMMA StutterKeeps ==
    ASSUME AnswersInv, UNCHANGED streamVars
    PROVE  AnswersInv'
<1>1. /\ UNCHANGED <<link, up, buffer, tab, torn>> /\ Unseen
  BY DEF streamVars, workerVars, engineVars, callerVars, Unseen
<1>2. Pipe' = Pipe /\ LinkInv'
  BY <1>1, PipeSame DEF AnswersInv, Types
<1>3. Frame
  BY <1>1, <1>2, UnseenTypes, Framed DEF AnswersInv
<1> QED
  BY <1>1, <1>2, <1>3, SamePipes, UnseenKeeps

\* Loading a model touches the page alone.
LEMMA LoadKeeps ==
    ASSUME AnswersInv, Start \/ LoadFails \/ \E s \in Socket : ModelLoads(s)
    PROVE  AnswersInv'
<1>1. UNCHANGED <<link, up, buffer, torn>> /\ Unseen
  BY DEF Start, LoadFails, ModelLoads, engineVars, callerVars, Unseen
<1>2. tab \in TabType
  BY DEF AnswersInv, Types, LinkInv
<1>3. tab'.closed = tab.closed /\ tab' \in TabType
  <2>1. CASE Start
    <3>1. tab' = [tab EXCEPT !.phase = "loading", !.loads = @ + 1]
      BY <2>1 DEF Start
    <3>2. tab.loads + 1 \in Nat
      BY <1>2 DEF TabType
    <3>3. tab' = [phase |-> "loading", loads |-> tab.loads + 1, created |-> tab.created,
                  closed |-> tab.closed, ref |-> tab.ref]
      BY <1>2, <3>1 DEF TabType
    <3> QED
      BY <1>2, <3>2, <3>3 DEF TabType
  <2>2. CASE LoadFails
    <3>1. tab.loads > 0 /\ tab' = [tab EXCEPT !.loads = @ - 1, !.phase = "error"]
      BY <2>2 DEF LoadFails
    <3>2. tab.loads - 1 \in Nat
      BY <1>2, <3>1 DEF TabType
    <3>3. tab' = [phase |-> "error", loads |-> tab.loads - 1, created |-> tab.created,
                  closed |-> tab.closed, ref |-> tab.ref]
      BY <1>2, <3>1 DEF TabType
    <3> QED
      BY <1>2, <3>2, <3>3 DEF TabType
  <2>3. ASSUME NEW s \in Socket, ModelLoads(s)
        PROVE  tab'.closed = tab.closed /\ tab' \in TabType
    <3>1. /\ tab.loads > 0
          /\ tab' = [tab EXCEPT !.loads = @ - 1, !.created = @ \cup {s}, !.ref = s]
      BY <2>3 DEF ModelLoads
    <3>2. tab.created \cup {s} \in SUBSET Socket /\ tab.loads - 1 \in Nat
      BY <1>2, <3>1 DEF TabType
    <3>3. tab' = [phase |-> tab.phase, loads |-> tab.loads - 1, created |-> tab.created \cup {s},
                  closed |-> tab.closed, ref |-> s]
      BY <1>2, <3>1 DEF TabType
    <3> QED
      BY <1>2, <3>2, <3>3 DEF TabType
  <2> QED
    BY <2>1, <2>2, <2>3
<1>4. Pipe' = Pipe /\ LinkInv'
  BY <1>1, <1>3, PipeSame DEF AnswersInv, Types, LinkInv, Live
<1>5. Frame
  BY <1>1, <1>3, <1>4, UnseenTypes, Framed DEF AnswersInv
<1> QED
  BY <1>1, <1>4, <1>5, SamePipes, UnseenKeeps

LEMMA StopKeeps ==
    ASSUME AnswersInv, Stop
    PROVE  AnswersInv'
<1>1. torn' = torn /\ Unseen
  BY DEF Stop, engineVars, callerVars, Unseen
<1>2. LinkInv' /\ Pipe' = Pipe /\ tab.closed \subseteq tab'.closed
  BY StopPipes DEF AnswersInv, Types
<1>3. Frame
  BY <1>1, <1>2, UnseenTypes, Framed DEF AnswersInv
<1> QED
  BY <1>1, <1>2, <1>3, SamePipes, UnseenKeeps

LEMMA ConnectKeeps ==
    ASSUME AnswersInv, NEW s \in Socket, NEW c \in Conn, ConnectWorker(s, c)
    PROVE  AnswersInv'
<1> DEFINE register == [type |-> "register"]
<1>1. torn' = torn /\ Unseen
  BY DEF ConnectWorker, engineVars, callerVars, Unseen
<1>2. LinkInv' /\ OnlyAt(s, Append(Pipe[s], register)) /\ tab'.closed = tab.closed
  BY ConnectPipes DEF AnswersInv, Types
<1>3. Frame
  BY <1>1, <1>2, UnseenTypes, Framed DEF AnswersInv
<1>4. register \in Packet /\ \A p : ~IsOf(register, p)
  BY DEF Packet, IsOf
<1> HIDE DEF register
<1>5. \A p \in Prompt : PipesCarry(p)
  BY <1>2, <1>3, <1>4, PushedPipes
<1> QED
  BY <1>1, <1>3, <1>5, UnseenKeeps

LEMMA DropKeeps ==
    ASSUME AnswersInv, NEW c \in Conn, DropWorker(c)
    PROVE  AnswersInv'
<1>1. Unseen
  BY DEF DropWorker, engineVars, callerVars, Unseen
<1>2. LinkInv' /\ tab'.closed = tab.closed
  BY DropPipes DEF AnswersInv, Types
<1>3. PICK s \in Socket :
        /\ OnlyAt(s, <<>>)
        /\ torn' = torn \cup {Pipe[s][i].p :
                                i \in {k \in 1 .. Len(Pipe[s]) : Pipe[s][k].type = "token"}}
  BY DropPipes DEF AnswersInv, Types
<1>4. Frame
  BY <1>1, <1>2, <1>3, UnseenTypes, Framed DEF AnswersInv
<1>5. ASSUME NEW p \in Prompt PROVE PromptInv(p)'
  <2>1. CallerKept(p)
    BY <1>1, <1>4, UnseenTypes DEF Frame, Types
  <2>2. Tokens(Pipe[s], p) = {} \/ p \in torn'
    BY <1>3 DEF Tokens, Of
  <2> QED
    BY <1>1, <1>3, <1>4, <2>1, <2>2, LoseKeeps DEF AnswersInv, Unseen
<1> QED
  BY <1>4, <1>5 DEF AnswersInv, Frame

\* A step of the job of p: what it transmits is p's.
LEMMA MakeKeeps ==
    ASSUME AnswersInv, NEW p \in Prompt, made[p].sock # NoSocket,
           NEW event \in {"token", "done", "error"},
           NEW x, x = IF event = "token" THEN [type |-> event, p |-> p, n |-> made[p].n + 1]
                      ELSE [type |-> event, p |-> p],
           Transmit(made[p].sock, x),
           event = "token" => made[p].n < Size[p] /\ made' = [made EXCEPT ![p].n = @ + 1],
           event # "token" => made' = [made EXCEPT ![p] = NotMade],
           event = "done" => made[p].n = Size[p],
           UNCHANGED <<link, tab, torn, engineVars, callerVars>>
    PROVE  AnswersInv'
<1>1. made \in [Prompt -> [sock : Socket \cup {NoSocket}, n : Nat]]
  BY DEF AnswersInv, Types, JobInv
<1>2. PICK s \in Socket : s = made[p].sock
  BY <1>1
<1>3. x \in Packet /\ IsOf(x, p)
  <2>1. made[p].n + 1 \in Nat
    BY <1>1
  <2>2. CASE event = "token"
    BY <2>1, <2>2 DEF Packet, IsOf
  <2>3. CASE event # "token"
    BY <2>3 DEF Packet, IsOf
  <2> QED
    BY <2>2, <2>3
<1>4. /\ LinkInv'
      /\ \/ OnlyAt(s, Append(Pipe[s], x)) /\ s \notin tab.closed
         \/ Pipe' = Pipe /\ s \in tab.closed
  BY <1>2, <1>3, TransmitPipes DEF AnswersInv, Types
<1>5. /\ made'[p] = IF event = "token" THEN [made[p] EXCEPT !.n = @ + 1] ELSE NotMade
      /\ \A o \in Prompt : o # p => made'[o] = made[o]
      /\ made' \in [Prompt -> [sock : Socket \cup {NoSocket}, n : Nat]]
  <2>1. made[p] \in [sock : Socket \cup {NoSocket}, n : Nat]
    BY <1>1
  <2>2. [made[p] EXCEPT !.n = @ + 1] \in [sock : Socket \cup {NoSocket}, n : Nat]
    BY <2>1
  <2>3. NotMade \in [sock : Socket \cup {NoSocket}, n : Nat]
    BY DEF NotMade
  <2>4. CASE event = "token"
    BY <1>1, <2>2, <2>4
  <2>5. CASE event # "token"
    BY <1>1, <2>3, <2>5
  <2> QED
    BY <2>4, <2>5
<1>6. Types' /\ \A o \in Prompt : CallerKept(o) /\ job'[o] = job[o]
  <2>1. JobInv' /\ CallerTypes'
    BY <1>5 DEF AnswersInv, Types, JobInv, CallerTypes, engineVars, callerVars
  <2> QED
    BY <1>4, <2>1 DEF Types, CallerKept, engineVars, callerVars
<1>7. Frame
  BY <1>6, Framed DEF AnswersInv
<1>8. PromptInv(p)'
  <2>1. CallerKept(p) /\ job'[p] = job[p]
    BY <1>6
  <2>2. event = "token" => made[p].n < Size[p] /\ made'[p] = [made[p] EXCEPT !.n = @ + 1]
    BY <1>5
  <2>3. event # "token" => made'[p] = NotMade
    BY <1>5
  <2> QED
    BY <1>2, <1>3, <1>4, <1>7, <2>1, <2>2, <2>3, PushKeeps DEF AnswersInv
<1>9. ASSUME NEW o \in Prompt, o # p PROVE PromptInv(o)'
  <2>1. ~IsOf(x, o)
    BY <1>9 DEF IsOf
  <2>2. PipesCarry(o)
    BY <1>3, <1>4, <1>7, <2>1, PushedPipes, SamePipes
  <2> QED
    BY <1>5, <1>6, <1>7, <1>9, <2>2, RestKeeps DEF AnswersInv
<1> QED
  BY <1>6, <1>8, <1>9 DEF AnswersInv

LEMMA GenerateKeeps ==
    ASSUME AnswersInv, NEW p \in Prompt, Generate(p)
    PROVE  AnswersInv'
<1> DEFINE x == [type |-> "token", p |-> p, n |-> made[p].n + 1]
<1>1. /\ made[p].sock # NoSocket /\ made[p].n < Size[p] /\ made' = [made EXCEPT ![p].n = @ + 1]
      /\ Transmit(made[p].sock, x) /\ UNCHANGED <<link, tab, torn, engineVars, callerVars>>
  BY DEF Generate
<1>2. "token" \in {"token", "done", "error"} /\ x = [type |-> "token", p |-> p, n |-> made[p].n + 1]
  OBVIOUS
<1> HIDE DEF x
<1> QED
  BY <1>1, <1>2, MakeKeeps

LEMMA EndJobKeeps ==
    ASSUME AnswersInv, NEW p \in Prompt, EndJob(p)
    PROVE  AnswersInv'
<1>1. PICK event \in {"done", "error"} :
        Transmit(made[p].sock, [type |-> event, p |-> p]) /\ (event = "done" => made[p].n = Size[p])
  BY DEF EndJob
<1> DEFINE x == [type |-> event, p |-> p]
<1>2. /\ made[p].sock # NoSocket /\ made' = [made EXCEPT ![p] = NotMade]
      /\ UNCHANGED <<link, tab, torn, engineVars, callerVars>>
  BY DEF EndJob
<1>3. Transmit(made[p].sock, x) /\ x = [type |-> event, p |-> p] /\ event # "token"
  BY <1>1
<1> HIDE DEF x
<1> QED
  BY <1>1, <1>2, <1>3, MakeKeeps

LEMMA ShowStep ==
    ASSUME AnswersInv, NEW p \in Prompt, Show(p)
    PROVE  AnswersInv'
<1> DEFINE e == Head(wire[p])
           t == IF e.type = "token" THEN Append(shown[p], e.n)
                ELSE IF "content" \in DOMAIN e THEN e.content ELSE shown[p]
           o == IF e.type = "token" THEN said[p] ELSE e.type
<1>1. /\ wire[p] # <<>>
      /\ wire' = [wire EXCEPT ![p] = Tail(@)]
      /\ shown' = [shown EXCEPT ![p] = t]
      /\ said' = [said EXCEPT ![p] = o]
      /\ UNCHANGED <<link, up, buffer, tab, made, torn, job, line, gathered, cut>>
  BY DEF Show, workerVars, engineVars
<1>2. /\ wire[p] \in Seq(Event) /\ shown[p] \in Seq(Nat)
      /\ said[p] \in {"none", "waiting", "done", "error"}
  BY DEF AnswersInv, Types, CallerTypes
<1>3. e \in Event /\ Tail(wire[p]) \in Seq(Event)
  BY <1>1, <1>2, HeadTailProperties
<1> HIDE DEF e
<1>4. /\ e.type \in {"token", "done", "error"} /\ (e.type = "token" => e.n \in Nat)
      /\ "content" \in DOMAIN e => e.content \in Seq(Nat)
  BY <1>3, EventFields
<1>5. t \in Seq(Nat) /\ o \in {"none", "waiting", "done", "error"}
  BY <1>2, <1>4, AppendProperties
<1>6. /\ wire'[p] = Tail(wire[p]) /\ shown'[p] = t /\ said'[p] = o
      /\ \A q \in Prompt : q # p => CallerKept(q)
  <2> HIDE DEF t, o
  <2> QED
    BY <1>1 DEF AnswersInv, Types, CallerTypes, CallerKept
<1>7. Types'
  <2>1. CallerTypes'
    <3> HIDE DEF t, o
    <3> QED
      BY <1>1, <1>3, <1>5 DEF AnswersInv, Types, CallerTypes
  <2>2. LinkInv' /\ JobInv'
    BY <1>1, PipeSame DEF AnswersInv, Types, JobInv
  <2> QED
    BY <2>1, <2>2 DEF Types
<1>8. Frame
  BY <1>1, <1>7, Framed DEF AnswersInv
<1>9. \A q \in Prompt : PipesCarry(q)
  BY <1>1, <1>8, PipeSame, SamePipes
<1>10. PromptInv(p)'
  <2>1. shown'[p] = IF Head(wire[p]).type = "token" THEN Append(shown[p], Head(wire[p]).n)
                    ELSE IF "content" \in DOMAIN Head(wire[p]) THEN Head(wire[p]).content
                    ELSE shown[p]
    BY <1>6 DEF e
  <2>2. said'[p] = IF Head(wire[p]).type = "token" THEN said[p] ELSE Head(wire[p]).type
    BY <1>6 DEF e
  <2> QED
    BY <1>1, <1>6, <1>8, <1>9, <2>1, <2>2, ShowKeeps DEF AnswersInv
<1>11. \A q \in Prompt : q # p => PromptInv(q)'
  BY <1>1, <1>6, <1>8, <1>9, RestKeeps DEF AnswersInv
<1> QED
  BY <1>7, <1>10, <1>11 DEF AnswersInv

LEMMA CutStep ==
    ASSUME AnswersInv, NEW p \in Prompt, CutCaller(p)
    PROVE  AnswersInv'
<1>1. /\ said[p] = "waiting" /\ cut' = cut \cup {p} /\ wire' = [wire EXCEPT ![p] = <<>>]
      /\ UNCHANGED <<link, up, buffer, tab, made, torn, job, line, gathered, shown, said>>
  BY DEF CutCaller, workerVars, engineVars
<1>2. Types'
  <2>1. CallerTypes'
    <3>1. <<>> \in Seq(Event)
      BY EmptySeq
    <3> QED
      BY <1>1, <3>1 DEF AnswersInv, Types, CallerTypes
  <2>2. LinkInv' /\ JobInv'
    BY <1>1, PipeSame DEF AnswersInv, Types, JobInv
  <2> QED
    BY <2>1, <2>2 DEF Types
<1>3. Frame
  BY <1>1, <1>2, Framed DEF AnswersInv
<1>4. \A q \in Prompt : PipesCarry(q)
  BY <1>1, <1>3, PipeSame, SamePipes
<1>5. wire'[p] = <<>> /\ p \in cut' /\ \A q \in Prompt : q # p => CallerKept(q)
  BY <1>1 DEF AnswersInv, Types, CallerTypes, CallerKept
<1>6. PromptInv(p)'
  BY <1>1, <1>3, <1>4, <1>5, CutKeeps DEF AnswersInv
<1>7. \A q \in Prompt : q # p => PromptInv(q)'
  BY <1>1, <1>3, <1>4, <1>5, RestKeeps DEF AnswersInv
<1> QED
  BY <1>2, <1>6, <1>7 DEF AnswersInv

-----------------------------------------------------------------------------
(***************************************************************************)
(* The steps of the engine.                                                *)
(***************************************************************************)
LEMMA FailQueuedStep ==
    ASSUME AnswersInv, NEW p \in Prompt, FailQueued(p)
    PROVE  AnswersInv'
<1> DEFINE event == [type |-> "error"]
<1>0. event \in Event /\ event \in [type : {"done", "error"}] /\ event.type = "error"
  BY DEF Event
<1> HIDE DEF event
<1>1. /\ job[p].state = "queued" /\ job' = [job EXCEPT ![p] = [state |-> "over", conn |-> "none"]]
      /\ TellAll({p}, event)
      /\ UNCHANGED <<link, up, buffer, tab, made, torn, gathered, shown, said, cut>>
  BY DEF FailQueued, workerVars, event
<1>2. PICK i \in 1 .. Len(line) : line[i] = p /\ line' = RemoveAt(line, i)
  <2>1. DOMAIN line = 1 .. Len(line)
    BY LenProperties DEF AnswersInv, Types, JobInv, QueuedIn
  <2> QED
    BY <2>1 DEF FailQueued
<1>3. job'[p].state = "over" /\ (\A o \in Prompt : o # p => job'[o] = job[o]) /\ job' \in [Prompt -> JobType]
  <2>1. [state |-> "over", conn |-> "none"] \in JobType
    BY DEF JobType
  <2> QED
    BY <1>1, <2>1 DEF AnswersInv, Types, JobInv, QueuedIn
<1>4. JobInv'
  <2>1. line \in Seq(Prompt) /\ Distinct(line) /\ \A k \in 1 .. Len(line) : job[line[k]].state = "queued"
    BY DEF AnswersInv, Types, JobInv, QueuedIn, Distinct
  <2>2. line' \in Seq(Prompt) /\ Distinct(line') /\ Elements(line') = Elements(line) \ {p}
    BY <1>2, <2>1, RemovedRest
  <2>3. \A k \in 1 .. Len(line') : line'[k] \in Prompt /\ line'[k] # p /\ job[line'[k]].state = "queued"
    <3>1. \A k \in 1 .. Len(line') : line'[k] \in Prompt /\ line'[k] \in Elements(line')
      BY <2>2, ElementOfSeq DEF Elements
    <3> QED
      BY <2>1, <2>2, <3>1 DEF Elements
  <2> QED
    BY <1>1, <1>3, <2>2, <2>3 DEF AnswersInv, Types, JobInv, QueuedIn, Distinct
<1>5. /\ wire' \in [Prompt -> Seq(Event)]
      /\ \A o \in Prompt : wire'[o] = IF o \in {p} THEN ToCaller(o, event) ELSE wire[o]
  <2>1. CallerTypes /\ {p} \in SUBSET Prompt
    BY DEF AnswersInv, Types
  <2> QED
    BY <1>0, <1>1, <2>1, Told
<1>6. Types'
  <2>1. CallerTypes'
    BY <1>1, <1>5 DEF AnswersInv, Types, CallerTypes
  <2> QED
    BY <1>1, <1>4, <2>1, PipeSame DEF AnswersInv, Types
<1>7. Frame
  BY <1>1, <1>6, Framed DEF AnswersInv
<1>8. \A o \in Prompt : PipesCarry(o)
  BY <1>1, <1>7, PipeSame, SamePipes
<1>9. PromptInv(p)'
  <2>1. Active(p) /\ wire'[p] = ToCaller(p, event)
    BY <1>1, <1>5 DEF Active
  <2> QED
    BY <1>0, <1>1, <1>3, <1>7, <1>8, <2>1, EndKeeps DEF AnswersInv
<1>10. ASSUME NEW o \in Prompt, o # p PROVE PromptInv(o)'
  <2>1. CallerKept(o) /\ job'[o] = job[o]
    BY <1>1, <1>3, <1>5, <1>10 DEF CallerKept
  <2> QED
    BY <1>1, <1>7, <1>8, <2>1, RestKeeps DEF AnswersInv
<1> QED
  BY <1>6, <1>9, <1>10 DEF AnswersInv

LEMMA SubmitStep ==
    ASSUME AnswersInv, NEW p \in Prompt, Submit(p)
    PROVE  AnswersInv'
<1>1. /\ said[p] = "none" /\ said' = [said EXCEPT ![p] = "waiting"]
      /\ UNCHANGED <<link, up, buffer, tab, torn, gathered, shown, cut>>
  BY DEF Submit
<1>2. /\ said'[p] = "waiting" /\ \A o \in Prompt : o # p => said'[o] = said[o]
      /\ said' \in [Prompt -> {"none", "waiting", "done", "error"}]
  BY <1>1 DEF AnswersInv, Types, CallerTypes
<1>3. job[p].state = "none"
  BY <1>1 DEF AnswersInv, PromptInv, CallerOf
<1>4. LinkInv' /\ Pipe' = Pipe
  BY <1>1, PipeSame DEF AnswersInv, Types
<1>5. CASE wire' = [wire EXCEPT ![p] = <<[type |-> "error"]>>] /\ UNCHANGED <<engineVars, made>>
  <2>1. /\ wire'[p] = <<[type |-> "error"]>> /\ \A o \in Prompt : o # p => wire'[o] = wire[o]
        /\ wire' \in [Prompt -> Seq(Event)]
    <3>1. [type |-> "error"] \in Event
      BY DEF Event
    <3>2. <<[type |-> "error"]>> \in Seq(Event)
      BY <3>1
    <3> QED
      BY <1>5, <3>2 DEF AnswersInv, Types, CallerTypes
  <2>2. job' = job /\ line' = line /\ made' = made
    BY <1>5 DEF engineVars
  <2>3. Types'
    <3>1. CallerTypes' /\ JobInv'
      BY <1>1, <1>2, <2>1, <2>2 DEF AnswersInv, Types, JobInv, CallerTypes
    <3> QED
      BY <1>4, <3>1 DEF Types
  <2>4. Frame
    BY <1>1, <2>3, Framed DEF AnswersInv
  <2>5. \A o \in Prompt : PipesCarry(o)
    BY <1>4, <2>4, SamePipes
  <2>6. PromptInv(p)'
    BY <1>1, <1>2, <2>1, <2>2, <2>4, <2>5, RefuseKeeps DEF AnswersInv
  <2>7. ASSUME NEW o \in Prompt, o # p PROVE PromptInv(o)'
    <3>1. CallerKept(o)
      BY <1>1, <1>2, <2>1, <2>7 DEF CallerKept
    <3> QED
      BY <2>2, <2>4, <2>5, <3>1, RestKeeps DEF AnswersInv
  <2> QED
    BY <2>3, <2>6, <2>7 DEF AnswersInv
<1>6. CASE Schedule(Append(line, p), [job EXCEPT ![p].state = "queued"], reg) /\ UNCHANGED wire
  <2> DEFINE queue == Append(line, p)
             jobs == [job EXCEPT ![p].state = "queued"]
  <2>1. /\ jobs \in [Prompt -> JobType] /\ jobs[p].state = "queued"
        /\ \A o \in Prompt : o # p => jobs[o] = job[o]
    <3>1. job[p] \in [state : {"none"}, conn : {"none"}]
      BY <1>3 DEF AnswersInv, Types, JobInv, QueuedIn, JobType
    <3>2. [job[p] EXCEPT !.state = "queued"] \in JobType /\ [job[p] EXCEPT !.state = "queued"].state = "queued"
      BY <3>1 DEF JobType
    <3> QED
      BY <3>2 DEF AnswersInv, Types, JobInv, QueuedIn
  <2> HIDE DEF jobs
  <2>2. /\ queue \in Seq(Prompt) /\ Len(line) \in Nat /\ Len(queue) = Len(line) + 1
        /\ queue[Len(line) + 1] = p /\ \A i \in 1 .. Len(line) : queue[i] = line[i]
    BY AppendProperties, LenProperties DEF AnswersInv, Types, JobInv, QueuedIn
  <2> HIDE DEF queue
  <2>3. \A i \in 1 .. Len(line) : line[i] \in Prompt /\ line[i] # p /\ job[line[i]].state = "queued"
    BY <1>3, ElementOfSeq DEF AnswersInv, Types, JobInv, QueuedIn
  <2>4. \A i \in 1 .. Len(queue) : i \in 1 .. Len(line) \/ i = Len(line) + 1
    BY <2>2
  <2>5. QueuedIn(queue, jobs)
    <3>1. \A i \in 1 .. Len(queue) : jobs[queue[i]].state = "queued"
      BY <2>1, <2>2, <2>3, <2>4
    <3>2. \A i, j \in 1 .. Len(queue) : queue[i] = queue[j] => i = j
      BY <2>2, <2>3, <2>4 DEF AnswersInv, Types, JobInv, QueuedIn
    <3> QED
      BY <2>1, <2>2, <3>1, <3>2 DEF QueuedIn
  <2>6. JobInv' /\ Assigns(jobs)
    <3>1. Schedule(queue, jobs, reg)
      BY <1>6 DEF queue, jobs
    <3> QED
      BY <2>5, <3>1, ScheduleAssigns DEF AnswersInv
  <2>7. Types'
    BY <1>1, <1>2, <1>4, <1>6, <2>6 DEF AnswersInv, Types, CallerTypes
  <2>8. Frame
    BY <1>1, <2>7, Framed DEF AnswersInv
  <2>9. \A o \in Prompt : PipesCarry(o)
    BY <1>4, <2>8, SamePipes
  <2>10. PromptInv(p)'
    <3>1. /\ job'[p].state \in {"queued", "assigned"}
          /\ \/ made'[p] = made[p]
             \/ job'[p].state = "assigned" /\ made'[p].sock \in Socket /\ made'[p].n = 0
      BY <2>1, <2>6 DEF Assigns
    <3> QED
      BY <1>1, <1>2, <1>3, <1>6, <2>8, <2>9, <3>1, BeginKeeps DEF AnswersInv
  <2>11. ASSUME NEW o \in Prompt, o # p PROVE PromptInv(o)'
    <3>1. CallerKept(o)
      BY <1>1, <1>2, <1>6, <2>11 DEF CallerKept
    <3> QED
      BY <2>1, <2>6, <2>8, <2>9, <2>11, <3>1, AssignKeeps DEF AnswersInv
  <2> QED
    BY <2>7, <2>10, <2>11 DEF AnswersInv
<1> QED
  BY <1>5, <1>6 DEF Submit

\* Of a packet that comes: what is left of the pipes, and to others than its prompt.
Received(s) ==
    /\ Pipe[s] # <<>> /\ Pipe[s][1] \in Packet
    /\ OnlyAt(s, Tail(Pipe[s]))
    /\ UNCHANGED <<tab, torn, shown, said, cut>>

LEMMA OnWorkerTokenStep ==
    ASSUME AnswersInv, LinkInv', NEW s \in Socket, Received(s), Pipe[s][1].type = "token",
           OnWorkerToken(Pipe[s][1].p, Pipe[s][1].n)
    PROVE  AnswersInv'
<1> DEFINE x == Pipe[s][1]
           event == [type |-> "token", n |-> x.n]
<1>1. /\ x \in Packet /\ x.p \in Prompt /\ x.n \in Nat /\ event \in Event /\ IsOf(x, x.p)
      /\ \A o \in Prompt : o # x.p => ~IsOf(x, o)
  <2>1. x \in Packet
    BY DEF Received
  <2>2. x.p \in Prompt /\ x.n \in Nat /\ x.type = "token"
    BY <2>1 DEF Packet
  <2> QED
    BY <2>1, <2>2 DEF Event, IsOf
<1>2. PICK p \in Prompt : p = x.p
  BY <1>1
<1>3. UNCHANGED <<job, line, made>>
  BY DEF OnWorkerToken, engineVars
<1> HIDE DEF event
<1>4. CASE Active(p)
  <2>1. /\ TellAll({p}, event)
        /\ gathered' = IF Way[p] = "json" THEN [gathered EXCEPT ![p] = Append(@, x.n)] ELSE gathered
    BY <1>2, <1>4 DEF OnWorkerToken, event
  <2>2. /\ wire' \in [Prompt -> Seq(Event)]
        /\ \A o \in Prompt : wire'[o] = IF o \in {p} THEN ToCaller(o, event) ELSE wire[o]
    <3>1. CallerTypes /\ {p} \in SUBSET Prompt
      BY DEF AnswersInv, Types
    <3> QED
      BY <1>1, <2>1, <3>1, Told
  <2>3. /\ gathered' \in [Prompt -> Seq(Nat)]
        /\ gathered'[p] = IF Way[p] = "json" THEN Append(gathered[p], x.n) ELSE gathered[p]
        /\ \A o \in Prompt : o # p => gathered'[o] = gathered[o]
    <3>1. gathered \in [Prompt -> Seq(Nat)] /\ Append(gathered[p], x.n) \in Seq(Nat)
      BY <1>1, AppendProperties DEF AnswersInv, Types, CallerTypes
    <3> QED
      BY <2>1, <3>1
  <2>4. Types'
    <3>1. CallerTypes' /\ JobInv'
      BY <1>3, <2>2, <2>3 DEF AnswersInv, Types, JobInv, CallerTypes, Received
    <3> QED
      BY <3>1 DEF Types
  <2>5. Frame
    BY <2>4, Framed DEF AnswersInv, Received
  <2>6. PromptInv(p)'
    <3>1. PopsAt(s, p) /\ x.type = "token"
      BY <1>1, <1>2 DEF PopsAt, Received
    <3>2. wire'[p] = ToCaller(p, [type |-> "token", n |-> x.n])
      BY <2>2 DEF event
    <3>3. /\ made'[p] = made[p] /\ job'[p].state = job[p].state /\ shown'[p] = shown[p]
          /\ said'[p] = said[p] /\ (p \in cut' <=> p \in cut)
      BY <1>3 DEF Received
    <3> QED
      BY <1>4, <2>3, <2>5, <3>1, <3>2, <3>3, TokenKeeps DEF AnswersInv
  <2>7. ASSUME NEW o \in Prompt, o # p PROVE PromptInv(o)'
    <3>1. CallerKept(o)
      BY <2>2, <2>3, <2>7 DEF CallerKept, Received
    <3>2. PipesCarry(o)
      BY <1>1, <1>2, <2>5, <2>7, PoppedPipes DEF Received
    <3> QED
      BY <1>3, <2>5, <3>1, <3>2, RestKeeps DEF AnswersInv
  <2> QED
    BY <2>4, <2>6, <2>7 DEF AnswersInv
<1>5. CASE ~Active(p)
  <2>1. UNCHANGED <<wire, gathered>>
    BY <1>2, <1>5 DEF OnWorkerToken
  <2>2. Types' /\ \A o \in Prompt : CallerKept(o)
    <3>1. Unseen
      BY <1>3, <2>1 DEF Unseen, Received
    <3> QED
      BY <3>1, UnseenTypes DEF AnswersInv
  <2>3. Frame
    BY <2>2, Framed DEF AnswersInv, Received
  <2>4. PopsAt(s, p)
    BY <1>1, <1>2 DEF PopsAt, Received
  <2>5. PromptInv(p)'
    BY <1>3, <1>5, <2>2, <2>3, <2>4, DrainKeeps DEF AnswersInv
  <2>6. ASSUME NEW o \in Prompt, o # p PROVE PromptInv(o)'
    <3>1. PipesCarry(o)
      BY <1>1, <1>2, <2>3, <2>6, PoppedPipes DEF Received
    <3> QED
      BY <1>3, <2>2, <2>3, <3>1, RestKeeps DEF AnswersInv
  <2> QED
    BY <2>2, <2>5, <2>6 DEF AnswersInv
<1> QED
  BY <1>4, <1>5

\* A "done" or an "error" of a worker, of a job that is active or is over; the engine
\* schedules what waits, or, for want of an active job, does not.
LEMMA EndedStep ==
    ASSUME AnswersInv, LinkInv', NEW s \in Socket, Received(s), gathered' = gathered,
           NEW event \in [type : {"done", "error"}], Pipe[s][1].type = event.type,
           NEW ended, ended = IF Active(Pipe[s][1].p) THEN {Pipe[s][1].p} ELSE {},
           TellAll(ended, event),
           NEW conns,
           \/ Schedule(line, Over(ended), conns)
           \/ ended = {} /\ UNCHANGED <<job, line, made>>
    PROVE  AnswersInv'
<1> DEFINE x == Pipe[s][1]
<1>1. /\ x \in Packet /\ x.p \in Prompt /\ IsOf(x, x.p) /\ event \in Event
      /\ \A o \in Prompt : o # x.p => ~IsOf(x, o)
  <2>1. x \in Packet /\ x.type \in {"done", "error"}
    BY DEF Received
  <2>2. x.p \in Prompt
    BY <2>1 DEF Packet
  <2> QED
    BY <2>1, <2>2 DEF Event, IsOf
<1>2. PICK p \in Prompt : p = x.p
  BY <1>1
<1>3. ended \in SUBSET Prompt /\ (\A o \in ended : o = p /\ Active(p)) /\ (Active(p) => p \in ended)
  BY <1>2
<1>4. 1 \in Of(Pipe[s], p) /\ job[p].state \in {"assigned", "over"}
  <2>1. Pipe[s] \in Seq(Packet)
    BY PipeAt DEF AnswersInv, Types, PipeIs
  <2>2. 1 \in Of(Pipe[s], p)
    BY <1>1, <1>2, <2>1, TailAt DEF Received
  <2> QED
    BY <2>2 DEF AnswersInv, PromptInv, PacketsOf
<1>5. /\ QueuedIn(line, Over(ended))
      /\ \A o \in Prompt : Over(ended)[o] = IF o \in ended THEN [state |-> "over", conn |-> "none"]
                                            ELSE job[o]
  <2>1. \A o \in ended : job[o].state # "queued"
    BY <1>3, <1>4
  <2> QED
    BY <1>3, <2>1, OverQueued DEF AnswersInv, Types
<1>6. JobInv' /\ (Assigns(Over(ended)) \/ (ended = {} /\ UNCHANGED <<job, made>>))
  <2>1. CASE Schedule(line, Over(ended), conns)
    BY <1>5, <2>1, ScheduleAssigns DEF AnswersInv
  <2>2. CASE ended = {} /\ UNCHANGED <<job, line, made>>
    BY <2>2 DEF AnswersInv, Types, JobInv
  <2> QED
    BY <2>1, <2>2
<1>7. /\ wire' \in [Prompt -> Seq(Event)]
      /\ \A o \in Prompt : wire'[o] = IF o \in ended THEN ToCaller(o, event) ELSE wire[o]
  <2>1. CallerTypes
    BY DEF AnswersInv, Types
  <2> QED
    BY <1>1, <1>3, <2>1, Told
<1>8. Types'
  <2>1. CallerTypes'
    BY <1>7 DEF AnswersInv, Types, CallerTypes, Received
  <2> QED
    BY <1>6, <2>1 DEF Types
<1>9. Frame
  BY <1>8, Framed DEF AnswersInv, Received
<1>10. PopsAt(s, p) /\ (\A o \in Prompt : o # p => PipesCarry(o))
  BY <1>1, <1>2, <1>9, PoppedPipes DEF PopsAt, Received
<1>11. \A o \in Prompt : o \notin ended => CallerKept(o)
  BY <1>7 DEF CallerKept, Received
<1>12. ASSUME NEW o \in Prompt, o # p PROVE PromptInv(o)'
  <2>1. o \notin ended /\ CallerKept(o)
    BY <1>3, <1>11, <1>12
  <2>2. CASE Assigns(Over(ended))
    <3>1. Over(ended)[o] = job[o]
      BY <1>5, <2>1
    <3> HIDE DEF Over
    <3> QED
      BY <1>9, <1>10, <1>12, <2>1, <2>2, <3>1, AssignKeeps DEF AnswersInv
  <2>3. CASE UNCHANGED <<job, made>>
    BY <1>9, <1>10, <1>12, <2>1, <2>3, RestKeeps DEF AnswersInv
  <2> QED
    BY <1>6, <2>2, <2>3
<1>13. CASE Active(p)
  <2>1. p \in ended /\ job'[p].state = "over" /\ made'[p] = made[p]
    <3>1. p \in ended /\ Assigns(Over(ended))
      BY <1>3, <1>6, <1>13
    <3>2. Over(ended)[p].state = "over"
      BY <1>5, <3>1
    <3> HIDE DEF Over
    <3> QED
      BY <3>1, <3>2 DEF Assigns
  <2>2. wire'[p] = ToCaller(p, event)
    BY <1>7, <2>1
  <2>3. PromptInv(p)'
    BY <1>9, <1>10, <1>13, <2>1, <2>2, EndKeeps DEF AnswersInv, Received
  <2> QED
    BY <1>8, <1>12, <2>3 DEF AnswersInv
<1>14. CASE ~Active(p)
  <2>1. p \notin ended /\ CallerKept(p)
    BY <1>3, <1>11, <1>14
  <2>2. job'[p] = job[p] /\ made'[p] = made[p]
    BY <1>4, <1>5, <1>6, <2>1 DEF Assigns
  <2>3. PromptInv(p)'
    BY <1>9, <1>10, <1>14, <2>1, <2>2, DrainKeeps DEF AnswersInv
  <2> QED
    BY <1>8, <1>12, <2>3 DEF AnswersInv
<1> QED
  BY <1>13, <1>14

LEMMA ReceiveStep ==
    ASSUME AnswersInv, NEW c \in Conn, ReceiveFrom(c)
    PROVE  AnswersInv'
<1>1. /\ link[c].state \in {"open", "closing"} /\ up[c] # <<>> /\ up' = [up EXCEPT ![c] = Tail(@)]
      /\ UNCHANGED <<link, buffer, tab, torn, shown, said, cut>>
  BY DEF ReceiveFrom
<1>2. PICK s \in Socket : s = link[c].sock
  BY <1>1, ReceivePipes DEF AnswersInv, Types
<1>3. LinkInv' /\ Pipe[s] = up[c] /\ OnlyAt(s, Tail(Pipe[s]))
  BY <1>1, <1>2, ReceivePipes DEF AnswersInv, Types
<1>4. Head(up[c]) = Pipe[s][1] /\ Pipe[s][1] \in Packet
  <2>1. Pipe[s] \in Seq(Packet)
    BY <1>3 DEF AnswersInv, Types, LinkInv
  <2> QED
    BY <1>1, <1>3, <2>1, TailAt
<1>5. Received(s)
  BY <1>1, <1>3, <1>4 DEF Received
<1> DEFINE x == Pipe[s][1]
<1>6. CASE x.type = "register" /\ UNCHANGED <<job, line, made, wire, gathered>>
  <2>1. Unseen
    BY <1>1, <1>6 DEF Unseen
  <2>2. Frame
    BY <1>1, <1>3, <2>1, UnseenTypes, Framed DEF AnswersInv
  <2>3. \A o \in Prompt : PipesCarry(o)
    BY <1>5, <1>6, <2>2, PoppedPipes DEF Received, IsOf
  <2> QED
    BY <2>1, <2>2, <2>3, UnseenKeeps
<1>7. CASE x.type = "token" /\ OnWorkerToken(x.p, x.n)
  BY <1>3, <1>5, <1>7, OnWorkerTokenStep
<1> DEFINE ended == IF Active(x.p) THEN {x.p} ELSE {}
<1>8. CASE x.type = "done" /\ OnWorkerDone(c, x.p)
  <2> DEFINE event == [type |-> "done"]
  <2>1. event \in [type : {"done", "error"}] /\ x.type = event.type /\ gathered' = gathered
    BY <1>8 DEF OnWorkerDone
  <2>2. CASE Active(x.p)
    <3>1. ended = {x.p} /\ TellAll(ended, event) /\ Schedule(line, Over(ended), Freed(c))
      BY <1>8, <2>2 DEF OnWorkerDone
    <3> HIDE DEF event
    <3> QED
      BY <1>3, <1>5, <2>1, <3>1, EndedStep
  <2>3. CASE ~Active(x.p)
    <3>1. ended = {} /\ UNCHANGED <<wire, job, line, made>>
      BY <1>8, <2>3 DEF OnWorkerDone, engineVars
    <3>2. TellAll(ended, event)
      BY <3>1 DEF TellAll, AnswersInv, Types, CallerTypes
    <3> HIDE DEF event
    <3> QED
      BY <1>3, <1>5, <2>1, <3>1, <3>2, EndedStep
  <2> QED
    BY <2>2, <2>3
<1>9. CASE x.type = "error" /\ OnWorkerError(c, x.p)
  <2> DEFINE event == [type |-> "error"]
  <2>1. event \in [type : {"done", "error"}] /\ x.type = event.type /\ gathered' = gathered
    BY <1>9 DEF OnWorkerError
  <2>2. TellAll(ended, event) /\ Schedule(line, Over(ended), Freed(c))
    BY <1>9 DEF OnWorkerError
  <2> HIDE DEF event
  <2> QED
    BY <1>3, <1>5, <2>1, <2>2, EndedStep
<1> QED
  BY <1>4, <1>6, <1>7, <1>8, <1>9 DEF ReceiveFrom

LEMMA WorkerGoneStep ==
    ASSUME AnswersInv, NEW c \in Conn, WorkerGone(c)
    PROVE  AnswersInv'
<1> DEFINE event == [type |-> "error"]
           ended == ServedOn(c)
<1>1. /\ link[c].state = "half" \/ (link[c].state = "closing" /\ up[c] = <<>>)
      /\ link' = [link EXCEPT ![c].state = "gone"]
      /\ TellAll(ended, event)
      /\ Schedule(line, Over(ended), [reg EXCEPT ![c] = "none"])
      /\ UNCHANGED <<up, buffer, tab, torn, gathered, shown, said, cut>>
  BY DEF WorkerGone, OnWorkerGone
<1>2. event \in Event /\ event \in [type : {"done", "error"}] /\ event.type = "error"
  BY DEF Event
<1> HIDE DEF event
<1>3. LinkInv' /\ Pipe' = Pipe
  BY <1>1, GonePipes DEF AnswersInv, Types
<1>4. ended \in SUBSET Prompt /\ \A o \in ended : Active(o) /\ job[o].state # "queued"
  <2>1. \A o \in Prompt : job[o] \in JobType
    BY DEF AnswersInv, Types, JobInv, QueuedIn
  <2>2. \A o \in ended : o \in Prompt /\ Active(o) /\ job[o].conn # "none"
    BY StreamingAssumption DEF ServedOn
  <2> QED
    BY <2>1, <2>2 DEF JobType
<1> HIDE DEF ended
<1>5. /\ QueuedIn(line, Over(ended))
      /\ \A o \in Prompt : Over(ended)[o] = IF o \in ended THEN [state |-> "over", conn |-> "none"]
                                            ELSE job[o]
  BY <1>4, OverQueued DEF AnswersInv, Types
<1>6. JobInv' /\ Assigns(Over(ended))
  BY <1>1, <1>5, ScheduleAssigns DEF AnswersInv
<1>7. /\ wire' \in [Prompt -> Seq(Event)]
      /\ \A o \in Prompt : wire'[o] = IF o \in ended THEN ToCaller(o, event) ELSE wire[o]
  <2>1. CallerTypes
    BY DEF AnswersInv, Types
  <2> QED
    BY <1>1, <1>2, <1>4, <2>1, Told
<1>8. Types'
  <2>1. CallerTypes'
    BY <1>1, <1>7 DEF AnswersInv, Types, CallerTypes
  <2> QED
    BY <1>3, <1>6, <2>1 DEF Types
<1>9. Frame
  BY <1>1, <1>8, Framed DEF AnswersInv
<1>10. \A o \in Prompt : PipesCarry(o)
  BY <1>3, <1>9, SamePipes
<1>11. ASSUME NEW o \in Prompt, o \in ended PROVE PromptInv(o)'
  <2>1. job'[o].state = "over" /\ made'[o] = made[o]
    BY <1>5, <1>6, <1>11 DEF Assigns
  <2>2. wire'[o] = ToCaller(o, event) /\ Active(o)
    BY <1>4, <1>7, <1>11
  <2> QED
    BY <1>1, <1>2, <1>9, <1>10, <2>1, <2>2, EndKeeps DEF AnswersInv
<1>12. ASSUME NEW o \in Prompt, o \notin ended PROVE PromptInv(o)'
  <2>1. CallerKept(o)
    BY <1>1, <1>7, <1>12 DEF CallerKept
  <2>2. Over(ended)[o] = job[o]
    BY <1>5, <1>12
  <2> QED
    BY <1>6, <1>9, <1>10, <2>1, <2>2, AssignKeeps DEF AnswersInv
<1> QED
  BY <1>8, <1>11, <1>12 DEF AnswersInv

-----------------------------------------------------------------------------
LEMMA AnswersInit == StreamInit => AnswersInv
<1> SUFFICES ASSUME StreamInit PROVE AnswersInv
  OBVIOUS
<1>1. Len(<<>>) = 0 /\ \A S : <<>> \in Seq(S)
  BY EmptySeq
<1>2. (\A c \in Conn : ~Live(c)) /\ \A s \in Socket : LiveOn(s) = {}
  BY DEF StreamInit, Live, LiveOn
<1>3. LinkInv
  <2>1. /\ link \in [Conn -> [state : {"unused", "open", "half", "closing", "gone"},
                              sock : Socket \cup {NoSocket}]]
        /\ \A c \in Conn : link[c].state = "unused"
    BY DEF StreamInit
  <2>2. /\ up \in [Conn -> Seq(Packet)] /\ \A c \in Conn : up[c] = <<>>
    BY <1>1 DEF StreamInit
  <2>3. buffer \in [Socket -> Seq(Packet)]
    BY <1>1 DEF StreamInit
  <2>4. tab \in TabType
    BY DEF StreamInit, TabType
  <2> QED
    BY <1>2, <2>1, <2>2, <2>3, <2>4 DEF LinkInv
<1>4. JobInv
  <2>1. NoJob \in JobType /\ NotMade \in [sock : Socket \cup {NoSocket}, n : Nat]
    BY DEF JobType, NoJob, NotMade
  <2> QED
    BY <1>1, <2>1 DEF StreamInit, JobInv, QueuedIn
<1>5. CallerTypes
  BY <1>1 DEF StreamInit, CallerTypes
<1>6. ASSUME NEW p \in Prompt PROVE PromptInv(p)
  <2>1. \A s \in Socket : Len(Pipe[s]) = 0 /\ Of(Pipe[s], p) = {} /\ Tokens(Pipe[s], p) = {}
    <3>1. \A s \in Socket : Pipe[s] = <<>>
      BY <1>2 DEF Pipe, StreamInit
    <3> QED
      BY <1>1, <3>1 DEF Of, Tokens
  <2>2. ~Making(p) /\ ~Active(p)
    BY DEF StreamInit, Making, NotMade, NoJob, Active
  <2>3. PacketsOf(p)
    BY <2>1, <2>2 DEF PacketsOf, InOrder
  <2>4. CallerOf(p)
    BY <1>1, <2>2 DEF StreamInit, CallerOf, NoJob, Rising
  <2>5. Ahead(p) /\ Unbroken(p)
    BY <2>2 DEF Ahead, Unbroken
  <2>6. WholeOf(p)
    BY <1>1 DEF StreamInit, WholeOf
  <2> QED
    BY <2>3, <2>4, <2>5, <2>6 DEF PromptInv
<1> QED
  BY <1>3, <1>4, <1>5, <1>6 DEF AnswersInv, Types

LEMMA AnswersNext ==
    ASSUME AnswersInv, [StreamNext]_streamVars
    PROVE  AnswersInv'
<1>1. CASE UNCHANGED streamVars
  BY <1>1, StutterKeeps
<1>2. ASSUME NEW p \in Prompt,
             Submit(p) \/ CutCaller(p) \/ FailQueued(p) \/ Generate(p) \/ EndJob(p) \/ Show(p)
      PROVE  AnswersInv'
  BY <1>2, SubmitStep, CutStep, FailQueuedStep, GenerateKeeps, EndJobKeeps, ShowStep
<1>3. ASSUME NEW s \in Socket, NEW c \in Conn, ConnectWorker(s, c)
      PROVE  AnswersInv'
  BY <1>3, ConnectKeeps
<1>4. ASSUME NEW c \in Conn, DropWorker(c) \/ ReceiveFrom(c) \/ WorkerGone(c)
      PROVE  AnswersInv'
  BY <1>4, DropKeeps, ReceiveStep, WorkerGoneStep
<1>5. CASE Stop
  BY <1>5, StopKeeps
<1>6. CASE Start \/ LoadFails \/ \E s \in Socket : ModelLoads(s)
  BY <1>6, LoadKeeps
<1> QED
  BY <1>1, <1>2, <1>3, <1>4, <1>5, <1>6 DEF StreamNext

LEMMA AnswersWhole == AnswersInv => AnswerWhole
<1> SUFFICES ASSUME AnswersInv, NEW p \in Prompt
             PROVE  /\ \A i, j \in DOMAIN shown[p] : i < j => shown[p][i] < shown[p][j]
                    /\ Ended(p) => wire[p] = <<>>
                    /\ \A i \in DOMAIN wire[p] : wire[p][i].type # "token" => i = Len(wire[p])
                    /\ said[p] = "done" /\ p \notin torn => Len(shown[p]) = Size[p]
  BY DEF AnswerWhole
<1>1. DOMAIN shown[p] = 1 .. Len(shown[p]) /\ DOMAIN wire[p] = 1 .. Len(wire[p])
  <2>1. shown[p] \in Seq(Nat) /\ wire[p] \in Seq(Event)
    BY DEF AnswersInv, Types, CallerTypes
  <2> QED
    BY <2>1, LenProperties
<1>2. /\ Rising(shown[p])
      /\ said[p] \in {"done", "error"} => wire[p] = <<>>
      /\ \A i \in 1 .. Len(wire[p]) : wire[p][i].type # "token" => i = Len(wire[p])
  BY DEF AnswersInv, PromptInv, CallerOf
<1>3. said[p] = "done" /\ p \notin torn => Len(shown[p]) = Size[p]
  BY DEF AnswersInv, PromptInv, WholeOf
<1> QED
  BY <1>1, <1>2, <1>3 DEF Rising, Ended

\* What a caller is shown is the answer's tokens in order, none of them twice; nothing
\* comes after the end; and if it ended well, and none of its packets was lost with a
\* connection, every token of it is there.  However many workers connect, drop and come
\* back with what they had buffered, the engine passes on the packets of an active job
\* only (onWorkerToken), and a lost worker's jobs are never given to another.
THEOREM AnswersAreWhole == Spec => []AnswerWhole
<1>1. Init => AnswersInv
  BY AnswersInit DEF Init
<1>2. AnswersInv /\ [Next]_vars => AnswersInv'
  BY StreamMoves, AnswersNext
<1> QED
  BY <1>1, <1>2, AnswersWhole, PTL DEF Spec

-----------------------------------------------------------------------------
(***************************************************************************)
(* The types of the stream: what is passed on and shown are tokens of the   *)
(* answer, and what is closed was once created.                            *)
(***************************************************************************)
Token(p) == 1 .. Size[p]

Sent(p) ==
    [type : {"token"}, n : Token(p)] \cup [type : {"done", "error"}]
    \cup [type : {"done"}, content : Seq(Token(p))]

SentOf(p) ==
    wire[p] \in Seq(Sent(p)) /\ gathered[p] \in Seq(Token(p)) /\ shown[p] \in Seq(Token(p))

RegType == [Conn -> {"none", "idle", "busy"}]

StreamOk ==
    /\ reg \in RegType
    /\ tab.closed \subseteq tab.created /\ tab.ref \in tab.created \cup {NoSocket}
    /\ \A p \in Prompt : made[p].n = 0 \/ Making(p)
    /\ \A p \in Prompt : SentOf(p)

LEMMA SentSame ==
    ASSUME NEW p \in Prompt, SentOf(p),
           wire'[p] = wire[p], gathered'[p] = gathered[p], shown'[p] = shown[p]
    PROVE  SentOf(p)'
BY DEF SentOf

LEMMA SentTold ==
    ASSUME NEW ended \in SUBSET Prompt, NEW event, TellAll(ended, event),
           \A p \in Prompt : SentOf(p), \A p \in ended : event \in Sent(p)
    PROVE  \A p \in Prompt : wire'[p] \in Seq(Sent(p))
<1> SUFFICES ASSUME NEW p \in Prompt PROVE wire'[p] \in Seq(Sent(p))
  OBVIOUS
<1>1. wire'[p] = IF p \in ended THEN ToCaller(p, event) ELSE wire[p]
  BY DEF TellAll
<1>2. wire[p] \in Seq(Sent(p)) /\ gathered[p] \in Seq(Token(p))
  BY DEF SentOf
<1>3. CASE p \in ended
  <2>1. [type |-> "done", content |-> gathered[p]] \in Sent(p) /\ event \in Sent(p)
    BY <1>2, <1>3 DEF Sent
  <2>2. /\ Append(wire[p], event) \in Seq(Sent(p))
        /\ Append(wire[p], [type |-> "done", content |-> gathered[p]]) \in Seq(Sent(p))
    BY <1>2, <2>1, AppendProperties
  <2> QED
    BY <1>1, <1>2, <1>3, <2>2 DEF ToCaller
<1> QED
  BY <1>1, <1>2, <1>3

LEMMA ScheduleRanges ==
    ASSUME StreamOk, NEW queue, NEW jobs, NEW conns \in RegType, Schedule(queue, jobs, conns)
    PROVE  reg' \in RegType /\ \A p \in Prompt : made'[p].n = 0 \/ Making(p)'
<1> DEFINE idle == {c \in Conn : conns[c] = "idle"}
           n == IF Len(queue) < Cardinality(idle) THEN Len(queue) ELSE Cardinality(idle)
<1>1. PICK taken \in Injection(1 .. n, idle) :
          /\ reg' = [c \in Conn |-> IF c \in Range(taken) THEN "busy" ELSE conns[c]]
          /\ made' = [p \in Prompt |->
               IF \E i \in 1 .. n : queue[i] = p /\ link[taken[i]].state = "open"
               THEN [sock |-> link[taken[CHOOSE i \in 1 .. n : queue[i] = p]].sock, n |-> 0]
               ELSE made[p]]
  BY DEF Schedule
<1> HIDE DEF n, idle
<1>2. \A p \in Prompt : made'[p] = made[p] \/ made'[p].n = 0
  BY <1>1
<1>3. reg' \in RegType
  BY <1>1 DEF RegType
<1> QED
  BY <1>2, <1>3 DEF StreamOk, Making

LEMMA FreedOk ==
    ASSUME reg \in RegType, NEW c \in Conn
    PROVE  Freed(c) \in RegType /\ [reg EXCEPT ![c] = "none"] \in RegType
BY DEF Freed, RegType

LEMMA StreamOkInit == StreamInit => StreamOk
<1> SUFFICES ASSUME StreamInit PROVE StreamOk
  OBVIOUS
<1>1. \A S : <<>> \in Seq(S)
  BY EmptySeq
<1> QED
  BY <1>1 DEF StreamInit, StreamOk, RegType, SentOf, NotMade

LEMMA SubmitOk ==
    ASSUME AnswersInv, StreamOk, NEW p \in Prompt, Submit(p)
    PROVE  StreamOk'
<1>1. UNCHANGED <<tab, gathered, shown>>
  BY DEF Submit
<1>2. CASE wire' = [wire EXCEPT ![p] = <<[type |-> "error"]>>] /\ UNCHANGED <<engineVars, made>>
  <2>1. <<[type |-> "error"]>> \in Seq(Sent(p))
    <3>1. [type |-> "error"] \in Sent(p)
      BY DEF Sent
    <3> QED
      BY <3>1
  <2>2. \A o \in Prompt : wire'[o] = IF o = p THEN <<[type |-> "error"]>> ELSE wire[o]
    BY <1>2 DEF AnswersInv, Types, CallerTypes
  <2>3. \A o \in Prompt : SentOf(o)'
    BY <1>1, <2>1, <2>2 DEF StreamOk, SentOf
  <2> QED
    BY <1>1, <1>2, <2>3 DEF StreamOk, Making, engineVars
<1>3. CASE Schedule(Append(line, p), [job EXCEPT ![p].state = "queued"], reg) /\ UNCHANGED wire
  <2>1. reg' \in RegType /\ \A o \in Prompt : made'[o].n = 0 \/ Making(o)'
    <3>1. reg \in RegType
      BY DEF StreamOk
    <3> QED
      BY <1>3, <3>1, ScheduleRanges
  <2>2. \A o \in Prompt : SentOf(o)'
    BY <1>1, <1>3, SentSame DEF StreamOk
  <2> QED
    BY <1>1, <2>1, <2>2 DEF StreamOk
<1> QED
  BY <1>2, <1>3 DEF Submit

LEMMA ShowOk ==
    ASSUME AnswersInv, StreamOk, NEW p \in Prompt, Show(p)
    PROVE  StreamOk'
<1> DEFINE e == Head(wire[p])
           t == IF e.type = "token" THEN Append(shown[p], e.n)
                ELSE IF "content" \in DOMAIN e THEN e.content ELSE shown[p]
<1>1. /\ wire[p] # <<>>
      /\ wire' = [wire EXCEPT ![p] = Tail(@)]
      /\ shown' = [shown EXCEPT ![p] = t]
      /\ UNCHANGED <<tab, made, reg, gathered>>
  BY DEF Show, workerVars, engineVars
<1>2. wire[p] \in Seq(Sent(p)) /\ shown[p] \in Seq(Token(p)) /\ gathered[p] \in Seq(Token(p))
  BY DEF StreamOk, SentOf
<1>3. e \in Sent(p) /\ Tail(wire[p]) \in Seq(Sent(p))
  BY <1>1, <1>2, HeadTailProperties
<1> HIDE DEF e
<1>4. /\ e.type = "token" => e.n \in Token(p)
      /\ "content" \in DOMAIN e => e.content \in Seq(Token(p))
  BY <1>3 DEF Sent
<1>5. t \in Seq(Token(p))
  BY <1>2, <1>4, AppendProperties
<1> HIDE DEF t
<1>6. /\ \A o \in Prompt : wire'[o] = IF o = p THEN Tail(wire[p]) ELSE wire[o]
      /\ \A o \in Prompt : shown'[o] = IF o = p THEN t ELSE shown[o]
  BY <1>1 DEF AnswersInv, Types, CallerTypes
<1>7. \A o \in Prompt : SentOf(o)'
  BY <1>1, <1>2, <1>3, <1>5, <1>6 DEF StreamOk, SentOf
<1> QED
  BY <1>1, <1>7 DEF StreamOk, Making

LEMMA ReceiveOk ==
    ASSUME AnswersInv, StreamOk, NEW c \in Conn, ReceiveFrom(c)
    PROVE  StreamOk'
<1>1. /\ link[c].state \in {"open", "closing"} /\ up[c] # <<>> /\ up' = [up EXCEPT ![c] = Tail(@)]
      /\ UNCHANGED <<link, buffer, tab, torn, shown, said, cut>>
  BY DEF ReceiveFrom
<1>2. PICK s \in Socket : s = link[c].sock /\ Pipe[s] = up[c]
  BY <1>1, ReceivePipes DEF AnswersInv, Types
<1>3. Head(up[c]) = Pipe[s][1] /\ Pipe[s][1] \in Packet /\ Pipe[s] \in Seq(Packet)
  <2>1. Pipe[s] \in Seq(Packet)
    BY <1>2 DEF AnswersInv, Types, LinkInv
  <2> QED
    BY <1>1, <1>2, <2>1, TailAt
<1> DEFINE x == Pipe[s][1]
<1>4. reg \in RegType /\ Freed(c) \in RegType
  BY FreedOk DEF StreamOk
<1>5. CASE x.type = "register" /\ reg' = [reg EXCEPT ![c] = "idle"]
           /\ UNCHANGED <<job, line, made, wire, gathered>>
  <2>1. reg' \in RegType
    BY <1>4, <1>5 DEF RegType
  <2>2. \A o \in Prompt : SentOf(o)'
    BY <1>1, <1>5, SentSame DEF StreamOk
  <2> QED
    BY <1>1, <1>5, <2>1, <2>2 DEF StreamOk, Making
<1>6. CASE x.type = "token" /\ OnWorkerToken(x.p, x.n)
  <2>1. x.p \in Prompt /\ x.n \in Token(x.p)
    <3>1. x.p \in Prompt
      BY <1>3, <1>6 DEF Packet
    <3>2. 1 \in Tokens(Pipe[s], x.p)
      BY <1>1, <1>2, <1>3, <1>6, <3>1, TailAt DEF IsOf, Tokens
    <3> QED
      BY <3>1, <3>2 DEF AnswersInv, PromptInv, PacketsOf, Token
  <2>2. PICK p \in Prompt : p = x.p
    BY <2>1
  <2>3. reg' = reg /\ made' = made
    BY <1>6 DEF OnWorkerToken, engineVars
  <2>4. \A o \in Prompt : SentOf(o)'
    <3>1. CASE Active(p)
      <4> DEFINE event == [type |-> "token", n |-> x.n]
      <4>1. /\ TellAll({p}, event)
            /\ gathered' = IF Way[p] = "json" THEN [gathered EXCEPT ![p] = Append(@, x.n)] ELSE gathered
        BY <1>6, <2>2, <3>1 DEF OnWorkerToken
      <4>2. event \in Sent(p)
        BY <2>1, <2>2 DEF Sent
      <4> HIDE DEF event
      <4>3. \A o \in Prompt : wire'[o] \in Seq(Sent(o))
        <5>1. {p} \in SUBSET Prompt /\ \A o \in {p} : event \in Sent(o)
          BY <4>2
        <5> QED
          BY <4>1, <5>1, SentTold DEF StreamOk
      <4>4. \A o \in Prompt : gathered'[o] \in Seq(Token(o))
        <5>1. gathered[p] \in Seq(Token(p)) /\ Append(gathered[p], x.n) \in Seq(Token(p))
          BY <2>1, <2>2, AppendProperties DEF StreamOk, SentOf
        <5>2. \A o \in Prompt : gathered'[o] = gathered[o] \/ (o = p /\ gathered'[o] = Append(gathered[p], x.n))
          BY <4>1 DEF AnswersInv, Types, CallerTypes
        <5> QED
          BY <5>1, <5>2 DEF StreamOk, SentOf
      <4> QED
        BY <1>1, <4>3, <4>4 DEF StreamOk, SentOf
    <3>2. CASE ~Active(p)
      BY <1>1, <1>6, <2>2, <3>2, SentSame DEF StreamOk, OnWorkerToken
    <3> QED
      BY <3>1, <3>2
  <2> QED
    BY <1>1, <2>3, <2>4 DEF StreamOk, Making
<1>7. ASSUME NEW event \in {"done", "error"}, NEW ended \in SUBSET Prompt,
             TellAll(ended, [type |-> event]), gathered' = gathered
      PROVE  \A o \in Prompt : SentOf(o)'
  <2>1. \A o \in Prompt : [type |-> event] \in Sent(o)
    BY DEF Sent
  <2>2. \A o \in Prompt : wire'[o] \in Seq(Sent(o))
    BY <1>7, <2>1, SentTold DEF StreamOk
  <2> QED
    BY <1>1, <1>7, <2>2 DEF StreamOk, SentOf
<1>8. ASSUME NEW jobs, Schedule(line, jobs, Freed(c)), \A o \in Prompt : SentOf(o)'
      PROVE  StreamOk'
  <2>1. reg' \in RegType /\ \A o \in Prompt : made'[o].n = 0 \/ Making(o)'
    BY <1>4, <1>8, ScheduleRanges
  <2> QED
    BY <1>1, <1>8, <2>1 DEF StreamOk
<1>9. CASE x.type = "done" /\ OnWorkerDone(c, x.p)
  <2>1. x.p \in Prompt /\ gathered' = gathered
    BY <1>3, <1>9 DEF Packet, OnWorkerDone
  <2>2. CASE Active(x.p)
    <3>1. TellAll({x.p}, [type |-> "done"]) /\ Schedule(line, Over({x.p}), Freed(c))
      BY <1>9, <2>2 DEF OnWorkerDone
    <3> QED
      BY <1>7, <1>8, <2>1, <3>1
  <2>3. CASE ~Active(x.p)
    <3>1. UNCHANGED <<wire, reg, made>>
      BY <1>9, <2>3 DEF OnWorkerDone, engineVars
    <3>2. \A o \in Prompt : SentOf(o)'
      BY <1>1, <2>1, <3>1, SentSame DEF StreamOk
    <3> QED
      BY <1>1, <3>1, <3>2 DEF StreamOk, Making
  <2> QED
    BY <2>2, <2>3
<1>10. CASE x.type = "error" /\ OnWorkerError(c, x.p)
  <2> DEFINE ended == IF Active(x.p) THEN {x.p} ELSE {}
  <2>1. x.p \in Prompt /\ gathered' = gathered
    BY <1>3, <1>10 DEF Packet, OnWorkerError
  <2>2. TellAll(ended, [type |-> "error"]) /\ Schedule(line, Over(ended), Freed(c))
    BY <1>10 DEF OnWorkerError
  <2>3. ended \in SUBSET Prompt
    BY <2>1
  <2> HIDE DEF ended
  <2> QED
    BY <1>7, <1>8, <2>1, <2>2, <2>3
<1> QED
  BY <1>3, <1>5, <1>6, <1>9, <1>10 DEF ReceiveFrom

LEMMA StreamOkNext ==
    ASSUME AnswersInv, StreamOk, [StreamNext]_streamVars
    PROVE  StreamOk'
<1>1. CASE UNCHANGED streamVars
  BY <1>1 DEF streamVars, workerVars, engineVars, callerVars, StreamOk, SentOf, Making
<1>2. ASSUME NEW p \in Prompt, CutCaller(p) PROVE StreamOk'
  <2>1. /\ wire' = [wire EXCEPT ![p] = <<>>]
        /\ UNCHANGED <<tab, made, reg, gathered, shown>>
    BY <1>2 DEF CutCaller, workerVars, engineVars
  <2>2. \A o \in Prompt : wire'[o] = wire[o] \/ wire'[o] = <<>>
    BY <2>1 DEF AnswersInv, Types, CallerTypes
  <2>3. \A o \in Prompt : SentOf(o)'
    BY <2>1, <2>2, EmptySeq DEF StreamOk, SentOf
  <2> QED
    BY <2>1, <2>3 DEF StreamOk, Making
<1>3. ASSUME NEW p \in Prompt, FailQueued(p) PROVE StreamOk'
  <2> DEFINE event == [type |-> "error"]
  <2>1. TellAll({p}, event) /\ UNCHANGED <<reg, tab, made, gathered, shown>>
    BY <1>3 DEF FailQueued, workerVars
  <2>2. \A o \in Prompt : wire'[o] \in Seq(Sent(o))
    <3>1. {p} \in SUBSET Prompt /\ \A o \in {p} : event \in Sent(o)
      BY DEF Sent
    <3> HIDE DEF event
    <3> QED
      BY <2>1, <3>1, SentTold DEF StreamOk
  <2>3. \A o \in Prompt : SentOf(o)'
    BY <2>1, <2>2 DEF StreamOk, SentOf
  <2> QED
    BY <2>1, <2>3 DEF StreamOk, Making
<1>4. ASSUME NEW p \in Prompt, Generate(p) \/ EndJob(p) PROVE StreamOk'
  <2>1. UNCHANGED <<reg, tab, wire, gathered, shown>>
    BY <1>4 DEF Generate, EndJob, engineVars, callerVars
  <2>2. \A o \in Prompt : made[o] \in [sock : Socket \cup {NoSocket}, n : Nat]
    BY DEF AnswersInv, Types, JobInv
  <2>3. \A o \in Prompt : made'[o].n = 0 \/ Making(o)'
    <3>1. CASE Generate(p)
      <4>1. Making(p) /\ made' = [made EXCEPT ![p].n = @ + 1]
        BY <3>1 DEF Generate, Making
      <4>2. \A o \in Prompt : made'[o] = made[o] \/ (o = p /\ made'[o].sock = made[o].sock)
        BY <2>2, <4>1 DEF AnswersInv, Types, JobInv
      <4> QED
        BY <4>1, <4>2 DEF StreamOk, Making
    <3>2. CASE EndJob(p)
      <4>1. made' = [made EXCEPT ![p] = NotMade]
        BY <3>2 DEF EndJob
      <4>2. \A o \in Prompt : made'[o] = made[o] \/ made'[o] = NotMade
        BY <4>1 DEF AnswersInv, Types, JobInv
      <4> QED
        BY <4>2 DEF StreamOk, Making, NotMade
    <3> QED
      BY <1>4, <3>1, <3>2
  <2>4. \A o \in Prompt : SentOf(o)'
    BY <2>1, SentSame DEF StreamOk
  <2> QED
    BY <2>1, <2>3, <2>4 DEF StreamOk
<1>5. ASSUME UNCHANGED <<reg, made, wire, gathered, shown>>,
             tab'.closed \subseteq tab'.created, tab'.ref \in tab'.created \cup {NoSocket}
      PROVE  StreamOk'
  BY <1>5 DEF StreamOk, Making, SentOf
<1>6. tab \in TabType
  BY DEF AnswersInv, Types, LinkInv
<1>7. CASE Start \/ LoadFails \/ \E s \in Socket : ModelLoads(s)
  <2>1. UNCHANGED <<reg, made, wire, gathered, shown>>
    BY <1>7 DEF Start, LoadFails, ModelLoads, engineVars, callerVars
  <2>2. CASE Start \/ LoadFails
    <3>1. tab'.created = tab.created /\ tab'.closed = tab.closed /\ tab'.ref = tab.ref
      BY <1>6, <2>2 DEF Start, LoadFails, TabType
    <3> QED
      BY <1>5, <2>1, <3>1 DEF StreamOk
  <2>3. ASSUME NEW s \in Socket, ModelLoads(s) PROVE StreamOk'
    <3>1. tab'.created = tab.created \cup {s} /\ tab'.closed = tab.closed /\ tab'.ref = s
      BY <1>6, <2>3 DEF ModelLoads, TabType
    <3> QED
      BY <1>5, <2>1, <3>1 DEF StreamOk
  <2> QED
    BY <1>7, <2>2, <2>3
<1>8. ASSUME NEW s \in Socket, NEW c \in Conn, ConnectWorker(s, c) PROVE StreamOk'
  <2>1. /\ tab' = [tab EXCEPT !.phase = "online"]
        /\ UNCHANGED <<reg, made, wire, gathered, shown>>
    BY <1>8 DEF ConnectWorker, engineVars, callerVars
  <2>2. tab'.created = tab.created /\ tab'.closed = tab.closed /\ tab'.ref = tab.ref
    BY <1>6, <2>1 DEF TabType
  <2> QED
    BY <1>5, <2>1, <2>2 DEF StreamOk
<1>9. ASSUME NEW c \in Conn, DropWorker(c) PROVE StreamOk'
  <2>1. /\ tab' = [tab EXCEPT !.phase = "idle"]
        /\ UNCHANGED <<reg, made, wire, gathered, shown>>
    BY <1>9 DEF DropWorker, engineVars, callerVars
  <2>2. tab'.created = tab.created /\ tab'.closed = tab.closed /\ tab'.ref = tab.ref
    BY <1>6, <2>1 DEF TabType
  <2> QED
    BY <1>5, <2>1, <2>2 DEF StreamOk
<1>10. CASE Stop
  <2>1. /\ tab' = [tab EXCEPT !.phase = "idle", !.closed = @ \cup ({tab.ref} \ {NoSocket}),
                              !.ref = NoSocket]
        /\ UNCHANGED <<reg, made, wire, gathered, shown>>
    BY <1>10 DEF Stop, engineVars, callerVars
  <2>2. /\ tab'.created = tab.created /\ tab'.closed = tab.closed \cup ({tab.ref} \ {NoSocket})
        /\ tab'.ref = NoSocket
    BY <1>6, <2>1 DEF TabType
  <2> QED
    BY <1>5, <2>1, <2>2 DEF StreamOk
<1>11. ASSUME NEW c \in Conn, WorkerGone(c) PROVE StreamOk'
  <2> DEFINE event == [type |-> "error"]
  <2>1. /\ TellAll(ServedOn(c), event)
        /\ Schedule(line, Over(ServedOn(c)), [reg EXCEPT ![c] = "none"])
        /\ UNCHANGED <<tab, gathered, shown>>
    BY <1>11 DEF WorkerGone, OnWorkerGone
  <2>2. \A o \in Prompt : wire'[o] \in Seq(Sent(o))
    <3>1. ServedOn(c) \in SUBSET Prompt /\ \A o \in ServedOn(c) : event \in Sent(o)
      BY DEF Sent, ServedOn
    <3> HIDE DEF event
    <3> QED
      BY <2>1, <3>1, SentTold DEF StreamOk
  <2>3. \A o \in Prompt : SentOf(o)'
    BY <2>1, <2>2 DEF StreamOk, SentOf
  <2>4. reg' \in RegType /\ \A o \in Prompt : made'[o].n = 0 \/ Making(o)'
    <3>1. [reg EXCEPT ![c] = "none"] \in RegType
      BY FreedOk DEF StreamOk
    <3> QED
      BY <2>1, <3>1, ScheduleRanges
  <2> QED
    BY <2>1, <2>3, <2>4 DEF StreamOk
<1> QED
  BY <1>1, <1>2, <1>3, <1>4, <1>7, <1>8, <1>9, <1>10, <1>11, SubmitOk, ShowOk, ReceiveOk
  DEF StreamNext

LEMMA StreamTypes == Spec => [](AnswersInv /\ StreamOk)
<1>1. Init => AnswersInv /\ StreamOk
  BY AnswersInit, StreamOkInit DEF Init
<1>2. AnswersInv /\ StreamOk /\ [Next]_vars => (AnswersInv /\ StreamOk)'
  BY StreamMoves, AnswersNext, StreamOkNext
<1> QED
  BY <1>1, <1>2, PTL DEF Spec
=============================================================================
