----------------------------- MODULE Assistant ------------------------------
(***************************************************************************)
(* The callers of Aristotle, the chat, the X bot and agents, over one       *)
(* database and one service, with the way of prompts and answers, and the   *)
(* failures of pages, connections and processes.                           *)
(* As in Accounts a behaviour has a workload (the bound).                  *)
(***************************************************************************)
EXTENDS Conversations, XBot, Streaming, Catalog

CONSTANTS
    Outcomes,   \* how the agent's tasks may end
    Workload    \* functions from Op to the number of such events

Op == {"send", "navigate", "reconnect", "reload", "restart", "rotate",
       "fault", "outcome", "mention", "link", "run", "death", "day",
       "ask", "start", "stop", "drop", "cut", "host", "menu", "submit", "tool"}

ASSUME AssistantAssumption ==
    \* A call of solve is one question's, one tool call's or a runner's.
    /\ Question \cap Call = {}
    /\ (Question \cup Call) \cap (Runner \X DOMAIN Mentions) = {}
    /\ Outcomes \subseteq Terminal
    /\ Workload \subseteq [Op -> Nat]

VARIABLE budget     \* what is left of the workload

routeVars == <<toolVars, catalogVars>>
vars == <<ariVars, chatVars, botVars, streamVars, routeVars, budget>>

Init ==
    /\ AriInit /\ ChatInit /\ BotInit /\ StreamInit /\ ToolsInit /\ CatalogInit
    /\ budget \in Workload
    \* A key that never changes may be any.
    /\ envKey = NoKey \/ budget["rotate"] > 0
    \* Nor do those that no agent uses matter.
    /\ (enabled /\ ~keyed) \/ budget["tool"] > 0

Spend(op) ==
    /\ budget[op] > 0
    /\ budget' = [budget EXCEPT ![op] = @ - 1]

\* Ids are interchangeable: a new one is any of those that are free.
AnyOf(free) == IF free = {} THEN {} ELSE {CHOOSE x \in free : TRUE}

NewCode == AnyOf(Code \ Issued)
NewSocket == AnyOf(Socket \ tab.created)
NewRequest == AnyOf({j \in Request : request[j].phase = "none"})
NewCall == AnyOf({t \in Call : tool[t].phase = "idle"})
NewConn == AnyOf({c \in Conn : link[c].state = "unused"})

PageStep ==
    /\ \/ Spend("send") /\ \E q \in Question : Send(q)
       \/ /\ Spend("navigate")
          /\ NewChat \/ \E c \in Listed : OpenChat(c) \/ DeleteChat(c)
    /\ UNCHANGED <<botVars, streamVars, routeVars>>

\* The callers of solve in the orchestrator; the bot is a process of its own.
InProcess == Question \cup Call

FailureStep ==
    /\ \/ Spend("reconnect") /\ Reconnect /\ UNCHANGED routeVars
       \/ Spend("reload") /\ Reload /\ UNCHANGED routeVars
       \/ Spend("restart") /\ Restart(envKey, InProcess) /\ RoutesLost
       \/ /\ Spend("rotate")
          /\ \E env \in EnvKey \cup {NoKey} : Restart(env, InProcess)
          /\ RoutesLost
    /\ UNCHANGED <<botVars, streamVars>>

JobStep(q) ==
    /\ Serve(q) \/ Finish(q) \/ Deliver(q)
    /\ UNCHANGED <<botVars, streamVars, routeVars, budget>>

ClientStep(a) ==
    /\ \/ Spend("fault") /\ RequestFails(a)
       \/ UNCHANGED budget /\ SolveStep(a)
    /\ UNCHANGED <<chatVars, botVars, streamVars, routeVars>>

AgentStep ==
    /\ Spend("outcome")
    /\ \E p \in DOMAIN projects : \E i \in DOMAIN projects[p], status \in Outcomes :
         EndTask(p, i, status)
    /\ UNCHANGED <<chatVars, botVars, streamVars, routeVars>>

OutsideStep ==
    /\ \/ Spend("mention") /\ Mentioned
       \/ Spend("day") /\ Midnight
       \/ /\ Spend("link")
          /\ StartLinkFails \/ LoadStatus \/ \E c \in NewCode : StartLink(c)
    /\ UNCHANGED <<chatVars, streamVars, routeVars>>

BotStep(r) ==
    /\ \/ Spend("run") /\ StartRun(r)
       \/ Spend("death") /\ Die(r)
       \/ UNCHANGED budget /\ RunStep(r)
    /\ UNCHANGED <<chatVars, streamVars, routeVars>>

AnswerStep ==
    /\ \/ Spend("ask") /\ \E p \in Prompt : Submit(p)
       \/ Spend("start") /\ Start
       \/ Spend("stop") /\ Stop
       \/ Spend("drop") /\ \E c \in Conn : DropWorker(c)
       \/ Spend("cut") /\ \E p \in Prompt : CutCaller(p)
       \/ /\ \/ \E p \in Prompt : FailQueued(p) \/ Generate(p) \/ EndJob(p) \/ Show(p)
             \/ \E c \in Conn : ReceiveFrom(c) \/ WorkerGone(c)
             \/ \E s \in Socket, c \in NewConn : ConnectWorker(s, c)
             \/ LoadFails \/ \E s \in NewSocket : ModelLoads(s)
          /\ UNCHANGED budget
    /\ UNCHANGED <<ariVars, chatVars, botVars, routeVars>>

\* Prompts on their way, with registration, the pages' lists and agents.
RouteStep ==
    /\ \/ /\ \/ Spend("host") /\ \E h \in Host : Register(h) \/ Unregister(h)
             \/ /\ Spend("menu")
                /\ \E p \in PageName : OpenMenu(p) \/ \E m \in menu[p].models : Choose(p, m)
             \/ /\ Spend("submit")
                /\ \E j \in NewRequest, p \in PageName, kind \in {"chat", "agent", "image"} :
                     SubmitRequest(j, p, kind)
             \/ /\ \/ \E p \in PageName : LoadMenu(p)
                   \/ \E j \in Request :
                        \/ RouteAgent(j) \/ ToolReturns(j) \/ EndAgent(j) \/ RouteJob(j)
                        \/ \E arithmetic \in BOOLEAN : RouteExternal(j, arithmetic)
                /\ UNCHANGED budget
          /\ UNCHANGED <<ariVars, toolVars>>
       \/ /\ Spend("tool")
          /\ \E j \in Request, t \in NewCall, name \in ToolNames, arithmetic \in BOOLEAN :
               CallTool(j, t, name, arithmetic)
    /\ UNCHANGED <<chatVars, botVars, streamVars>>

CallStep(t) ==
    /\ ToolStep(t)
    /\ UNCHANGED <<chatVars, botVars, streamVars, catalogVars, budget>>

Next ==
    \/ AnswerStep \/ RouteStep
    \/ \E t \in Call : CallStep(t)
    \/ PageStep \/ FailureStep \/ AgentStep \/ OutsideStep
    \/ \E q \in Question : JobStep(q)
    \/ \E a \in Asker : ClientStep(a)
    \/ \E r \in Runner : BotStep(r)

Spec == Init /\ [][Next]_vars

\* Fairness: the orchestrator's handlers run, its requests and polls are
\* answered or time out.  Nothing is assumed of the agent, nor of the bot.
Fairness ==
    /\ \A q \in Question : WF_vars(JobStep(q) \/ ClientStep(q))
    /\ \A t \in Call : WF_vars(CallStep(t) \/ ClientStep(t))

FairSpec == Spec /\ Fairness

(***************************************************************************)
(* Properties.                                                             *)
(***************************************************************************)
\* The types of every variable, and that the open conversation is listed
\* whenever the page has just been loaded or has lost one.
TypeOK ==
    /\ projects \in Seq(Seq([asker : Asker, status : Running \cup Terminal]))
    /\ \A a \in Asker :
         /\ solve[a].phase \in {"idle", "requesting", "polling", "returned", "done"}
         /\ solve[a].project \in {NoProject} \cup DOMAIN projects
         /\ solve[a].result \in {"none", "error", "answered", "verified"}
    /\ convos \in Seq(Convo) /\ Cardinality(Listed) = Len(convos)
    /\ activeId \in {NoConvo} \cup Listed
    /\ place \in [Question -> Convo \cup {NoConvo}]
    /\ msg \in [Question -> {"none", "streaming", "answered", "failed", "gone"}]
    /\ sockets \subseteq jobConvo /\ jobConvo \subseteq Question
    /\ packet \in [Question -> {"none", "job.submit", "job.done", "job.error"}]
    /\ remembered \in [Convo -> {NoProject} \cup DOMAIN projects]
    /\ posted \in 0 .. Len(Mentions) /\ cursor \in 0 .. posted
    /\ \A t \in DOMAIN Mentions :
         requests[t].status \in {"none", "accepted", "rejected", "replied", "failed"}
    /\ replies \in [DOMAIN Mentions -> Nat]
    /\ linkedTo \in [Code -> Handle \cup {NoHandle}]
    /\ linkPanel.phase \in {"idle", "creating", "error"}
    /\ \A p \in Prompt :
         /\ job[p].state \in {"none", "queued", "assigned", "over"}
         /\ said[p] \in {"none", "waiting", "done", "error"}
         /\ made[p].n \in 0 .. Size[p] /\ shown[p] \in Seq(1 .. Size[p])
    /\ \A c \in Conn :
         /\ reg[c] \in {"none", "idle", "busy"}
         /\ link[c].state \in {"unused", "open", "half", "closing", "gone"}
    /\ tab.phase \in {"idle", "loading", "online", "error"} /\ tab.closed \subseteq tab.created
    /\ \A t \in Call : tool[t].phase \in
         {"idle", "provider", "wikipedia", "duckduckgo", "aristotle", "answered", "lost"}
    /\ registry \subseteq Host
    /\ \A p \in PageName : menu[p].chosen \in menu[p].models
    /\ \A j \in Request : request[j].phase \in {"none", "sent", "agent", "tool", "over"}

\* What was asked of project p.
AskedIn(p) == {projects[p][i].asker : i \in DOMAIN projects[p]}

\* What an agent is told is verified was completed for that very call.  A signed
\* record that says verified names a project in which its run was asked and in
\* which a question of the same conversation was completed: its own, if its run
\* opened the project.  Tools and opening questions know no id, and rely on
\* nobody else asking in their project (aristotle.ts:177-182).
VerifiedInThread ==
    /\ \A t \in Call : tool[t].result = "verified" =>
         \E i \in DOMAIN projects[solve[t].project] :
            projects[solve[t].project][i] = [asker |-> t, status |-> "COMPLETE"]
    /\ \A r \in {row.payload : row \in attested} : r.verified =>
         /\ r.run \in AskedIn(r.project)
         /\ \E i \in DOMAIN projects[r.project] :
              LET task == projects[r.project][i]
              IN  /\ task.status = "COMPLETE" /\ task.asker \in Question
                  /\ place[task.asker] = place[r.run]
                  /\ projects[r.project][1].asker = r.run => task.asker = r.run

\* "On a follow-up, watch the task the ask() created" (aristotle.ts:176), and "we
\* sign (run, project, prompt hash)" (schema.ts:81-82): the project of a record that
\* says verified has the completed task of that very run.
VerifiedMeansProved ==
    \A r \in {row.payload : row \in attested} : r.verified =>
        \E i \in DOMAIN projects[r.project] :
           projects[r.project][i] = [asker |-> r.run, status |-> "COMPLETE"]

\* "rotating keys never breaks old proofs" (server.ts:622): the proof page finds
\* every record's signature valid, whatever keys were used since.
ProofsOutlastRotation == \A row \in attested : ProofValid(row)

\* A project is the thread of one conversation: no question of another, and no
\* mention, is ever put to an agent that has its context.
ThreadsStayApart ==
    \A p \in DOMAIN projects : \A a, b \in AskedIn(p) :
        a # b => a \in Question /\ b \in Question /\ place[a] = place[b]

Ended(p) == said[p] \in {"done", "error"}

\* What a caller is shown of an answer is its tokens in order and without
\* repetition; nothing follows its end, whatever its worker still sends; and an
\* answer that ended well is whole, unless tokens of it were on a worker's
\* connection when that died.
AnswerWhole ==
    \A p \in Prompt :
        /\ \A i, j \in DOMAIN shown[p] : i < j => shown[p][i] < shown[p][j]
        /\ Ended(p) => wire[p] = <<>>
        /\ \A i \in DOMAIN wire[p] : wire[p][i].type # "token" => i = Len(wire[p])
        /\ said[p] = "done" /\ p \notin torn => Len(shown[p]) = Size[p]

\* When no more is asked, every answer has stopped streaming, if the connection
\* it was asked over lasts; and every agent, which has no timer, has the result
\* of its call.
StreamingEnds ==
    <>[](/\ \A q \in Question : msg[q] = "streaming" => q \notin sockets
         /\ \A t \in Call : tool[t].phase \in {"idle", "answered", "lost"})

\* "Every such step is labelled leaves network" (README.md:125-126), and a prompt
\* that is not stays inside: one leaves only if its model was shown as external,
\* or its agent called verified_math, and after a warning.  And a page gets what
\* it asks for, an image or a text, whichever workers came and went.
PromptsGoWhereShown ==
    \A j \in Request : request[j].phase # "none" =>
        /\ request[j].left => request[j].warned /\ (request[j].marked \/ request[j].kind = "agent")
        /\ request[j].made # "none" =>
             (request[j].made = "image" <=> request[j].page = "create")

\* The requests of h that the limited tier let through on a day.
LetThrough(h, d) ==
    {t \in DOMAIN Mentions :
        /\ Mentions[t].handle = h
        /\ requests[t].status \in {"accepted", "replied"}
        /\ requests[t].day = d /\ requests[t].tier = "limited"}

\* With one run at a time, the daily quota holds of what was not failed, runs that
\* died in the middle included.
QuotaKept ==
    \A h \in Handle, d \in 0 .. today : Cardinality(LetThrough(h, d)) <= DailyLimit

\* A link code binds one handle for good, whoever tweets it afterwards; so what
\* the panel shows as linked is.
CodeBindsOnce ==
    [][/\ \A c \in Code : linkedTo[c] # NoHandle => linkedTo'[c] = linkedTo[c]
       /\ linkPanel'.handle # NoHandle => linkedTo'[linkPanel'.code] = linkPanel'.handle]_vars

\* "oldest first so the cursor advances monotonically" (xbot-run.ts:78): with
\* one run at a time, deaths and the cap of a run included.
CursorMonotone == [][cursor' >= cursor]_vars

\* "One row per handled mention: idempotency (never reply twice)"
\* (schema.ts:134): a mention has at most one reply.
NoSecondReply == \A t \in DOMAIN Mentions : replies[t] <= 1
=============================================================================
