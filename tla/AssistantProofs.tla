--------------------------- MODULE AssistantProofs ---------------------------
(***************************************************************************)
(* Proofs about Assistant, for every set of questions, calls, prompts,     *)
(* keys, handles, codes and workloads: what a link code and a provenance   *)
(* record are worth does not wear off, a mention is never asked for again, *)
(* the conversations of a page stay apart, what is shown as verified stays *)
(* in its conversation, a visitor's quota holds with one run at a time, a  *)
(* prompt goes where the page says it goes, and every variable has its     *)
(* type.                                                                   *)
(***************************************************************************)
EXTENDS Assistant, StreamingProofs, SequenceTheorems, FiniteSetTheorems, TLAPS

-----------------------------------------------------------------------------
(***************************************************************************)
(* Provenance records.                                                     *)
(***************************************************************************)
\* A record is signed with the key it names.
RowOk(row) ==
    /\ row = [payload |-> row.payload, signature |-> row.signature, public |-> row.public]
    /\ row.public # NoKey
    /\ row.signature = Sign(row.payload, row.public)

AttestInv ==
    /\ envKey \in EnvKey \cup {NoKey}
    /\ key # NoKey
    /\ \A row \in attested : RowOk(row)

LEMMA AttestInvInit == ChatInit => AttestInv
<1> SUFFICES ASSUME ChatInit PROVE AttestInv
  OBVIOUS
<1> DEFINE row(p) == [payload |-> p, signature |-> Sign(p, key), public |-> NoKey]
<1>1. /\ envKey \in EnvKey \cup {NoKey} /\ key # NoKey
      /\ attested = Backfilled({row(p) : p \in LegacyRecords}, key)
  BY AttestAssumption DEF ChatInit, AttestInit, ChosenKey
<1>2. ASSUME NEW p PROVE RowOk([row(p) EXCEPT !.public = key])
  BY <1>1 DEF RowOk
<1>3. ASSUME NEW r \in attested PROVE RowOk(r)
  <2>1. PICK p \in LegacyRecords :
          r = IF row(p).public = NoKey THEN [row(p) EXCEPT !.public = key] ELSE row(p)
    BY <1>1 DEF Backfilled
  <2>2. row(p).public = NoKey
    OBVIOUS
  <2> QED
    BY <1>2, <2>1, <2>2
<1> QED
  BY <1>1, <1>2, <1>3 DEF AttestInv

LEMMA BootKeeps ==
    ASSUME AttestInv, NEW env \in EnvKey \cup {NoKey}, Boot(env)
    PROVE  AttestInv'
<1>1. envKey' \in EnvKey \cup {NoKey}
  BY DEF Boot
<1>2. key' # NoKey
  BY AttestAssumption DEF Boot, ChosenKey
<1>3. attested' = attested
  BY DEF Boot, Backfilled, AttestInv, RowOk
<1> QED
  BY <1>1, <1>2, <1>3 DEF AttestInv

LEMMA RecordKeeps ==
    ASSUME AttestInv, NEW q, Record(q)
    PROVE  AttestInv'
<1> DEFINE payload == Payload(q, solve[q].project, solve[q].result = "verified")
           new == [payload |-> payload, signature |-> Sign(payload, key), public |-> key]
<1>1. attested' = attested \cup {new} /\ envKey' = envKey /\ key' = key
  BY DEF Record, Attested
<1>2. RowOk(new)
  <2> HIDE DEF payload
  <2> QED  BY DEF RowOk, AttestInv
<1> QED
  BY <1>1, <1>2 DEF AttestInv

\* Only an answer that is attested and a start of the server touch the records.
LEMMA AttestMoves ==
    ASSUME AttestInv, [Next]_vars
    PROVE  AttestInv'
<1> USE DEF chatVars, routeVars
<1>1. ASSUME UNCHANGED attestVars PROVE AttestInv'
  BY <1>1 DEF attestVars, AttestInv
<1>2. CASE UNCHANGED vars
  BY <1>1, <1>2 DEF vars
<1>3. CASE AnswerStep
  BY <1>1, <1>3 DEF AnswerStep
<1>4. CASE RouteStep
  BY <1>1, <1>4 DEF RouteStep
<1>5. ASSUME NEW t \in Call, CallStep(t) PROVE AttestInv'
  BY <1>1, <1>5 DEF CallStep
<1>6. CASE PageStep
  BY <1>1, <1>6 DEF PageStep, Send, NewChat, OpenChat, DeleteChat
<1>7. CASE FailureStep
  <2>1. CASE Reconnect \/ Reload
    BY <1>1, <2>1 DEF Reconnect, Reload
  <2>2. CASE Restart(envKey, InProcess)
    BY <2>2, BootKeeps DEF Restart, AttestInv
  <2>3. CASE \E env \in EnvKey \cup {NoKey} : Restart(env, InProcess)
    BY <2>3, BootKeeps DEF Restart
  <2> QED
    BY <1>7, <2>1, <2>2, <2>3 DEF FailureStep
<1>8. CASE AgentStep \/ OutsideStep
  BY <1>1, <1>8 DEF AgentStep, OutsideStep
<1>9. ASSUME NEW q \in Question, JobStep(q) PROVE AttestInv'
  <2>1. CASE Serve(q) \/ Deliver(q)
    BY <1>1, <2>1 DEF Serve, Deliver
  <2>2. CASE Finish(q)
    BY <1>1, <2>2, RecordKeeps DEF Finish
  <2> QED
    BY <1>9, <2>1, <2>2 DEF JobStep
<1>10. ASSUME NEW a \in Asker, ClientStep(a) PROVE AttestInv'
  BY <1>1, <1>10 DEF ClientStep
<1>11. ASSUME NEW r \in Runner, BotStep(r) PROVE AttestInv'
  BY <1>1, <1>11 DEF BotStep
<1> QED
  BY <1>2, <1>3, <1>4, <1>5, <1>6, <1>7, <1>8, <1>9, <1>10, <1>11 DEF Next

\* ProofsOutlastRotation of Assistant: whatever keys the server was started
\* with since, the proof page finds every record of the /attest routes valid.
THEOREM RotationIsHarmless == Spec => []ProofsOutlastRotation
<1>1. Init => AttestInv
  BY AttestInvInit DEF Init
<1>2. AttestInv /\ [Next]_vars => AttestInv'
  BY AttestMoves
<1>3. AttestInv => ProofsOutlastRotation
  BY DEF AttestInv, RowOk, ProofsOutlastRotation, ProofValid, Served, Verifies, Sign
<1> QED
  BY <1>1, <1>2, <1>3, PTL DEF Spec

-----------------------------------------------------------------------------
(***************************************************************************)
(* Link codes.                                                             *)
(***************************************************************************)
codeVars == <<linkedTo, codes, linkPanel>>

CodeNext ==
    \/ \E c \in Code : StartLink(c)
    \/ StartLinkFails \/ LoadStatus
    \/ \E c \in Code : \E h : Bind(c, h) /\ UNCHANGED <<codes, linkPanel>>

LEMMA FreshCode == NewCode \subseteq Code
BY DEF NewCode, AnyOf

LEMMA CodeMoves == [Next]_vars => [CodeNext]_codeVars
<1> SUFFICES ASSUME [Next]_vars PROVE CodeNext \/ UNCHANGED codeVars
  BY DEF CodeNext
<1> USE DEF botVars, codeVars
<1>1. CASE UNCHANGED vars
  BY <1>1 DEF vars
<1>2. CASE AnswerStep \/ RouteStep \/ PageStep
  BY <1>2 DEF AnswerStep, RouteStep, PageStep
<1>3. CASE FailureStep \/ AgentStep
  BY <1>3 DEF FailureStep, AgentStep
<1>4. ASSUME NEW t \in Call, CallStep(t) PROVE UNCHANGED codeVars
  BY <1>4 DEF CallStep
<1>5. ASSUME NEW q \in Question, JobStep(q) PROVE UNCHANGED codeVars
  BY <1>5 DEF JobStep
<1>6. ASSUME NEW a \in Asker, ClientStep(a) PROVE UNCHANGED codeVars
  BY <1>6 DEF ClientStep
<1>7. ASSUME OutsideStep PROVE CodeNext \/ UNCHANGED codeVars
  BY <1>7, FreshCode DEF OutsideStep, Mentioned, Midnight, CodeNext
<1>8. ASSUME NEW r \in Runner, BotStep(r) PROVE CodeNext \/ UNCHANGED codeVars
  <2>1. CASE StartRun(r) \/ Die(r)
    BY <2>1 DEF StartRun, Die
  <2>2. CASE FetchMentions(r) \/ EndRun(r) \/ Reply(r)
    BY <2>2 DEF FetchMentions, EndRun, Reply
  <2>3. CASE Gated(r) \/ Accept(r) \/ Proved(r)
    BY <2>3 DEF Gated, Accept, Proved
  <2>4. CASE TakeMention(r)
    <3>1. UNCHANGED <<codes, linkPanel>>
      BY <2>4 DEF TakeMention
    <3>2. UNCHANGED linkedTo \/ \E c \in Code : \E h : Bind(c, h)
      BY <2>4 DEF TakeMention
    <3> QED
      BY <3>1, <3>2 DEF CodeNext
  <2> QED
    BY <1>8, <2>1, <2>2, <2>3, <2>4 DEF BotStep, RunStep
<1> QED
  BY <1>1, <1>2, <1>3, <1>4, <1>5, <1>6, <1>7, <1>8 DEF Next

\* What the panel shows as linked is linked.
CodeInv ==
    /\ DOMAIN linkedTo = Code
    /\ codes \in Seq(Code)
    /\ DOMAIN linkPanel = {"phase", "code", "handle"}
    /\ linkPanel.handle # NoHandle =>
         linkPanel.code \in Code /\ linkedTo[linkPanel.code] = linkPanel.handle

BoundStays == \A c \in Code : linkedTo[c] # NoHandle => linkedTo'[c] = linkedTo[c]

LEMMA CodeInvInit == BotInit => CodeInv
BY DEF BotInit, CodeInv

LEMMA CodeInvNext == CodeInv /\ [CodeNext]_codeVars => CodeInv' /\ BoundStays
<1> SUFFICES ASSUME CodeInv, [CodeNext]_codeVars PROVE CodeInv' /\ BoundStays
  OBVIOUS
<1> USE DEF CodeInv, BoundStays
<1>1. CASE UNCHANGED codeVars
  BY <1>1 DEF codeVars
<1>2. ASSUME NEW c \in Code, StartLink(c) PROVE CodeInv' /\ BoundStays
  BY <1>2 DEF StartLink
<1>3. CASE StartLinkFails
  BY <1>3 DEF StartLinkFails
<1>4. CASE LoadStatus
  <2>1. codes # <<>> /\ codes[Len(codes)] \in Code
    BY <1>4 DEF LoadStatus
  <2> QED
    BY <1>4, <2>1 DEF LoadStatus, LinkStatus
<1>5. ASSUME NEW c \in Code, NEW h, Bind(c, h), UNCHANGED <<codes, linkPanel>>
      PROVE  CodeInv' /\ BoundStays
  BY <1>5 DEF Bind
<1> QED
  BY <1>1, <1>2, <1>3, <1>4, <1>5 DEF CodeNext

\* CodeBindsOnce of Assistant: no tweet that repeats a code rebinds it, and the
\* panel's "linked" is never taken back, for any number of runners at once.
THEOREM CodesBindOnce == Spec => CodeBindsOnce
<1> DEFINE A == /\ \A c \in Code : linkedTo[c] # NoHandle => linkedTo'[c] = linkedTo[c]
                /\ linkPanel'.handle # NoHandle =>
                     linkedTo'[linkPanel'.code] = linkPanel'.handle
<1>1. Init => CodeInv
  BY CodeInvInit DEF Init
<1>2. CodeInv /\ [Next]_vars => CodeInv' /\ A
  BY CodeInvNext, CodeMoves DEF CodeInv, BoundStays
<1>3. CodeInv /\ [Next]_vars => CodeInv' /\ [A]_vars
  BY <1>2
<1> QED
  BY <1>1, <1>3, PTL DEF Spec, CodeBindsOnce

-----------------------------------------------------------------------------
(***************************************************************************)
(* What a step may be to whoever asks Aristotle.                           *)
(***************************************************************************)
mentionVars == <<posted, cursor, requests, run, today>>
askVars == <<ariVars, place, packet, remembered, attested, tool, mentionVars>>

\* The conversations: what is asked, served, told and lost.
ChatMove ==
    /\ \/ \E q \in Question : Send(q) \/ Serve(q) \/ Finish(q) \/ Deliver(q)
       \/ /\ Disconnected
          /\ UNCHANGED <<ariVars, place, remembered, attested>>
    /\ UNCHANGED <<tool, mentionVars>>

RestartMove ==
    /\ \E env : Restart(env, InProcess)
    /\ RoutesLost
    /\ UNCHANGED mentionVars

ClientMove ==
    /\ \/ \E a \in Asker : RequestFails(a) \/ SolveStep(a)
       \/ \E p \in DOMAIN projects : \E i \in DOMAIN projects[p], status \in Outcomes :
            EndTask(p, i, status)
    /\ UNCHANGED <<chatVars, tool, mentionVars>>

CallMove ==
    /\ \E t \in Call :
         \/ ToolStep(t)
         \/ \E name \in ToolNames, arithmetic \in BOOLEAN : ExecuteTool(t, name, arithmetic)
    /\ UNCHANGED <<chatVars, mentionVars>>

BotMove ==
    /\ \/ Mentioned \/ Midnight
       \/ \E r \in Runner : StartRun(r) \/ Die(r) \/ RunStep(r)
    /\ UNCHANGED <<chatVars, tool>>

AskNext == ChatMove \/ RestartMove \/ ClientMove \/ CallMove \/ BotMove

LEMMA AskMoves == [Next]_vars => [AskNext]_askVars
<1> SUFFICES ASSUME [Next]_vars PROVE AskNext \/ UNCHANGED askVars
  OBVIOUS
<1> USE DEF mentionVars, botVars, routeVars
<1>1. CASE UNCHANGED vars
  BY <1>1 DEF vars, askVars, chatVars, pageVars, attestVars, toolVars
<1>2. CASE AnswerStep
  BY <1>2 DEF AnswerStep, askVars, chatVars, pageVars, attestVars, toolVars
<1>3. CASE RouteStep
  <2>1. CASE UNCHANGED <<ariVars, toolVars, chatVars, botVars>>
    BY <2>1 DEF askVars, chatVars, pageVars, attestVars, toolVars
  <2>2. ASSUME NEW j \in Request, NEW t \in NewCall, NEW name \in ToolNames,
               NEW arithmetic \in BOOLEAN, CallTool(j, t, name, arithmetic),
               UNCHANGED <<chatVars, botVars>>
        PROVE  CallMove
    <3>1. t \in Call
      BY DEF NewCall, AnyOf
    <3>2. ExecuteTool(t, name, arithmetic)
      BY <2>2 DEF CallTool
    <3> QED
      BY <2>2, <3>1, <3>2 DEF CallMove
  <2> QED
    BY <1>3, <2>1, <2>2 DEF RouteStep, AskNext
<1>4. ASSUME NEW t \in Call, CallStep(t) PROVE CallMove
  BY <1>4 DEF CallStep, CallMove
<1>5. CASE PageStep
  <2>1. UNCHANGED <<tool, mentionVars>>
    BY <1>5 DEF PageStep, toolVars
  <2>2. (\E q \in Question : Send(q)) \/ UNCHANGED <<ariVars, place, packet, remembered, attested>>
    BY <1>5 DEF PageStep, NewChat, OpenChat, DeleteChat, attestVars
  <2> QED
    BY <2>1, <2>2 DEF AskNext, ChatMove, askVars
<1>6. CASE FailureStep
  <2>1. UNCHANGED mentionVars
    BY <1>6 DEF FailureStep
  <2>2. CASE (Reconnect \/ Reload) /\ UNCHANGED routeVars
    BY <2>1, <2>2 DEF Reconnect, Reload, AskNext, ChatMove, attestVars, toolVars
  <2>3. CASE (\E env : Restart(env, InProcess)) /\ RoutesLost
    BY <2>1, <2>3 DEF AskNext, RestartMove
  <2> QED
    BY <1>6, <2>2, <2>3 DEF FailureStep
<1>7. CASE AgentStep
  BY <1>7 DEF AgentStep, AskNext, ClientMove, toolVars
<1>8. CASE OutsideStep
  <2>1. CASE Mentioned \/ Midnight
    BY <1>8, <2>1 DEF OutsideStep, AskNext, BotMove, toolVars
  <2>2. CASE StartLinkFails \/ LoadStatus \/ \E c \in NewCode : StartLink(c)
    <3>1. UNCHANGED <<ariVars, mentionVars>>
      BY <2>2 DEF StartLinkFails, LoadStatus, StartLink
    <3> QED
      BY <1>8, <3>1 DEF OutsideStep, askVars, chatVars, pageVars, attestVars, toolVars
  <2> QED
    BY <1>8, <2>1, <2>2 DEF OutsideStep
<1>9. ASSUME NEW q \in Question, JobStep(q) PROVE ChatMove
  BY <1>9 DEF JobStep, ChatMove, toolVars
<1>10. ASSUME NEW a \in Asker, ClientStep(a) PROVE ClientMove
  BY <1>10 DEF ClientStep, ClientMove, toolVars
<1>11. ASSUME NEW r \in Runner, BotStep(r) PROVE BotMove
  BY <1>11 DEF BotStep, BotMove, toolVars
<1> QED
  BY <1>1, <1>2, <1>3, <1>4, <1>5, <1>6, <1>7, <1>8, <1>9, <1>10, <1>11 DEF Next, AskNext

-----------------------------------------------------------------------------
(***************************************************************************)
(* The runners of the bot.                                                 *)
(***************************************************************************)
\* A runner is on a mention.
OnOne == {"gating", "limited", "unlimited", "proving", "replying"}

\* A runner works through a page of what has been posted, on a mention of it.
RunOk(ran) ==
    /\ "phase" \in DOMAIN ran
    /\ ran.phase \in {"off", "fetching", "next"} \cup OnOne
    /\ ran.phase = "fetching" => ran.since \in 0 .. posted
    /\ ran.phase \in {"next"} \cup OnOne =>
         "todo" \in DOMAIN ran /\ ran.todo \in Seq(1 .. posted)
    /\ ran.phase \in OnOne => ran.todo # <<>>

RunInv ==
    /\ posted \in 0 .. Len(Mentions) /\ cursor \in 0 .. posted
    /\ DOMAIN run = Runner
    /\ \A r \in Runner : RunOk(run[r])

\* From the gate to the reply a runner stays on its mention.
LEMMA GoesOn ==
    ASSUME NEW r \in Runner, Gated(r) \/ Accept(r) \/ Proved(r)
    PROVE  /\ run[r].phase \in OnOne \ {"replying"}
           /\ \E phase \in OnOne : Goto(r, phase)
           /\ UNCHANGED <<posted, cursor, replies, linkedTo, codes, linkPanel, today>>
<1>1. CASE Gated(r)
  <2>1. PICK held \in BalanceOf :
          Goto(r, "replying") \/ (TierFor(held) # "none" /\ Goto(r, TierFor(held)))
    BY <1>1 DEF Gated
  <2>2. TierFor(held) # "none" => TierFor(held) \in OnOne
    BY DEF TierFor, OnOne
  <2>3. \E phase \in OnOne : Goto(r, phase)
    BY <2>1, <2>2 DEF OnOne
  <2> QED
    BY <1>1, <2>3 DEF Gated, OnOne
<1>2. CASE Accept(r)
  BY <1>2 DEF Accept, OnOne
<1>3. CASE Proved(r)
  BY <1>3 DEF Proved, OnOne
<1> QED
  BY <1>1, <1>2, <1>3

\* One runner moves, and the cursor with it or not.
LEMMA OneRunner ==
    ASSUME RunInv, posted' = posted, cursor' \in 0 .. posted,
           NEW r \in Runner, NEW ran, RunOk(ran), run' = [run EXCEPT ![r] = ran]
    PROVE  RunInv'
BY DEF RunInv, RunOk

LEMMA FunctionIsSeq ==
    ASSUME NEW S, NEW n \in Nat, NEW f \in [1 .. n -> S]
    PROVE  f \in Seq(S) /\ Len(f) = n
BY SeqDef

LEMMA PageType ==
    ASSUME RunInv, NEW since \in 0 .. posted
    PROVE  Page(since) \in Seq(1 .. posted)
<1> DEFINE first == IF posted - since < PageSize THEN since ELSE posted - PageSize
<1>1. posted \in Nat /\ PageSize \in Nat \ {0}
  BY XBotAssumption DEF RunInv
<1>2. first \in 0 .. posted
  BY <1>1
<1>3. Page(since) = [i \in 1 .. posted - first |-> first + i]
  BY DEF Page
<1> HIDE DEF first
<1>4. \A i \in 1 .. posted - first : first + i \in 1 .. posted
  BY <1>1, <1>2
<1>5. posted - first \in Nat
  BY <1>1, <1>2
<1> QED
  BY <1>3, <1>4, <1>5, FunctionIsSeq

LEMMA RunnerKeeps ==
    ASSUME RunInv, NEW r \in Runner, StartRun(r) \/ Die(r) \/ RunStep(r)
    PROVE  RunInv'
<1> USE DEF RunInv
<1>0. RunOk(run[r]) /\ RunOk(Off)
  BY DEF RunOk, Off, OnOne
<1>1. CASE StartRun(r)
  <2> DEFINE ran == [phase |-> "fetching", since |-> cursor, handled |-> 0]
  <2>1. RunOk(ran)
    BY DEF RunOk, OnOne
  <2>2. run' = [run EXCEPT ![r] = ran] /\ UNCHANGED <<posted, cursor>>
    BY <1>1 DEF StartRun
  <2> HIDE DEF ran
  <2> QED
    BY <2>1, <2>2, OneRunner
<1>2. CASE Die(r) \/ EndRun(r)
  <2>1. run' = [run EXCEPT ![r] = Off] /\ UNCHANGED <<posted, cursor>>
    BY <1>2 DEF Die, EndRun
  <2> QED
    BY <1>0, <2>1, OneRunner
<1>3. CASE FetchMentions(r)
  <2> DEFINE ran == [phase |-> "next", todo |-> Page(run[r].since), handled |-> 0]
  <2>1. run[r].since \in 0 .. posted
    BY <1>0, <1>3 DEF FetchMentions, RunOk
  <2>2. RunOk(ran)
    BY <2>1, PageType DEF RunOk, OnOne
  <2>3. run' = [run EXCEPT ![r] = ran] /\ UNCHANGED <<posted, cursor>>
    BY <1>3 DEF FetchMentions
  <2> HIDE DEF ran
  <2> QED
    BY <2>2, <2>3, OneRunner
<1>4. ASSUME NEW phase \in OnOne, Goto(r, phase),
             "todo" \in DOMAIN run[r],
             run[r].todo \in Seq(1 .. posted), run[r].todo # <<>>,
             posted' = posted, cursor' \in 0 .. posted
      PROVE  RunInv'
  <2> DEFINE ran == [run[r] EXCEPT !.phase = phase]
  <2>1. run' = [run EXCEPT ![r] = ran]
    BY <1>4 DEF Goto
  <2>2. RunOk(ran)
    BY <1>4, <1>0 DEF RunOk, OnOne
  <2> HIDE DEF ran
  <2> QED
    BY <1>4, <2>1, <2>2, OneRunner
<1>5. CASE TakeMention(r)
  <2>1. /\ "todo" \in DOMAIN run[r] /\ run[r].todo \in Seq(1 .. posted)
        /\ run[r].todo # <<>> /\ run[r].phase = "next"
    BY <1>0, <1>5 DEF TakeMention, RunOk, OnOne
  <2>2. Head(run[r].todo) \in 1 .. posted /\ Tail(run[r].todo) \in Seq(1 .. posted)
    BY <2>1, HeadTailProperties
  <2>3. posted' = posted /\ cursor' \in 0 .. posted
    BY <1>5, <2>2 DEF TakeMention
  <2>4. CASE run' = [run EXCEPT ![r].todo = Tail(@)]
    <3> DEFINE ran == [run[r] EXCEPT !.todo = Tail(run[r].todo)]
    <3>1. RunOk(ran)
      BY <1>0, <2>1, <2>2 DEF RunOk, OnOne
    <3>2. run' = [run EXCEPT ![r] = ran]
      BY <2>4
    <3> HIDE DEF ran
    <3> QED
      BY <2>3, <3>1, <3>2, OneRunner
  <2>5. CASE Goto(r, "replying") \/ Goto(r, "gating")
    BY <1>4, <2>1, <2>3, <2>5 DEF OnOne
  <2> QED
    BY <1>5, <2>4, <2>5 DEF TakeMention
<1>6. CASE Gated(r) \/ Accept(r) \/ Proved(r)
  <2>1. /\ "todo" \in DOMAIN run[r]
        /\ run[r].todo \in Seq(1 .. posted) /\ run[r].todo # <<>>
    BY <1>0, <1>6, GoesOn DEF RunOk
  <2>2. (\E phase \in OnOne : Goto(r, phase)) /\ UNCHANGED <<posted, cursor>>
    BY <1>6, GoesOn
  <2> QED
    BY <1>4, <2>1, <2>2
<1>7. CASE Reply(r)
  <2> DEFINE ran == [phase |-> "next", todo |-> Tail(run[r].todo),
                     handled |-> run[r].handled + 1]
  <2>1. run[r].todo \in Seq(1 .. posted) /\ run[r].todo # <<>>
    BY <1>0, <1>7 DEF Reply, RunOk, OnOne
  <2>2. RunOk(ran)
    BY <2>1, HeadTailProperties DEF RunOk, OnOne
  <2>3. run' = [run EXCEPT ![r] = ran] /\ UNCHANGED <<posted, cursor>>
    BY <1>7 DEF Reply
  <2> HIDE DEF ran
  <2> QED
    BY <2>2, <2>3, OneRunner
<1> QED
  BY <1>1, <1>2, <1>3, <1>5, <1>6, <1>7 DEF RunStep

LEMMA RunInvInit == BotInit => RunInv
BY XBotAssumption DEF BotInit, RunInv, RunOk, Off, OnOne

LEMMA RunInvNext == RunInv /\ [AskNext]_askVars => RunInv'
<1> SUFFICES ASSUME RunInv, [AskNext]_askVars PROVE RunInv'
  OBVIOUS
<1>1. CASE UNCHANGED <<posted, cursor, run>>
  BY <1>1 DEF RunInv, RunOk
<1>2. CASE UNCHANGED askVars
  BY <1>1, <1>2 DEF askVars, mentionVars
<1>3. CASE ChatMove \/ RestartMove \/ ClientMove \/ CallMove
  BY <1>1, <1>3 DEF ChatMove, RestartMove, ClientMove, CallMove, mentionVars
<1>4. CASE Mentioned
  <2>1. posted' \in 0 .. Len(Mentions) /\ posted <= posted' /\ UNCHANGED <<cursor, run>>
    BY <1>4, XBotAssumption DEF Mentioned, RunInv
  <2>2. 1 .. posted \subseteq 1 .. posted'
    BY <2>1 DEF RunInv
  <2>3. Seq(1 .. posted) \subseteq Seq(1 .. posted')
    BY <2>2, SeqMonotonic
  <2>4. ASSUME NEW r \in Runner PROVE RunOk(run[r])'
    BY <2>1, <2>3 DEF RunInv, RunOk
  <2> QED
    BY <2>1, <2>4 DEF RunInv
<1>5. CASE Midnight
  BY <1>1, <1>5 DEF Midnight
<1> QED
  BY <1>2, <1>3, <1>4, <1>5, RunnerKeeps DEF AskNext, BotMove

LEMMA RunInvAlways == Spec => []RunInv
BY RunInvInit, RunInvNext, AskMoves, PTL DEF Spec, Init

-----------------------------------------------------------------------------
(***************************************************************************)
(* The cursor of one runner at a time.                                     *)
(***************************************************************************)
\* What a runner has to do is in order and from the cursor on.
CursorOk(ran, at) ==
    /\ ran.phase = "fetching" => ran.since = at
    /\ ran.phase \in {"next"} \cup OnOne =>
         /\ \A i \in 1 .. Len(ran.todo) : at <= ran.todo[i]
         /\ \A i, j \in 1 .. Len(ran.todo) : i < j => ran.todo[i] < ran.todo[j]

CursorInv == \A r \in Runner : CursorOk(run[r], cursor)

\* The rest of what there is to do is after its first.
LEMMA RestIsLater ==
    ASSUME NEW n \in Nat, NEW s \in Seq(1 .. n), s # <<>>,
           \A i, j \in 1 .. Len(s) : i < j => s[i] < s[j]
    PROVE  /\ Head(s) \in 1 .. n /\ Len(s) \in Nat \ {0} /\ s[1] = Head(s)
           /\ Tail(s) \in Seq(1 .. n)
           /\ \A i \in 1 .. Len(Tail(s)) : Head(s) <= Tail(s)[i]
           /\ \A i, j \in 1 .. Len(Tail(s)) : i < j => Tail(s)[i] < Tail(s)[j]
           /\ \A i \in 1 .. Len(s) : Head(s) <= s[i]
<1>1. /\ Head(s) \in 1 .. n /\ s[1] = Head(s) /\ Tail(s) \in Seq(1 .. n)
      /\ Len(s) \in Nat \ {0} /\ Len(Tail(s)) = Len(s) - 1
      /\ \A i \in 1 .. Len(Tail(s)) : Tail(s)[i] = s[i + 1]
  BY HeadTailProperties, EmptySeq
<1>2. \A i \in 1 .. Len(s) : s[i] \in 1 .. n
  BY <1>1, ElementOfSeq
<1>3. \A i \in 1 .. Len(Tail(s)) : i \in Nat /\ i + 1 \in 1 .. Len(s) /\ 1 < i + 1 /\ 1 \in 1 .. Len(s)
  BY <1>1
<1>4. ASSUME NEW i \in 1 .. Len(Tail(s)) PROVE Head(s) <= Tail(s)[i]
  BY <1>1, <1>2, <1>3
<1>5. ASSUME NEW i \in 1 .. Len(Tail(s)), NEW j \in 1 .. Len(Tail(s)), i < j
      PROVE  Tail(s)[i] < Tail(s)[j]
  BY <1>1, <1>3, <1>5
<1>6. ASSUME NEW i \in 1 .. Len(s) PROVE Head(s) <= s[i]
  <2>1. CASE i = 1
    BY <1>1, <1>2, <2>1
  <2>2. CASE i # 1
    BY <1>1, <1>2, <2>2
  <2> QED
    BY <2>1, <2>2
<1> QED
  BY <1>1, <1>4, <1>5, <1>6

LEMMA PageIsLater ==
    ASSUME RunInv, NEW since \in 0 .. posted
    PROVE  /\ \A i \in 1 .. Len(Page(since)) : since <= Page(since)[i]
           /\ \A i, j \in 1 .. Len(Page(since)) : i < j => Page(since)[i] < Page(since)[j]
<1> DEFINE first == IF posted - since < PageSize THEN since ELSE posted - PageSize
<1>1. posted \in Nat /\ PageSize \in Nat \ {0}
  BY XBotAssumption DEF RunInv
<1>2. first \in 0 .. posted /\ since <= first
  BY <1>1
<1>3. Page(since) = [i \in 1 .. posted - first |-> first + i]
  BY DEF Page
<1> HIDE DEF first
<1>4. posted - first \in Nat
  BY <1>1, <1>2
<1>5. Len(Page(since)) = posted - first
  BY <1>3, <1>4
<1> QED
  BY <1>1, <1>2, <1>3, <1>4, <1>5

LEMMA CursorInvNext ==
    ASSUME \A r, s \in Runner : r = s,
           RunInv, CursorInv, [AskNext]_askVars
    PROVE  CursorInv' /\ cursor <= cursor'
<1>0. posted \in Nat /\ cursor \in Nat
  BY DEF RunInv
<1>1. CASE UNCHANGED <<cursor, run>>
  BY <1>0, <1>1 DEF CursorInv
<1>2. CASE UNCHANGED askVars
  BY <1>1, <1>2 DEF askVars, mentionVars
<1>3. CASE ChatMove \/ RestartMove \/ ClientMove \/ CallMove
  BY <1>1, <1>3 DEF ChatMove, RestartMove, ClientMove, CallMove, mentionVars
<1>4. CASE Mentioned \/ Midnight
  BY <1>1, <1>4 DEF Mentioned, Midnight
<1>5. ASSUME NEW r \in Runner, StartRun(r) \/ Die(r) \/ RunStep(r)
      PROVE  CursorInv' /\ cursor <= cursor'
  <2> USE <1>0
  <2>0. /\ CursorOk(run[r], cursor) /\ RunOk(run[r])
        /\ DOMAIN run = Runner /\ \A s \in Runner : s = r
    BY DEF CursorInv, RunInv
  <2>1. ASSUME NEW ran, run' = [run EXCEPT ![r] = ran], CursorOk(ran, cursor')
        PROVE  CursorInv'
    BY <2>0, <2>1 DEF CursorInv
  <2>2. ASSUME NEW phase \in OnOne, Goto(r, phase),
               run[r].phase \in {"next"} \cup OnOne,
               cursor' = cursor
        PROVE  CursorInv'
    <3>1. DEFINE ran == [run[r] EXCEPT !.phase = phase]
    <3>2. CursorOk(ran, cursor')
      BY <2>0, <2>2 DEF CursorOk, OnOne
    <3>3. run' = [run EXCEPT ![r] = ran]
      BY <2>2 DEF Goto
    <3> HIDE DEF ran
    <3> QED
      BY <2>1, <3>2, <3>3
  <2>3. CASE StartRun(r)
    <3> DEFINE ran == [phase |-> "fetching", since |-> cursor, handled |-> 0]
    <3>1. run' = [run EXCEPT ![r] = ran] /\ cursor' = cursor
      BY <2>3 DEF StartRun
    <3>2. CursorOk(ran, cursor')
      BY <3>1 DEF CursorOk, OnOne
    <3>9. CursorInv'
      BY <2>1, <3>1, <3>2
    <3> QED
      BY <3>1, <3>9
  <2>4. CASE Die(r) \/ EndRun(r)
    <3>1. run' = [run EXCEPT ![r] = Off] /\ cursor' = cursor
      BY <2>4 DEF Die, EndRun
    <3>2. CursorOk(Off, cursor')
      BY DEF CursorOk, Off, OnOne
    <3>9. CursorInv'
      BY <2>1, <3>1, <3>2
    <3> QED
      BY <3>1, <3>9
  <2>5. CASE FetchMentions(r)
    <3> DEFINE ran == [phase |-> "next", todo |-> Page(run[r].since), handled |-> 0]
    <3>1. run' = [run EXCEPT ![r] = ran] /\ cursor' = cursor /\ run[r].phase = "fetching"
      BY <2>5 DEF FetchMentions
    <3>2. run[r].since = cursor /\ run[r].since \in 0 .. posted
      BY <2>0, <3>1 DEF CursorOk, RunOk
    <3>3. CursorOk(ran, cursor')
      BY <3>1, <3>2, PageIsLater DEF CursorOk, OnOne
    <3> HIDE DEF ran
    <3>9. CursorInv'
      BY <2>1, <3>1, <3>3
    <3> QED
      BY <3>1, <3>9
  <2>6. CASE TakeMention(r)
    <3> DEFINE s == run[r].todo
    <3>1. /\ run[r].phase = "next" /\ s \in Seq(1 .. posted) /\ s # <<>> /\ cursor' = Head(s)
      BY <2>0, <2>6 DEF TakeMention, RunOk, OnOne
    <3>2. /\ \A i, j \in 1 .. Len(s) : i < j => s[i] < s[j]
          /\ \A i \in 1 .. Len(s) : cursor <= s[i]
      BY <2>0, <3>1 DEF CursorOk, OnOne
    <3>3. /\ Len(s) \in Nat \ {0} /\ s[1] = Head(s)
          /\ \A i \in 1 .. Len(Tail(s)) : Head(s) <= Tail(s)[i]
          /\ \A i, j \in 1 .. Len(Tail(s)) : i < j => Tail(s)[i] < Tail(s)[j]
          /\ \A i \in 1 .. Len(s) : Head(s) <= s[i]
      BY <1>0, <3>1, <3>2, RestIsLater
    <3>4. cursor <= cursor'
      <4>1. 1 \in 1 .. Len(s)
        BY <3>3
      <4> QED
        BY <3>1, <3>2, <3>3, <4>1
    <3>5. CASE run' = [run EXCEPT ![r].todo = Tail(@)]
      <4> DEFINE ran == [run[r] EXCEPT !.todo = Tail(s)]
      <4>1. run' = [run EXCEPT ![r] = ran]
        BY <3>5
      <4>2. CursorOk(ran, cursor')
        <5>1. ran.phase = "next" /\ ran.todo = Tail(s)
          BY <2>0, <3>1 DEF RunOk, OnOne
        <5> HIDE DEF ran
        <5> QED
          BY <3>1, <3>3, <5>1 DEF CursorOk, OnOne
      <4> HIDE DEF ran
      <4> QED
        BY <2>1, <3>4, <4>1, <4>2
    <3>6. CASE Goto(r, "replying") \/ Goto(r, "gating")
      <4> PICK phase \in {"replying", "gating"} : Goto(r, phase)
        BY <3>6
      <4> DEFINE ran == [run[r] EXCEPT !.phase = phase]
      <4>1. run' = [run EXCEPT ![r] = ran]
        BY DEF Goto
      <4>2. CursorOk(ran, cursor')
        BY <3>1, <3>2, <3>3 DEF CursorOk, OnOne
      <4> HIDE DEF ran
      <4> QED
        BY <2>1, <3>4, <4>1, <4>2
    <3> QED
      BY <2>6, <3>5, <3>6 DEF TakeMention
  <2>7. CASE Gated(r) \/ Accept(r) \/ Proved(r)
    <3>1. /\ (\E phase \in OnOne : Goto(r, phase)) /\ cursor' = cursor
          /\ run[r].phase \in {"next"} \cup OnOne
      BY <2>7, GoesOn
    <3> QED
      BY <2>2, <3>1
  <2>8. CASE Reply(r)
    <3> DEFINE s == run[r].todo
               ran == [phase |-> "next", todo |-> Tail(s), handled |-> run[r].handled + 1]
    <3>1. /\ run[r].phase = "replying" /\ s \in Seq(1 .. posted) /\ s # <<>> /\ cursor' = cursor
          /\ run' = [run EXCEPT ![r] = ran]
      BY <2>0, <2>8 DEF Reply, RunOk, OnOne
    <3>2. /\ \A i, j \in 1 .. Len(s) : i < j => s[i] < s[j]
          /\ \A i \in 1 .. Len(s) : cursor <= s[i]
      BY <2>0, <3>1 DEF CursorOk, OnOne
    <3>3. /\ \A i, j \in 1 .. Len(Tail(s)) : i < j => Tail(s)[i] < Tail(s)[j]
          /\ \A i \in 1 .. Len(Tail(s)) : cursor <= Tail(s)[i]
      <4>1. Len(s) \in Nat \ {0} /\ Len(Tail(s)) = Len(s) - 1
            /\ \A i \in 1 .. Len(Tail(s)) : Tail(s)[i] = s[i + 1]
        BY <3>1, HeadTailProperties, EmptySeq
      <4> QED
        BY <3>2, <4>1
    <3>4. CursorOk(ran, cursor')
      BY <3>1, <3>3 DEF CursorOk, OnOne
    <3> HIDE DEF ran
    <3>9. CursorInv'
      BY <2>1, <3>1, <3>4
    <3> QED
      BY <3>1, <3>9
  <2> QED
    BY <1>5, <2>3, <2>4, <2>5, <2>6, <2>7, <2>8 DEF RunStep
<1> QED
  BY <1>2, <1>3, <1>4, <1>5 DEF AskNext, BotMove

\* CursorMonotone of Assistant, with one run at a time as the timer that starts
\* them intends: the cursor never goes back over a mention, wherever runs die.
THEOREM CursorNeverGoesBack ==
    ASSUME \A r, s \in Runner : r = s
    PROVE  Spec => CursorMonotone
<1>1. Init => CursorInv
  BY DEF Init, BotInit, CursorInv, CursorOk, Off, OnOne
<1>2. RunInv /\ CursorInv /\ [Next]_vars => CursorInv' /\ [cursor' >= cursor]_vars
  <2> SUFFICES ASSUME RunInv, CursorInv, [Next]_vars
               PROVE  CursorInv' /\ cursor' >= cursor
    OBVIOUS
  <2>1. CursorInv' /\ cursor <= cursor'
    BY AskMoves, CursorInvNext
  <2>2. cursor \in Int /\ cursor' \in Int
    BY AskMoves, RunInvNext DEF RunInv
  <2> QED
    BY <2>1, <2>2
<1> QED
  BY <1>1, <1>2, RunInvAlways, PTL DEF Spec, CursorMonotone

-----------------------------------------------------------------------------
(***************************************************************************)
(* The chat page.                                                          *)
(***************************************************************************)
LEMMA ListedIs ==
    ASSUME NEW S, convos \in Seq(S)
    PROVE  Listed = Elements(convos)
<1>1. DOMAIN convos = 1 .. Len(convos)
  BY LenProperties
<1> QED
  BY <1>1 DEF Listed, Elements

PageInv ==
    /\ convos \in Seq(Convo) /\ Distinct(convos)
    /\ activeId \in {NoConvo} \cup Elements(convos)
    /\ place \in [Question -> Convo \cup {NoConvo}]
    /\ \A c \in Elements(convos) : \E q \in Question : place[q] = c
    /\ msg \in [Question -> {"none", "streaming", "answered", "failed", "gone"}]
    /\ sockets \subseteq jobConvo /\ jobConvo \subseteq Question

PageNext ==
    \/ \E q \in Question : Send(q)
    \/ NewChat \/ \E c \in Listed : OpenChat(c) \/ DeleteChat(c)
    \/ Reconnect \/ Reload
    \/ sockets' = {} /\ UNCHANGED <<convos, activeId, place, msg, jobConvo>>
    \/ \E q \in Question : Deliver(q)

LEMMA PageMoves == [Next]_vars => [PageNext]_pageVars
<1> SUFFICES ASSUME [Next]_vars PROVE PageNext \/ UNCHANGED pageVars
  OBVIOUS
<1> USE DEF chatVars
<1>1. CASE UNCHANGED vars
  BY <1>1 DEF vars
<1>2. CASE AnswerStep \/ RouteStep
  BY <1>2 DEF AnswerStep, RouteStep
<1>3. ASSUME NEW t \in Call, CallStep(t) PROVE UNCHANGED pageVars
  BY <1>3 DEF CallStep
<1>4. CASE PageStep
  BY <1>4 DEF PageStep, PageNext
<1>5. CASE FailureStep
  BY <1>5 DEF FailureStep, Restart, Disconnected, PageNext, pageVars
<1>6. CASE AgentStep \/ OutsideStep
  BY <1>6 DEF AgentStep, OutsideStep
<1>7. ASSUME NEW q \in Question, JobStep(q) PROVE PageNext \/ UNCHANGED pageVars
  BY <1>7 DEF JobStep, Serve, Finish, PageNext
<1>8. ASSUME NEW a \in Asker, ClientStep(a) PROVE UNCHANGED pageVars
  BY <1>8 DEF ClientStep
<1>9. ASSUME NEW r \in Runner, BotStep(r) PROVE UNCHANGED pageVars
  BY <1>9 DEF BotStep
<1> QED
  BY <1>1, <1>2, <1>3, <1>4, <1>5, <1>6, <1>7, <1>8, <1>9 DEF Next

LEMMA PageInvInit == ChatInit => PageInv
BY DEF ChatInit, PageInv, Distinct, Elements

LEMMA ForgetType ==
    ASSUME msg \in [Question -> {"none", "streaming", "answered", "failed", "gone"}],
           NEW kept, Forget(kept)
    PROVE  msg' \in [Question -> {"none", "streaming", "answered", "failed", "gone"}]
BY DEF Forget

LEMMA SendKeepsPage ==
    ASSUME PageInv, NEW q \in Question, Send(q)
    PROVE  PageInv' /\ activeId' \in Convo
<1>1. /\ place[q] = NoConvo /\ q \in Question /\ NoConvo \notin Convo
      /\ Listed = Elements(convos) /\ Elements(convos) \subseteq Convo
  <2>1. Elements(convos) \subseteq Convo
    BY ElementOfSeq DEF PageInv, Elements
  <2> QED
    BY <2>1, ListedIs, ConversationsAssumption DEF Send, FreshJobs, PageInv
<1>2. /\ activeId' \in Convo /\ convos' \in Seq(Convo) /\ Distinct(convos')
      /\ Elements(convos') \subseteq Elements(convos) \cup {activeId'}
      /\ activeId' \in Elements(convos')
  <2>1. CASE activeId \in Listed /\ UNCHANGED <<convos, activeId>>
    BY <1>1, <2>1 DEF PageInv
  <2>2. CASE /\ activeId \notin Listed /\ FreshIds # {}
             /\ activeId' = CHOOSE c \in FreshIds : TRUE
             /\ convos' = <<activeId'>> \o convos
    <3> DEFINE new == activeId'
    <3>1. new \in Convo /\ new \notin Elements(convos)
      <4>1. new \in FreshIds
        BY <2>2
      <4> QED
        BY <4>1, <1>1 DEF FreshIds, PageInv
    <3>2. /\ Len(convos) \in Nat /\ convos' \in Seq(Convo) /\ Len(convos') = Len(convos) + 1
          /\ convos'[1] = new /\ \A i \in 1 .. Len(convos) : convos'[i + 1] = convos[i]
          /\ \A i \in 1 .. Len(convos') : i # 1 => i - 1 \in 1 .. Len(convos) /\ convos'[i] = convos[i - 1]
      <4>1. <<new>> \in Seq(Convo) /\ Len(<<new>>) = 1 /\ <<new>>[1] = new
        BY <3>1
      <4>2. convos \in Seq(Convo) /\ Len(convos) \in Nat
        BY DEF PageInv
      <4> HIDE DEF new
      <4>3. /\ <<new>> \o convos \in Seq(Convo) /\ Len(<<new>> \o convos) = 1 + Len(convos)
            /\ \A i \in 1 .. 1 + Len(convos) :
                 (<<new>> \o convos)[i] = IF i <= 1 THEN <<new>>[i] ELSE convos[i - 1]
        BY <4>1, <4>2, ConcatProperties
      <4>4. convos' = <<new>> \o convos
        BY <2>2 DEF new
      <4>5. \A i \in 1 .. Len(convos) : /\ i + 1 \in 1 .. 1 + Len(convos)
                                        /\ ~ (i + 1 <= 1) /\ (i + 1) - 1 = i
        BY <4>2
      <4>6. 1 \in 1 .. 1 + Len(convos)
        BY <4>2
      <4>7. \A i \in 1 .. Len(convos) : convos'[i + 1] = convos[i]
        BY <4>3, <4>4, <4>5
      <4>8. \A i \in 1 .. 1 + Len(convos) : i # 1 => /\ i - 1 \in 1 .. Len(convos) /\ ~ (i <= 1)
        BY <4>2
      <4> QED
        BY <4>1, <4>2, <4>3, <4>4, <4>6, <4>7, <4>8
    <3> HIDE DEF new
    <3>3. Elements(convos') \subseteq Elements(convos) \cup {new}
      BY <3>2 DEF Elements
    <3>4. new \in Elements(convos')
      <4>1. 1 \in 1 .. Len(convos')
        BY <3>2
      <4> QED
        BY <3>2, <4>1 DEF Elements
    <3>5. Distinct(convos')
      <4> SUFFICES ASSUME NEW i \in 1 .. Len(convos'), NEW j \in 1 .. Len(convos'),
                          convos'[i] = convos'[j]
                   PROVE  i = j
        BY DEF Distinct
      <4>1. \A k \in 1 .. Len(convos') : k # 1 => convos'[k] # new
        BY <3>1, <3>2 DEF Elements
      <4>2. CASE i = 1 \/ j = 1
        BY <3>2, <4>1, <4>2
      <4>3. CASE i # 1 /\ j # 1
        <5>1. i - 1 = j - 1
          BY <3>2, <4>3 DEF PageInv, Distinct
        <5> QED
          BY <3>2, <5>1
      <4> QED
        BY <4>2, <4>3
    <3> QED
      BY <3>1, <3>2, <3>3, <3>4, <3>5 DEF new
  <2> QED
    BY <2>1, <2>2 DEF Send
<1>3. /\ place' \in [Question -> Convo \cup {NoConvo}] /\ place'[q] = activeId'
      /\ \A p \in Question : place[p] \in Convo => place'[p] = place[p]
  BY <1>1, <1>2 DEF Send, PageInv
<1>4. \A c \in Elements(convos') : \E p \in Question : place'[p] = c
  BY <1>1, <1>2, <1>3 DEF PageInv
<1>5. /\ msg' \in [Question -> {"none", "streaming", "answered", "failed", "gone"}]
      /\ sockets' \subseteq jobConvo' /\ jobConvo' \subseteq Question
  BY DEF Send, PageInv
<1>6. Elements(convos)' = Elements(convos') /\ Distinct(convos)' = Distinct(convos')
  BY DEF Elements, Distinct
<1> QED
  BY <1>2, <1>3, <1>4, <1>5, <1>6 DEF PageInv

LEMMA DeleteKeepsPage ==
    ASSUME PageInv, NEW c \in Listed, DeleteChat(c)
    PROVE  PageInv'
<1>1. PICK i \in 1 .. Len(convos) : convos[i] = c /\ convos' = RemoveAt(convos, i)
  <2>1. DOMAIN convos = 1 .. Len(convos)
    BY LenProperties DEF PageInv
  <2> QED
    BY <2>1 DEF DeleteChat
<1>2. /\ convos' \in Seq(Convo) /\ Distinct(convos') /\ Elements(convos') = Elements(convos) \ {c}
  BY <1>1, RemovedRest DEF PageInv
<1>3. activeId' \in {NoConvo} \cup Elements(convos')
  <2>1. CASE activeId # c
    BY <1>2, <2>1 DEF DeleteChat, PageInv
  <2>2. CASE activeId = c /\ convos' # <<>>
    <3>1. Len(convos') \in Nat \ {0} /\ Head(convos') = convos'[1] /\ 1 \in 1 .. Len(convos')
      BY <1>2, <2>2, EmptySeq, HeadTailProperties
    <3>2. Head(convos') \in Elements(convos')
      BY <3>1 DEF Elements
    <3> QED
      BY <2>2, <3>2 DEF DeleteChat
  <2> QED
    BY <2>1, <2>2 DEF DeleteChat
<1>4. /\ msg' \in [Question -> {"none", "streaming", "answered", "failed", "gone"}]
      /\ UNCHANGED <<place, jobConvo, sockets>>
  BY ForgetType DEF DeleteChat, PageInv
<1>5. Elements(convos)' = Elements(convos') /\ Distinct(convos)' = Distinct(convos')
  BY DEF Elements, Distinct
<1> QED
  BY <1>2, <1>3, <1>4, <1>5 DEF PageInv

LEMMA ReloadKeepsPage ==
    ASSUME PageInv, Reload
    PROVE  PageInv'
<1> DEFINE n == IF Len(convos) < Stored THEN Len(convos) ELSE Stored
<1>1. convos \in Seq(Convo) /\ Len(convos) \in Nat /\ Stored \in Nat \ {0}
  BY ConversationsAssumption DEF PageInv
<1>2. n \in 0 .. Len(convos) /\ (Len(convos) # 0 => n # 0)
  BY <1>1
<1>3. convos' = SubSeq(convos, 1, n)
  BY DEF Reload
<1> HIDE DEF n
<1>4. /\ convos' \in Seq(Convo) /\ Len(convos') = n
      /\ \A i \in 1 .. n : i \in 1 .. Len(convos) /\ convos'[i] = convos[i]
  <2>1. \A i \in 1 .. n : i \in 1 .. Len(convos) /\ convos[i] \in Convo
    BY <1>1, <1>2, ElementOfSeq
  <2> QED
    BY <1>1, <1>2, <1>3, <2>1, SubSeqProperties
<1>5. Distinct(convos') /\ Elements(convos') \subseteq Elements(convos)
  BY <1>4 DEF PageInv, Distinct, Elements
<1>6. activeId' \in {NoConvo} \cup Elements(convos')
  <2>1. CASE convos # <<>>
    <3>1. Head(convos) = convos[1] /\ Len(convos) # 0
      BY <1>1, <2>1, EmptySeq, HeadTailProperties
    <3>2. 1 \in 1 .. n
      BY <1>2, <3>1
    <3> QED
      BY <1>4, <2>1, <3>1, <3>2 DEF Reload, Elements
  <2> QED
    BY <2>1 DEF Reload
<1>7. /\ msg' \in [Question -> {"none", "streaming", "answered", "failed", "gone"}]
      /\ place' = place /\ jobConvo' = {} /\ sockets' = {}
  BY ForgetType DEF Reload, Disconnected, PageInv
<1>8. Elements(convos)' = Elements(convos') /\ Distinct(convos)' = Distinct(convos')
  BY DEF Elements, Distinct
<1> QED
  BY <1>4, <1>5, <1>6, <1>7, <1>8 DEF PageInv

LEMMA PageInvNext == PageInv /\ [PageNext]_pageVars => PageInv'
<1> SUFFICES ASSUME PageInv, [PageNext]_pageVars PROVE PageInv'
  OBVIOUS
<1>1. ASSUME UNCHANGED <<convos, place, msg>>, activeId' \in {NoConvo} \cup Elements(convos),
             sockets' = {} \/ sockets' = sockets, UNCHANGED jobConvo
      PROVE  PageInv'
  BY <1>1 DEF PageInv, Distinct, Elements
<1>2. CASE UNCHANGED pageVars
  BY <1>1, <1>2 DEF pageVars, PageInv
<1>3. CASE NewChat \/ \E c \in Listed : OpenChat(c)
  BY <1>1, <1>3, ListedIs DEF NewChat, OpenChat, PageInv
<1>4. CASE Reconnect \/ (sockets' = {} /\ UNCHANGED <<convos, activeId, place, msg, jobConvo>>)
  BY <1>1, <1>4 DEF Reconnect, Disconnected, PageInv
<1>5. ASSUME NEW q \in Question, Deliver(q) PROVE PageInv'
  <2>1. msg' \in [Question -> {"none", "streaming", "answered", "failed", "gone"}]
    BY <1>5 DEF Deliver, PageInv
  <2> QED
    BY <1>5, <2>1 DEF Deliver, PageInv, Distinct, Elements
<1> QED
  BY <1>2, <1>3, <1>4, <1>5, SendKeepsPage, DeleteKeepsPage, ReloadKeepsPage DEF PageNext

LEMMA PageInvAlways == Spec => []PageInv
BY PageInvInit, PageInvNext, PageMoves, PTL DEF Spec, Init

-----------------------------------------------------------------------------
(***************************************************************************)
(* The calls of solve.                                                     *)
(***************************************************************************)
Row == [asker : Asker, status : Running \cup Terminal]
Thread == Seq(Row) \ {<<>>}

Solving(n) ==
    [phase : {"idle", "requesting", "polling", "returned", "done"}, project : 0 .. n,
     task : Nat, result : {"none", "error", "answered", "verified"}]

PacketType == {"none", "job.submit", "job.done", "job.error"}

ToolType ==
    [phase : {"idle", "provider", "wikipedia", "duckduckgo", "aristotle", "answered", "lost"},
     result : {"none", "value", "null", "results", "no results", "search failed", "unavailable",
               "unknown", "answered", "verified"}]

\* What a call that has not asked yet may be.
CallOk(s) ==
    /\ s.phase = "idle" => s = Idle
    /\ s.phase = "requesting" => s.task = NoTask /\ s.result = "none"

CallsInv ==
    /\ projects \in Seq(Thread)
    /\ solve \in [Asker -> Solving(Len(projects))]
    /\ \A a \in Asker : CallOk(solve[a])
    /\ remembered \in [Convo -> 0 .. Len(projects)]
    /\ packet \in [Question -> PacketType]
    /\ \A q \in Question : packet[q] # "none" \/ solve[q].phase # "idle" => place[q] \in Convo
    /\ tool \in [Call -> ToolType]

\* What may happen to a call: it begins, or it is done with, alone or with others.
Begins(a, prior) ==
    /\ solve[a].phase = "idle"
    /\ solve' = [solve EXCEPT ![a] =
         [phase |-> "requesting", project |-> prior, task |-> NoTask, result |-> "none"]]

Drops(D) == solve' = [a \in Asker |-> IF a \in D THEN Done ELSE solve[a]]

\* The service has a's task, in the project a continues or in a new one.
At(a) == IF solve[a].project = NoProject THEN Len(projects) + 1 ELSE solve[a].project

Posts(a) ==
    projects' = IF solve[a].project = NoProject THEN Append(projects, <<Task(a)>>)
                ELSE [projects EXCEPT ![solve[a].project] = Append(@, Task(a))]

LEMMA SolveBegins ==
    ASSUME CallsInv, NEW a \in Asker, NEW prior, Solve(a, prior)
    PROVE  Begins(a, prior)
<1>1. solve[a] = Idle /\ solve[a].phase = "idle"
  BY DEF Solve, CallsInv, CallOk
<1>2. solve' = [solve EXCEPT ![a] = [solve[a] EXCEPT !.phase = "requesting", !.project = prior]]
  BY DEF Solve
<1>3. [Idle EXCEPT !.phase = "requesting", !.project = prior]
        = [phase |-> "requesting", project |-> prior, task |-> NoTask, result |-> "none"]
  <2> DEFINE called == [phase |-> "requesting", project |-> NoProject, task |-> NoTask,
                        result |-> "none"]
  <2>1. [Idle EXCEPT !.phase = "requesting"] = called
    BY DEF Idle
  <2>2. [called EXCEPT !.project = prior]
          = [phase |-> "requesting", project |-> prior, task |-> NoTask, result |-> "none"]
    OBVIOUS
  <2> HIDE DEF called
  <2> QED
    BY <2>1, <2>2
<1> QED
  BY <1>1, <1>2, <1>3 DEF Begins

LEMMA OneIsDropped ==
    ASSUME CallsInv, NEW a \in Asker, solve' = [solve EXCEPT ![a] = Done]
    PROVE  Drops({a})
BY DEF CallsInv, Drops

LEMMA PostsParts ==
    ASSUME CallsInv, NEW a \in Asker, Posts(a)
    PROVE  /\ projects' \in Seq(Thread) /\ Len(projects) \in Nat
           /\ At(a) \in 1 .. Len(projects') /\ Len(projects) <= Len(projects')
           /\ Len(projects') <= Len(projects) + 1
           /\ \A p \in 1 .. Len(projects') : p # At(a) => p \in 1 .. Len(projects) /\ projects'[p] = projects[p]
           /\ solve[a].project = NoProject =>
                At(a) \notin 1 .. Len(projects) /\ projects'[At(a)] = <<Task(a)>>
           /\ solve[a].project # NoProject =>
                /\ At(a) = solve[a].project /\ At(a) \in 1 .. Len(projects)
                /\ projects'[At(a)] = Append(projects[At(a)], Task(a))
<1> DEFINE n == Len(projects)
<1>1. n \in Nat /\ solve[a].project \in 0 .. n /\ Task(a) \in Row
  BY LenProperties DEF CallsInv, Solving, Task, Row, Running
<1>2. CASE solve[a].project = NoProject
  <2>1. <<Task(a)>> \in Thread
    BY <1>1 DEF Thread
  <2>2. projects' = Append(projects, <<Task(a)>>) /\ At(a) = n + 1
    BY <1>2 DEF Posts, At
  <2>3. /\ projects' \in Seq(Thread) /\ Len(projects') = n + 1
        /\ \A p \in 1 .. n : projects'[p] = projects[p]
        /\ projects'[n + 1] = <<Task(a)>>
    BY <2>1, <2>2, AppendProperties DEF CallsInv
  <2> QED
    BY <1>1, <1>2, <2>2, <2>3
<1>3. CASE solve[a].project # NoProject
  <2> DEFINE p == solve[a].project
  <2>1. p \in 1 .. n /\ At(a) = p
    BY <1>1, <1>3 DEF At, NoProject
  <2>2. projects[p] \in Seq(Row)
    BY <2>1, ElementOfSeq DEF CallsInv, Thread
  <2>3. Append(projects[p], Task(a)) \in Thread
    BY <1>1, <2>2, AppendProperties DEF Thread
  <2>4. projects' = [projects EXCEPT ![p] = Append(projects[p], Task(a))]
    BY <1>3 DEF Posts
  <2>5. /\ projects' \in Seq(Thread) /\ Len(projects') = n
        /\ \A j \in 1 .. n : projects'[j] = IF j = p THEN Append(projects[p], Task(a)) ELSE projects[j]
    BY <2>1, <2>3, <2>4, ExceptSeq DEF CallsInv
  <2> HIDE DEF n, p
  <2>6. /\ n \in Nat /\ n <= Len(projects') /\ Len(projects') <= n + 1
        /\ At(a) \in 1 .. n /\ projects'[At(a)] = Append(projects[At(a)], Task(a))
    BY <1>1, <2>1, <2>5
  <2>7. \A j \in 1 .. n : j # At(a) => projects'[j] = projects[j]
    BY <2>1, <2>5
  <2> QED
    BY <1>3, <2>1, <2>5, <2>6, <2>7 DEF n, p
<1> QED
  BY <1>2, <1>3

\* One call moves on.
LEMMA OneCall ==
    ASSUME CallsInv, NEW a \in Asker, NEW s,
           projects' \in Seq(Thread), Len(projects) <= Len(projects'),
           s \in Solving(Len(projects')), CallOk(s),
           s.phase # "idle" /\ a \in Question => place[a] \in Convo,
           solve' = [solve EXCEPT ![a] = s],
           UNCHANGED <<place, remembered, packet>>, tool' \in [Call -> ToolType]
    PROVE  CallsInv'
<1>1. Len(projects) \in Nat /\ Len(projects') \in Nat
  BY LenProperties DEF CallsInv
<1>2. 0 .. Len(projects) \subseteq 0 .. Len(projects')
  BY <1>1
<1>3. \A b \in Asker : solve'[b] = IF b = a THEN s ELSE solve[b]
  BY DEF CallsInv
<1>4. Solving(Len(projects)) \subseteq Solving(Len(projects'))
  BY <1>2 DEF Solving
<1>5. solve' \in [Asker -> Solving(Len(projects'))]
  BY <1>4 DEF CallsInv
<1>6. remembered' \in [Convo -> 0 .. Len(projects')]
  BY <1>2 DEF CallsInv
<1>7. \A b \in Asker : CallOk(solve'[b])
  BY <1>3 DEF CallsInv
<1>8. \A q \in Question : packet'[q] # "none" \/ solve'[q].phase # "idle" => place'[q] \in Convo
  BY <1>3, ConversationsAssumption DEF CallsInv
<1>9. \A b \in Asker : CallOk(solve[b])' <=> CallOk(solve'[b])
  BY DEF CallOk
<1> QED
  BY <1>5, <1>6, <1>7, <1>8, <1>9 DEF CallsInv, Solving

\* Some calls are done with.
LEMMA CallsDropped ==
    ASSUME CallsInv, NEW D, Drops(D), UNCHANGED projects,
           \A q \in Question : q \in D => place[q] \in Convo,
           UNCHANGED place, remembered' \in [Convo -> 0 .. Len(projects)],
           packet' \in [Question -> PacketType],
           \A q \in Question : packet'[q] # "none" => place[q] \in Convo,
           tool' \in [Call -> ToolType]
    PROVE  CallsInv'
<1>1. Len(projects) \in Nat /\ Len(projects)' = Len(projects)
  BY LenProperties DEF CallsInv
<1>2. Done \in Solving(Len(projects)) /\ CallOk(Done) /\ Done.phase = "done"
  BY <1>1 DEF Done, Idle, Solving, CallOk, NoProject, NoTask
<1>3. \A b \in Asker : solve'[b] = IF b \in D THEN Done ELSE solve[b]
  BY DEF Drops
<1>4. solve' \in [Asker -> Solving(Len(projects))]
  BY <1>2 DEF CallsInv, Drops
<1>5. \A b \in Asker : CallOk(solve'[b])
  BY <1>2, <1>3 DEF CallsInv
<1>6. \A q \in Question : packet'[q] # "none" \/ solve'[q].phase # "idle" => place'[q] \in Convo
  BY <1>3, ConversationsAssumption DEF CallsInv
<1>7. \A b \in Asker : CallOk(solve[b])' <=> CallOk(solve'[b])
  BY DEF CallOk
<1> QED
  BY <1>4, <1>5, <1>6, <1>7 DEF CallsInv, Solving

LEMMA EndTaskKeepsCalls ==
    ASSUME CallsInv, NEW p \in DOMAIN projects, NEW i \in DOMAIN projects[p],
           NEW status \in Outcomes, EndTask(p, i, status)
    PROVE  /\ projects' \in Seq(Thread) /\ Len(projects') = Len(projects)
           /\ \A j \in 1 .. Len(projects) :
                projects'[j] = IF j = p THEN [projects[p] EXCEPT ![i] = [projects[p][i] EXCEPT !.status = status]]
                               ELSE projects[j]
           /\ p \in 1 .. Len(projects) /\ projects[p] \in Seq(Row) /\ i \in 1 .. Len(projects[p])
           /\ projects[p][i] \in Row /\ status \in Terminal
<1>1. /\ Len(projects) \in Nat /\ p \in 1 .. Len(projects) /\ projects[p] \in Thread
      /\ projects[p] \in Seq(Row) /\ i \in 1 .. Len(projects[p]) /\ projects[p][i] \in Row
  BY LenProperties, ElementOfSeq DEF CallsInv, Thread
<1>2. status \in Terminal
  BY AssistantAssumption
<1> DEFINE row == [projects[p][i] EXCEPT !.status = status]
           rows == [projects[p] EXCEPT ![i] = row]
<1>3. row \in Row
  BY <1>1, <1>2 DEF Row
<1>4. rows \in Thread
  <2> HIDE DEF row
  <2>1. rows \in Seq(Row) /\ Len(rows) = Len(projects[p]) /\ Len(projects[p]) # 0
    BY <1>1, <1>3, ExceptSeq, EmptySeq DEF Thread
  <2> QED
    BY <2>1 DEF Thread
<1>5. projects' = [projects EXCEPT ![p] = rows]
  BY DEF EndTask
<1> HIDE DEF rows, row
<1>6. /\ projects' \in Seq(Thread) /\ Len(projects') = Len(projects)
      /\ \A j \in 1 .. Len(projects) : projects'[j] = IF j = p THEN rows ELSE projects[j]
  BY <1>1, <1>4, <1>5, ExceptSeq DEF CallsInv
<1> QED
  BY <1>1, <1>2, <1>6 DEF rows, row

LEMMA ClientKeepsCalls ==
    ASSUME CallsInv, ClientMove
    PROVE  CallsInv'
<1> DEFINE n == Len(projects)
<1>0. n \in Nat /\ UNCHANGED <<place, remembered, packet>> /\ tool' \in [Call -> ToolType]
  BY LenProperties DEF CallsInv, ClientMove, chatVars, pageVars
<1>1. ASSUME NEW a \in Asker, RequestFails(a) \/ SolveStep(a)
      PROVE  CallsInv'
  <2>0. /\ solve[a] \in Solving(n) /\ CallOk(solve[a])
        /\ (solve[a].phase # "idle" /\ a \in Question => place[a] \in Convo)
    BY DEF CallsInv
  <2>1. CASE RequestFails(a) /\ UNCHANGED projects
    <3> DEFINE s == [phase |-> "returned", project |-> NoProject, task |-> solve[a].task, result |-> "error"]
    <3>1. s \in Solving(n) /\ CallOk(s) /\ s.phase # "idle" /\ n <= n
      BY <1>0, <2>0 DEF Solving, CallOk, NoProject
    <3>2. solve' = [solve EXCEPT ![a] = s] /\ solve[a].phase # "idle"
      BY <2>1 DEF RequestFails, Return
    <3> HIDE DEF s
    <3> QED
      BY <1>0, <2>0, <2>1, <3>1, <3>2, OneCall DEF CallsInv
  <2>2. ASSUME Posts(a), solve[a].phase = "requesting",
               NEW s, s \in Solving(Len(projects')), s.phase \in {"polling", "returned"},
               solve' = [solve EXCEPT ![a] = s]
        PROVE  CallsInv'
    <3>1. CallOk(s) /\ s.phase # "idle"
      BY <2>2 DEF CallOk
    <3> QED
      BY <1>0, <2>0, <2>2, <3>1, PostsParts, OneCall
  <2>3. CASE RequestFails(a) /\ Posts(a)
    <3> DEFINE s == [phase |-> "returned", project |-> NoProject, task |-> solve[a].task, result |-> "error"]
    <3>1. s \in Solving(Len(projects'))
      <4>1. Len(projects') \in Nat
        BY <1>0, <2>3, PostsParts
      <4> QED
        BY <2>0, <4>1 DEF Solving, NoProject
    <3>2. solve' = [solve EXCEPT ![a] = s] /\ solve[a].phase = "requesting" /\ s.phase = "returned"
      BY <2>3 DEF RequestFails, Return
    <3> HIDE DEF s
    <3> QED
      BY <2>2, <2>3, <3>1, <3>2
  <2>4. CASE Create(a)
    <3> DEFINE s == [phase |-> "polling", project |-> n + 1, task |-> NoTask, result |-> "none"]
    <3>1. Posts(a) /\ At(a) = n + 1 /\ solve[a].phase = "requesting"
      BY <2>4 DEF Create, Posts, At
    <3>2. At(a) \in 0 .. Len(projects')
      BY <3>1, PostsParts
    <3>3. s \in Solving(Len(projects')) /\ s.phase = "polling"
      BY <3>1, <3>2 DEF Solving, NoTask
    <3>4. solve' = [solve EXCEPT ![a] = s]
      BY <2>4 DEF Create
    <3> HIDE DEF s
    <3> QED
      BY <2>2, <3>1, <3>3, <3>4
  <2>5. CASE Ask(a)
    <3>1. Posts(a) /\ At(a) = solve[a].project /\ solve[a].phase = "requesting" /\ solve[a].project # NoProject
      BY <2>5 DEF Ask, Posts, At
    <3>2. At(a) \in 0 .. Len(projects') /\ At(a) \in 1 .. n
      BY <3>1, PostsParts
    <3>3. Len(projects[solve[a].project]) \in Nat
      BY <3>1, <3>2, ElementOfSeq, LenProperties DEF CallsInv, Thread
    <3>4. PICK id \in {Len(projects[solve[a].project]) + 1, NoTask} :
            solve' = [solve EXCEPT ![a].phase = "polling", ![a].task = id]
      BY <2>5 DEF Ask
    <3> DEFINE s == [solve[a] EXCEPT !.phase = "polling", !.task = id]
    <3>5. s \in Solving(Len(projects')) /\ s.phase = "polling"
      <4>1. id \in Nat
        BY <3>3 DEF NoTask
      <4>2. solve[a].project \in 0 .. Len(projects')
        BY <3>1, <3>2
      <4> QED
        BY <2>0, <4>1, <4>2 DEF Solving
    <3>6. solve' = [solve EXCEPT ![a] = s]
      BY <3>4
    <3> HIDE DEF s
    <3> QED
      BY <2>2, <3>1, <3>5, <3>6
  <2>6. ASSUME solve[a].phase = "polling", UNCHANGED projects,
               NEW result \in {"error", "answered", "verified"},
               Return(a, solve[a].project, result)
        PROVE  CallsInv'
    <3> DEFINE s == [phase |-> "returned", project |-> solve[a].project, task |-> solve[a].task,
                     result |-> result]
    <3>1. s \in Solving(n) /\ CallOk(s) /\ s.phase # "idle" /\ n <= n
      BY <1>0, <2>0 DEF Solving, CallOk
    <3>2. solve' = [solve EXCEPT ![a] = s] /\ solve[a].phase # "idle"
      BY <2>6 DEF Return
    <3> HIDE DEF s
    <3> QED
      BY <1>0, <2>0, <2>6, <3>1, <3>2, OneCall DEF CallsInv
  <2>7. CASE Poll(a)
    BY <2>6, <2>7 DEF Poll, Verdict
  <2>8. CASE Deadline(a)
    BY <2>6, <2>8 DEF Deadline
  <2>9. CASE RequestFails(a)
    BY <2>1, <2>3, <2>9 DEF RequestFails, Posts
  <2> QED
    BY <1>1, <2>4, <2>5, <2>7, <2>8, <2>9 DEF SolveStep
<1>2. ASSUME NEW p \in DOMAIN projects, NEW i \in DOMAIN projects[p], NEW status \in Outcomes,
             EndTask(p, i, status)
      PROVE  CallsInv'
  <2>1. projects' \in Seq(Thread) /\ Len(projects') = n /\ solve' = solve
    BY <1>2, EndTaskKeepsCalls DEF EndTask
  <2> QED
    BY <1>0, <2>1 DEF CallsInv, CallOk, Solving
<1> QED
  BY <1>1, <1>2 DEF ClientMove

LEMMA EmitType ==
    ASSUME CallsInv, NEW q \in Question, NEW event \in PacketType, Emit(q, event),
           place[q] \in Convo
    PROVE  /\ packet' \in [Question -> PacketType]
           /\ \A p \in Question : packet'[p] # "none" => place[p] \in Convo
BY DEF Emit, CallsInv, PacketType

LEMMA BegunKeepsCalls ==
    ASSUME CallsInv, NEW a \in Asker, NEW prior \in 0 .. Len(projects), Begins(a, prior),
           a \in Question => place[a] \in Convo,
           UNCHANGED <<projects, place, remembered, packet>>, tool' \in [Call -> ToolType]
    PROVE  CallsInv'
<1> DEFINE s == [phase |-> "requesting", project |-> prior, task |-> NoTask, result |-> "none"]
<1>1. Len(projects) \in Nat /\ projects \in Seq(Thread) /\ projects' = projects
  BY LenProperties DEF CallsInv
<1>2. s \in Solving(Len(projects')) /\ CallOk(s)
  BY <1>1 DEF Solving, CallOk, NoTask
<1>3. solve' = [solve EXCEPT ![a] = s]
  BY DEF Begins
<1>4. s.phase # "idle" /\ Len(projects) <= Len(projects') /\ projects' \in Seq(Thread)
  BY <1>1 DEF CallsInv
<1> HIDE DEF s
<1>5. s.phase # "idle" /\ a \in Question => place[a] \in Convo
  OBVIOUS
<1> QED
  BY <1>2, <1>3, <1>4, <1>5, OneCall

LEMMA ChatKeepsCalls ==
    ASSUME PageInv, CallsInv, ChatMove
    PROVE  CallsInv'
<1>0. Len(projects) \in Nat /\ UNCHANGED tool /\ tool' \in [Call -> ToolType]
  BY LenProperties DEF CallsInv, ChatMove
<1>1. ASSUME NEW q \in Question, Send(q) PROVE CallsInv'
  <2>1. place' = [place EXCEPT ![q] = activeId'] /\ activeId' \in Convo
    BY <1>1, SendKeepsPage DEF Send
  <2>2. \A p \in Question : place[p] \in Convo => place'[p] \in Convo
    BY <2>1 DEF PageInv
  <2>3. packet' = [packet EXCEPT ![q] = "job.submit"] /\ place'[q] \in Convo
    BY <1>1, <2>1 DEF Send, PageInv
  <2>4. packet' \in [Question -> PacketType] /\ UNCHANGED <<projects, solve, remembered>>
    BY <1>1, <2>3 DEF Send, CallsInv, PacketType, ariVars
  <2>5. \A p \in Question : packet'[p] # "none" \/ solve'[p].phase # "idle" => place'[p] \in Convo
    BY <2>2, <2>3, <2>4 DEF CallsInv
  <2> QED
    BY <1>0, <2>4, <2>5 DEF CallsInv, CallOk, Solving
<1>2. ASSUME NEW q \in Question, Serve(q) PROVE CallsInv'
  <2>1. place[q] \in Convo /\ UNCHANGED <<projects, place, remembered>>
    BY <1>2 DEF Serve, CallsInv, pageVars
  <2>2. CASE (Emit(q, "job.error") \/ Emit(q, "job.done")) /\ UNCHANGED solve
    BY <1>0, <2>1, <2>2, EmitType DEF CallsInv, CallOk, Solving, PacketType
  <2>3. CASE Solve(q, ThreadOf(q)) /\ packet' = [packet EXCEPT ![q] = "none"]
    <3> DEFINE s == [phase |-> "requesting", project |-> ThreadOf(q), task |-> NoTask,
                     result |-> "none"]
    <3>1. q \in Asker /\ ThreadOf(q) \in 0 .. Len(projects)
      BY <2>1, ConversationsAssumption DEF ThreadOf, CallsInv
    <3>2. solve' = [solve EXCEPT ![q] = s]
      BY <2>3, <3>1, SolveBegins DEF Begins
    <3>3. s \in Solving(Len(projects)) /\ CallOk(s)
      BY <3>1 DEF Solving, CallOk, NoTask
    <3>4. /\ packet' \in [Question -> PacketType]
          /\ \A p \in Question : packet'[p] = IF p = q THEN "none" ELSE packet[p]
      BY <2>3 DEF CallsInv, PacketType
    <3> HIDE DEF s
    <3>5. \A b \in Asker : solve'[b] = IF b = q THEN s ELSE solve[b]
      BY <3>2 DEF CallsInv
    <3>6. solve' \in [Asker -> Solving(Len(projects))] /\ \A b \in Asker : CallOk(solve'[b])
      BY <3>2, <3>3, <3>5 DEF CallsInv
    <3>7. \A p \in Question : packet'[p] # "none" \/ solve'[p].phase # "idle" => place'[p] \in Convo
      BY <2>1, <3>4, <3>5, ConversationsAssumption DEF CallsInv
    <3> QED
      BY <1>0, <2>1, <3>4, <3>6, <3>7 DEF CallsInv, CallOk, Solving
  <2> QED
    BY <1>2, <2>2, <2>3 DEF Serve
<1>3. ASSUME NEW q \in Question, Finish(q) PROVE CallsInv'
  <2>1. q \in Asker /\ place[q] \in Convo /\ UNCHANGED <<projects, place>>
    BY <1>3, ConversationsAssumption DEF Finish, CallsInv, pageVars
  <2>2. Drops({q})
    BY <1>3, <2>1, OneIsDropped DEF Finish
  <2>3. remembered' \in [Convo -> 0 .. Len(projects)]
    BY <1>3, <2>1 DEF Finish, Remember, CallsInv, Solving
  <2>4. /\ packet' \in [Question -> PacketType]
        /\ \A p \in Question : packet'[p] # "none" => place[p] \in Convo
    BY <1>3, <2>1, EmitType DEF Finish, PacketType
  <2> QED
    BY <1>0, <2>1, <2>2, <2>3, <2>4, CallsDropped
<1>4. ASSUME UNCHANGED <<ariVars, place, remembered>>, packet' \in [Question -> PacketType],
             \A p \in Question : packet'[p] # "none" => packet[p] # "none"
      PROVE  CallsInv'
  BY <1>0, <1>4 DEF CallsInv, CallOk, Solving, ariVars
<1>5. ASSUME NEW q \in Question, Deliver(q) PROVE CallsInv'
  BY <1>4, <1>5 DEF Deliver, CallsInv, PacketType
<1>6. CASE Disconnected /\ UNCHANGED <<ariVars, place, remembered, attested>>
  BY <1>4, <1>6 DEF Disconnected, PacketType
<1> QED
  BY <1>1, <1>2, <1>3, <1>5, <1>6 DEF ChatMove

LEMMA RestartKeepsCalls ==
    ASSUME CallsInv, RestartMove
    PROVE  CallsInv'
<1> DEFINE D == {a \in Asker : a \in InProcess /\ solve[a].phase \in {"requesting", "polling", "returned"}}
<1>1. /\ Drops(D) /\ UNCHANGED <<projects, place, remembered>>
      /\ packet' = [q \in Question |-> "none"]
  BY DEF RestartMove, Restart, Disconnected, Drops
<1>2. \A q \in Question : q \in D => place[q] \in Convo
  BY DEF CallsInv
<1>3. tool' \in [Call -> ToolType]
  BY DEF RestartMove, RoutesLost, Working, CallsInv, ToolType
<1>4. packet' \in [Question -> PacketType] /\ \A q \in Question : packet'[q] # "none" => place[q] \in Convo
  BY <1>1 DEF PacketType
<1> HIDE DEF D
<1> QED
  BY <1>1, <1>2, <1>3, <1>4, CallsDropped DEF CallsInv

LEMMA AnswerType ==
    ASSUME CallsInv, NEW t \in Call, NEW answer \in ToolType,
           tool' = [tool EXCEPT ![t] = answer]
    PROVE  tool' \in [Call -> ToolType]
BY DEF CallsInv

LEMMA CallKeepsCalls ==
    ASSUME CallsInv, CallMove
    PROVE  CallsInv'
<1>0. UNCHANGED <<place, remembered, packet>>
  BY DEF CallMove, chatVars, pageVars
<1>1. ASSUME NEW answer \in ToolType, NEW t \in Call, tool' = [tool EXCEPT ![t] = answer],
             UNCHANGED <<projects, solve>>
      PROVE  CallsInv'
  BY <1>0, <1>1, AnswerType DEF CallsInv, CallOk, Solving
<1>2. ASSUME NEW t \in Call, ProviderAnswers(t) \/ WikipediaAnswers(t) \/ DuckDuckGoAnswers(t)
      PROVE  CallsInv'
  <2>1. PICK answer \in {Answer("results"), Answer("no results"), Answer("search failed"),
                         Working("duckduckgo")} : tool' = [tool EXCEPT ![t] = answer]
    BY <1>2 DEF ProviderAnswers, WikipediaAnswers, DuckDuckGoAnswers
  <2>2. /\ Answer("results") \in ToolType /\ Answer("no results") \in ToolType
        /\ Answer("search failed") \in ToolType /\ Working("duckduckgo") \in ToolType
    BY DEF Answer, Working, ToolType
  <2> HIDE DEF ToolType
  <2>4. answer \in ToolType
    BY <2>1, <2>2
  <2>3. UNCHANGED <<projects, solve>>
    BY <1>2 DEF ProviderAnswers, WikipediaAnswers, DuckDuckGoAnswers, ariVars
  <2> QED
    BY <1>1, <2>1, <2>3, <2>4
<1>3. ASSUME NEW t \in Call, AristotleAnswers(t) PROVE CallsInv'
  <2> DEFINE s == [solve[t] EXCEPT !.phase = "done"]
  <2>1. t \in Asker /\ solve[t] \in Solving(Len(projects)) /\ Len(projects) \in Nat
    BY ToolsAssumption, LenProperties DEF CallsInv
  <2>2. s \in Solving(Len(projects)) /\ CallOk(s)
    BY <2>1 DEF Solving, CallOk
  <2>3. solve' = [solve EXCEPT ![t] = s] /\ UNCHANGED projects
    BY <1>3 DEF AristotleAnswers
  <2>4. Answer(Claimed(solve[t].result)) \in ToolType
    BY <2>1 DEF Answer, Claimed, ToolType, Solving
  <2>5. tool' \in [Call -> ToolType]
    BY <1>3, <2>4, AnswerType DEF AristotleAnswers
  <2>6. t \in Question => place[t] \in Convo
    BY <1>3 DEF AristotleAnswers, CallsInv
  <2> HIDE DEF s
  <2> QED
    BY <1>0, <2>1, <2>2, <2>3, <2>5, <2>6, OneCall DEF CallsInv
<1>4. ASSUME NEW t \in Call, NEW name \in ToolNames, NEW arithmetic \in BOOLEAN,
             ExecuteTool(t, name, arithmetic)
      PROVE  CallsInv'
  <2>1. CASE UNCHANGED solve
    <3>1. PICK answer \in {Answer(Value(arithmetic)), Working("provider"), Working("wikipedia"),
                           Answer("value"), Answer("unavailable"), Working("aristotle"), Answer("unknown")} :
            tool' = [tool EXCEPT ![t] = answer]
      BY <1>4 DEF ExecuteTool
    <3>2. /\ Answer("value") \in ToolType /\ Answer("null") \in ToolType
          /\ Answer("unavailable") \in ToolType /\ Answer("unknown") \in ToolType
          /\ Working("provider") \in ToolType /\ Working("wikipedia") \in ToolType
          /\ Working("aristotle") \in ToolType
      BY DEF Answer, Working, ToolType
    <3>3. Answer(Value(arithmetic)) \in ToolType
      BY <3>2 DEF Value
    <3>4. answer \in ToolType
      BY <3>1, <3>2, <3>3
    <3> QED
      BY <1>1, <1>4, <2>1, <3>1, <3>4 DEF ExecuteTool
  <2>2. CASE tool' = [tool EXCEPT ![t] = Working("aristotle")] /\ Solve(t, NoProject)
    <3>1. Working("aristotle") \in ToolType
      BY DEF Working, ToolType
    <3>2. tool' \in [Call -> ToolType] /\ t \in Asker /\ t \notin Question
      BY <2>2, <3>1, AnswerType, ToolsAssumption, AssistantAssumption
    <3>3. Begins(t, NoProject) /\ NoProject \in 0 .. Len(projects) /\ UNCHANGED projects
      BY <1>4, <2>2, <3>2, SolveBegins, LenProperties DEF ExecuteTool, NoProject, CallsInv
    <3> QED
      BY <1>0, <3>2, <3>3, BegunKeepsCalls
  <2> QED
    BY <1>4, <2>1, <2>2 DEF ExecuteTool
<1> QED
  BY <1>2, <1>3, <1>4 DEF CallMove, ToolStep

\* The mention a runner is on, and its call of solve.
LEMMA OnMention ==
    ASSUME RunInv, NEW r \in Runner, run[r].phase \in OnOne
    PROVE  /\ Head(run[r].todo) \in DOMAIN Mentions /\ ProofOf(r) \in Asker
           /\ ProofOf(r) \notin Question /\ ProofOf(r) \notin Call
<1>1. Head(run[r].todo) \in 1 .. posted /\ posted \in 0 .. Len(Mentions)
  BY HeadTailProperties DEF RunInv, RunOk
<1>2. Len(Mentions) \in Nat /\ DOMAIN Mentions = 1 .. Len(Mentions)
  BY LenProperties, XBotAssumption
<1>3. Head(run[r].todo) \in DOMAIN Mentions
  BY <1>1, <1>2
<1>4. ProofOf(r) \in Runner \X DOMAIN Mentions
  BY <1>3 DEF ProofOf
<1> QED
  BY <1>3, <1>4, XBotAssumption, AssistantAssumption

LEMMA BotKeepsCalls ==
    ASSUME RunInv, CallsInv, BotMove
    PROVE  CallsInv'
<1>0. UNCHANGED <<place, remembered, packet, tool>>
  BY DEF BotMove, chatVars, pageVars
<1>1. CASE UNCHANGED ariVars
  BY <1>0, <1>1 DEF CallsInv, CallOk, Solving, ariVars
<1>2. CASE Mentioned \/ Midnight
  BY <1>1, <1>2 DEF Mentioned, Midnight
<1>3. ASSUME NEW D, Drops(D), UNCHANGED projects, D \cap Question = {} PROVE CallsInv'
  <2>1. /\ packet' \in [Question -> PacketType] /\ remembered' \in [Convo -> 0 .. Len(projects)]
        /\ tool' \in [Call -> ToolType]
        /\ \A q \in Question : packet'[q] # "none" => place[q] \in Convo
    BY <1>0 DEF CallsInv
  <2> QED
    BY <1>0, <1>3, <2>1, CallsDropped
<1>4. ASSUME NEW r \in Runner, Die(r) PROVE CallsInv'
  <2> DEFINE D == {a \in Asker : run[r].phase = "proving" /\ a = ProofOf(r)}
  <2>1. Drops(D) /\ UNCHANGED projects
    BY <1>4 DEF Die, Drops
  <2>2. D \cap Question = {}
    BY OnMention DEF OnOne
  <2> HIDE DEF D
  <2> QED
    BY <1>3, <2>1, <2>2
<1>5. ASSUME NEW r \in Runner, Proved(r) PROVE CallsInv'
  <2> DEFINE t == ProofOf(r)
  <2>1. t \in Asker /\ t \notin Question
    BY <1>5, OnMention DEF Proved, OnOne
  <2>2. Drops({t}) /\ UNCHANGED projects
    BY <1>5, <2>1, OneIsDropped DEF Proved
  <2> QED
    BY <1>3, <2>1, <2>2
<1>6. ASSUME NEW r \in Runner, Accept(r) PROVE CallsInv'
  <2> DEFINE t == ProofOf(r)
  <2>1. t \in Asker /\ t \notin Question /\ UNCHANGED projects
    BY <1>6, OnMention DEF Accept, OnOne
  <2>2. Begins(t, NoProject) /\ NoProject \in 0 .. Len(projects)
    BY <1>6, <2>1, SolveBegins, LenProperties DEF Accept, NoProject, CallsInv
  <2>3. tool' \in [Call -> ToolType]
    BY <1>0 DEF CallsInv
  <2> QED
    BY <1>0, <2>1, <2>2, <2>3, BegunKeepsCalls
<1>7. ASSUME NEW r \in Runner,
             \/ StartRun(r) \/ FetchMentions(r) \/ TakeMention(r) \/ EndRun(r)
             \/ Gated(r) \/ Reply(r)
      PROVE  CallsInv'
  BY <1>1, <1>7 DEF StartRun, FetchMentions, TakeMention, EndRun, Gated, Reply
<1> QED
  BY <1>2, <1>4, <1>5, <1>6, <1>7 DEF BotMove, RunStep

LEMMA CallsInvInit == Init => CallsInv
<1> SUFFICES ASSUME Init PROVE CallsInv
  OBVIOUS
<1>1. projects = <<>> /\ solve = [a \in Asker |-> Idle] /\ projects \in Seq(Thread) /\ Len(projects) = 0
  BY EmptySeq DEF Init, AriInit
<1>2. Idle \in Solving(0) /\ CallOk(Idle)
  BY DEF Idle, Solving, CallOk, NoProject, NoTask
<1>3. /\ remembered \in [Convo -> 0 .. 0] /\ packet = [q \in Question |-> "none"]
      /\ tool \in [Call -> ToolType]
  BY DEF Init, ChatInit, ToolsInit, NotCalled, ToolType, NoProject
<1>4. \A q \in Question : solve[q].phase = "idle"
  BY <1>1, ConversationsAssumption DEF Idle
<1> QED
  BY <1>1, <1>2, <1>3, <1>4 DEF CallsInv, PacketType

LEMMA CallsInvNext ==
    ASSUME RunInv, PageInv, CallsInv, [AskNext]_askVars
    PROVE  CallsInv'
<1>1. CASE UNCHANGED askVars
  BY <1>1 DEF askVars, ariVars, CallsInv, CallOk, Solving
<1> QED
  BY <1>1, ChatKeepsCalls, RestartKeepsCalls, ClientKeepsCalls, CallKeepsCalls, BotKeepsCalls DEF AskNext

LEMMA CallsInvAlways == Spec => [](RunInv /\ PageInv /\ CallsInv)
<1>1. RunInv /\ PageInv /\ CallsInv /\ [Next]_vars => CallsInv'
  BY AskMoves, CallsInvNext
<1> QED
  BY <1>1, CallsInvInit, RunInvAlways, PageInvAlways, PTL DEF Spec

\* What a step may be to the threads of the service.
Placed(q) ==
    /\ place[q] = NoConvo
    /\ \E c \in Convo : place' = [place EXCEPT ![q] = c]
    /\ UNCHANGED <<projects, solve, remembered>>

\* A call continues no project, or the one of its question's conversation.
Begun(a, prior) ==
    /\ Begins(a, prior)
    /\ \/ prior = NoProject
       \/ a \in Question /\ place[a] \in Convo /\ prior = remembered[place[a]]
    /\ UNCHANGED <<projects, place, remembered>>

Dropped(D) ==
    /\ Drops(D)
    /\ \A a \in D \cap Call : solve[a].phase \in {"requesting", "polling", "returned"}
    /\ UNCHANGED <<projects, place, remembered>>

Finished(q) ==
    /\ solve[q].phase = "returned" /\ place[q] \in Convo
    /\ Drops({q}) /\ Remember(q)
    /\ UNCHANGED <<projects, place>>

\* The service has the task of a, and a waits for it or does not.
Posted(a, s) ==
    /\ solve[a].phase = "requesting" /\ Posts(a)
    /\ \/ s.phase = "returned" /\ s.project = NoProject /\ s.result = "error"
       \/ s.phase = "polling" /\ s.project = At(a)
    /\ solve' = [solve EXCEPT ![a] = s]
    /\ UNCHANGED <<place, remembered>>

\* A call has its result, of a task it saw completed if it says so.
Returned(a, s) ==
    /\ solve[a].phase \in {"requesting", "polling"} /\ s.phase = "returned"
    /\ s.project \in {NoProject, solve[a].project}
    /\ s.result = "verified" =>
         /\ solve[a].phase = "polling" /\ s.project = solve[a].project
         /\ \E n \in DOMAIN projects[solve[a].project] :
              projects[solve[a].project][Watched(a, n)].status = "COMPLETE"
    /\ solve' = [solve EXCEPT ![a] = s]
    /\ UNCHANGED <<projects, place, remembered>>

Answered(t) ==
    /\ solve[t].phase = "returned"
    /\ solve' = [solve EXCEPT ![t] = [solve[t] EXCEPT !.phase = "done"]]
    /\ UNCHANGED <<projects, place, remembered>>

SolveNext ==
    \/ \E q \in Question : Placed(q) \/ Finished(q)
    \/ \E a \in Asker, prior \in 0 .. Len(projects) : Begun(a, prior)
    \/ \E D \in SUBSET Asker : Dropped(D)
    \/ \E a \in Asker : \E s \in Solving(Len(projects')) : Posted(a, s)
    \/ \E a \in Asker : \E s \in Solving(Len(projects)) : Returned(a, s)
    \/ \E t \in Call : Answered(t)
    \/ /\ \E p \in DOMAIN projects : \E i \in DOMAIN projects[p], status \in Outcomes :
            EndTask(p, i, status)
       /\ UNCHANGED <<place, remembered>>

solveVars == <<projects, solve, place, remembered>>

LEMMA ChatSolves ==
    ASSUME PageInv, CallsInv, ChatMove
    PROVE  SolveNext \/ UNCHANGED solveVars
<1>1. ASSUME NEW q \in Question, Send(q) PROVE Placed(q)
  BY <1>1, SendKeepsPage DEF Placed, Send, FreshJobs, ariVars
<1>2. ASSUME NEW q \in Question, Serve(q) PROVE SolveNext \/ UNCHANGED solveVars
  <2>1. place[q] \in Convo /\ UNCHANGED <<projects, place, remembered>> /\ q \in Asker
    BY <1>2, ConversationsAssumption DEF Serve, CallsInv, pageVars
  <2>2. CASE UNCHANGED solve
    BY <2>1, <2>2 DEF solveVars
  <2>3. CASE Solve(q, ThreadOf(q))
    <3>1. Begun(q, ThreadOf(q)) /\ ThreadOf(q) \in 0 .. Len(projects)
      BY <2>1, <2>3, SolveBegins DEF Begun, ThreadOf, CallsInv
    <3> QED
      BY <2>1, <3>1 DEF SolveNext
  <2> QED
    BY <1>2, <2>2, <2>3 DEF Serve
<1>3. ASSUME NEW q \in Question, Finish(q) PROVE Finished(q)
  <2>1. q \in Asker /\ place[q] \in Convo /\ UNCHANGED <<projects, place>>
    BY <1>3, ConversationsAssumption DEF Finish, CallsInv, pageVars
  <2> QED
    BY <1>3, <2>1, OneIsDropped DEF Finish, Finished
<1>4. ASSUME NEW q \in Question, Deliver(q) PROVE UNCHANGED solveVars
  BY <1>4 DEF Deliver, solveVars, ariVars
<1> QED
  BY <1>1, <1>2, <1>3, <1>4 DEF ChatMove, SolveNext, solveVars, ariVars

LEMMA ClientSolves ==
    ASSUME CallsInv, ClientMove
    PROVE  SolveNext \/ UNCHANGED solveVars
<1> DEFINE n == Len(projects)
<1>0. n \in Nat /\ UNCHANGED <<place, remembered>>
  BY LenProperties DEF CallsInv, ClientMove, chatVars, pageVars
<1>1. ASSUME NEW a \in Asker, RequestFails(a) \/ SolveStep(a)
      PROVE  SolveNext
  <2>0. solve[a] \in Solving(n)
    BY DEF CallsInv
  <2>1. CASE RequestFails(a) /\ UNCHANGED projects
    <3> DEFINE s == [phase |-> "returned", project |-> NoProject, task |-> solve[a].task, result |-> "error"]
    <3>1. s \in Solving(n)
      BY <1>0, <2>0 DEF Solving, NoProject
    <3>2. solve' = [solve EXCEPT ![a] = s] /\ solve[a].phase = "requesting"
      BY <2>1 DEF RequestFails, Return
    <3>3. s.phase = "returned" /\ s.project = NoProject /\ s.result = "error"
      OBVIOUS
    <3> HIDE DEF s
    <3>4. Returned(a, s)
      BY <1>0, <2>1, <3>2, <3>3 DEF Returned
    <3> QED
      BY <3>1, <3>4 DEF SolveNext
  <2>2. ASSUME Posts(a) PROVE n <= Len(projects') /\ Len(projects') \in Nat /\ At(a) \in 0 .. Len(projects')
    BY <1>0, <2>2, PostsParts
  <2>3. CASE RequestFails(a) /\ Posts(a)
    <3> DEFINE s == [phase |-> "returned", project |-> NoProject, task |-> solve[a].task, result |-> "error"]
    <3>1. s \in Solving(Len(projects'))
      BY <2>0, <2>2, <2>3 DEF Solving, NoProject
    <3>2. solve' = [solve EXCEPT ![a] = s] /\ solve[a].phase = "requesting"
      BY <2>3 DEF RequestFails, Return
    <3>3. s.phase = "returned" /\ s.project = NoProject /\ s.result = "error"
      OBVIOUS
    <3> HIDE DEF s
    <3>4. Posted(a, s)
      BY <1>0, <2>3, <3>2, <3>3 DEF Posted
    <3> QED
      BY <3>1, <3>4 DEF SolveNext
  <2>4. CASE Create(a)
    <3> DEFINE s == [phase |-> "polling", project |-> n + 1, task |-> NoTask, result |-> "none"]
    <3>1. Posts(a) /\ At(a) = n + 1 /\ solve[a].phase = "requesting" /\ solve[a].project = NoProject
      BY <2>4 DEF Create, Posts, At
    <3>2. s \in Solving(Len(projects'))
      BY <2>2, <3>1 DEF Solving, NoTask
    <3>3. solve' = [solve EXCEPT ![a] = s]
      BY <2>4 DEF Create
    <3>4. s.phase = "polling" /\ s.project = At(a)
      BY <3>1
    <3> HIDE DEF s
    <3>5. Posted(a, s)
      BY <1>0, <3>1, <3>3, <3>4 DEF Posted
    <3> QED
      BY <3>2, <3>5 DEF SolveNext
  <2>5. CASE Ask(a)
    <3>1. Posts(a) /\ At(a) = solve[a].project /\ solve[a].phase = "requesting" /\ solve[a].project # NoProject
      BY <2>5 DEF Ask, Posts, At
    <3>2. At(a) \in 0 .. Len(projects') /\ At(a) \in 1 .. n
      BY <3>1, PostsParts
    <3>3. Len(projects[solve[a].project]) \in Nat
      BY <3>1, <3>2, ElementOfSeq, LenProperties DEF CallsInv, Thread
    <3>4. PICK id \in {Len(projects[solve[a].project]) + 1, NoTask} :
            solve' = [solve EXCEPT ![a].phase = "polling", ![a].task = id]
      BY <2>5 DEF Ask
    <3> DEFINE s == [solve[a] EXCEPT !.phase = "polling", !.task = id]
    <3>5. s \in Solving(Len(projects')) /\ s.phase = "polling" /\ s.project = At(a)
      <4>1. id \in Nat
        BY <3>3 DEF NoTask
      <4>2. solve[a].project \in 0 .. Len(projects')
        BY <3>1, <3>2
      <4> QED
        BY <2>0, <3>1, <4>1, <4>2 DEF Solving
    <3>6. solve' = [solve EXCEPT ![a] = s]
      BY <3>4
    <3> HIDE DEF s
    <3>7. Posted(a, s)
      BY <1>0, <3>1, <3>5, <3>6 DEF Posted
    <3> QED
      BY <3>5, <3>7 DEF SolveNext
  <2>6. ASSUME solve[a].phase = "polling", UNCHANGED projects,
               NEW result \in {"error", "answered", "verified"},
               result = "verified" =>
                 \E k \in DOMAIN projects[solve[a].project] :
                    projects[solve[a].project][Watched(a, k)].status = "COMPLETE",
               Return(a, solve[a].project, result)
        PROVE  SolveNext
    <3> DEFINE s == [phase |-> "returned", project |-> solve[a].project, task |-> solve[a].task,
                     result |-> result]
    <3>1. s \in Solving(n)
      BY <1>0, <2>0 DEF Solving
    <3>2. solve' = [solve EXCEPT ![a] = s]
      BY <2>6 DEF Return
    <3>3. s.phase = "returned" /\ s.project = solve[a].project /\ s.result = result
      OBVIOUS
    <3> HIDE DEF s
    <3>4. Returned(a, s)
      BY <1>0, <2>6, <3>2, <3>3 DEF Returned
    <3> QED
      BY <3>1, <3>4 DEF SolveNext
  <2>7. CASE Poll(a)
    BY <2>6, <2>7 DEF Poll, Verdict
  <2>8. CASE Deadline(a)
    BY <2>6, <2>8 DEF Deadline
  <2>9. CASE RequestFails(a)
    BY <2>1, <2>3, <2>9 DEF RequestFails, Posts
  <2> QED
    BY <1>1, <2>4, <2>5, <2>7, <2>8, <2>9 DEF SolveStep
<1> QED
  BY <1>0, <1>1 DEF ClientMove, SolveNext

LEMMA CallSolves ==
    ASSUME CallsInv, CallMove
    PROVE  SolveNext \/ UNCHANGED solveVars
<1>0. UNCHANGED <<place, remembered>> /\ Len(projects) \in Nat
  BY LenProperties DEF CallMove, chatVars, pageVars, CallsInv
<1>1. ASSUME NEW t \in Call, ProviderAnswers(t) \/ WikipediaAnswers(t) \/ DuckDuckGoAnswers(t)
      PROVE  UNCHANGED solveVars
  BY <1>0, <1>1 DEF ProviderAnswers, WikipediaAnswers, DuckDuckGoAnswers, solveVars, ariVars
<1>2. ASSUME NEW t \in Call, AristotleAnswers(t) PROVE Answered(t)
  BY <1>0, <1>2 DEF AristotleAnswers, Answered
<1>3. ASSUME NEW t \in Call, NEW name \in ToolNames, NEW arithmetic \in BOOLEAN,
             ExecuteTool(t, name, arithmetic)
      PROVE  SolveNext \/ UNCHANGED solveVars
  <2>1. CASE UNCHANGED solve
    BY <1>0, <1>3, <2>1 DEF ExecuteTool, solveVars
  <2>2. CASE Solve(t, NoProject)
    <3>1. Begun(t, NoProject) /\ t \in Asker /\ NoProject \in 0 .. Len(projects)
      BY <1>0, <1>3, <2>2, SolveBegins, ToolsAssumption DEF Begun, ExecuteTool, NoProject
    <3> QED
      BY <3>1 DEF SolveNext
  <2> QED
    BY <1>3, <2>1, <2>2 DEF ExecuteTool
<1> QED
  BY <1>1, <1>2, <1>3 DEF CallMove, ToolStep, SolveNext

LEMMA BotSolves ==
    ASSUME RunInv, CallsInv, BotMove
    PROVE  SolveNext \/ UNCHANGED solveVars
<1>0. UNCHANGED <<place, remembered>> /\ Len(projects) \in Nat
  BY LenProperties DEF BotMove, chatVars, pageVars, CallsInv
<1>1. CASE UNCHANGED ariVars
  BY <1>0, <1>1 DEF solveVars, ariVars
<1>2. CASE Mentioned \/ Midnight
  BY <1>1, <1>2 DEF Mentioned, Midnight
<1>3. ASSUME NEW D \in SUBSET Asker, Drops(D), UNCHANGED projects, D \cap Call = {} PROVE SolveNext
  <2>1. Dropped(D)
    BY <1>0, <1>3 DEF Dropped
  <2> QED
    BY <2>1 DEF SolveNext
<1>4. ASSUME NEW r \in Runner, Die(r) PROVE SolveNext
  <2> DEFINE D == {a \in Asker : run[r].phase = "proving" /\ a = ProofOf(r)}
  <2>1. Drops(D) /\ UNCHANGED projects
    BY <1>4 DEF Die, Drops
  <2>2. D \cap Call = {} /\ D \in SUBSET Asker
    BY OnMention DEF OnOne
  <2> HIDE DEF D
  <2> QED
    BY <1>3, <2>1, <2>2
<1>5. ASSUME NEW r \in Runner, Proved(r) PROVE SolveNext
  <2> DEFINE t == ProofOf(r)
  <2>1. t \in Asker /\ t \notin Call
    BY <1>5, OnMention DEF Proved, OnOne
  <2>2. Drops({t}) /\ UNCHANGED projects
    BY <1>5, <2>1, OneIsDropped DEF Proved
  <2> QED
    BY <1>3, <2>1, <2>2
<1>6. ASSUME NEW r \in Runner, Accept(r) PROVE SolveNext
  <2> DEFINE t == ProofOf(r)
  <2>1. t \in Asker /\ UNCHANGED projects /\ Solve(t, NoProject)
    BY <1>6, OnMention DEF Accept, OnOne
  <2>2. Begun(t, NoProject) /\ NoProject \in 0 .. Len(projects)
    BY <1>0, <2>1, SolveBegins DEF Begun, NoProject
  <2> QED
    BY <2>1, <2>2 DEF SolveNext
<1>7. ASSUME NEW r \in Runner,
             \/ StartRun(r) \/ FetchMentions(r) \/ TakeMention(r) \/ EndRun(r)
             \/ Gated(r) \/ Reply(r)
      PROVE  SolveNext \/ UNCHANGED solveVars
  BY <1>1, <1>7 DEF StartRun, FetchMentions, TakeMention, EndRun, Gated, Reply
<1> QED
  BY <1>2, <1>4, <1>5, <1>6, <1>7 DEF BotMove, RunStep

LEMMA SolveMoves ==
    ASSUME RunInv, PageInv, CallsInv, [AskNext]_askVars
    PROVE  [SolveNext]_solveVars
<1>1. CASE UNCHANGED askVars
  BY <1>1 DEF askVars, ariVars, solveVars
<1>2. CASE RestartMove
  <2> DEFINE D == {a \in Asker : a \in InProcess /\ solve[a].phase \in {"requesting", "polling", "returned"}}
  <2>1. Drops(D) /\ UNCHANGED <<projects, place, remembered>>
    BY <1>2 DEF RestartMove, Restart, Drops
  <2>2. Dropped(D) /\ D \in SUBSET Asker
    BY <2>1 DEF Dropped
  <2> HIDE DEF D
  <2> QED
    BY <2>2 DEF SolveNext
<1> QED
  BY <1>1, <1>2, ChatSolves, ClientSolves, CallSolves, BotSolves DEF AskNext

-----------------------------------------------------------------------------
(***************************************************************************)
(* Threads.                                                                *)
(***************************************************************************)
\* Askers of one thread: one call, or questions of one conversation.
Same(a, b) == a = b \/ (a \in Question /\ b \in Question /\ place[a] = place[b])

AskersOf(rows) == {rows[i].asker : i \in 1 .. Len(rows)}

ThreadInv ==
    /\ \A p \in 1 .. Len(projects) : \A a, b \in AskersOf(projects[p]) : Same(a, b)
    /\ \A a \in Asker : solve[a].project # NoProject =>
         \A b \in AskersOf(projects[solve[a].project]) : Same(a, b)
    /\ \A c \in Convo : remembered[c] # NoProject =>
         \A b \in AskersOf(projects[remembered[c]]) : b \in Question /\ place[b] = c
    /\ \A p \in 1 .. Len(projects) : \A b \in AskersOf(projects[p]) :
         b \in Asker /\ solve[b].phase # "idle"

LEMMA ThreadHasAsker ==
    ASSUME NEW rows \in Thread
    PROVE  /\ \E b \in Asker : b \in AskersOf(rows)
           /\ AskersOf(rows) \subseteq Asker
           /\ \A a \in Asker : AskersOf(Append(rows, Task(a))) = AskersOf(rows) \cup {a}
<1>1. rows \in Seq(Row) /\ Len(rows) \in Nat \ {0} /\ \A i \in 1 .. Len(rows) : rows[i] \in Row
  BY LenProperties, ElementOfSeq, EmptySeq DEF Thread
<1>2. AskersOf(rows) \subseteq Asker
  BY <1>1 DEF AskersOf, Row
<1>3. rows[1].asker \in AskersOf(rows)
  BY <1>1 DEF AskersOf
<1>4. ASSUME NEW a \in Asker
      PROVE  AskersOf(Append(rows, Task(a))) = AskersOf(rows) \cup {a}
  <2> DEFINE more == Append(rows, Task(a))
  <2>1. Task(a) \in Row /\ Task(a).asker = a
    BY DEF Task, Row, Running
  <2>2. /\ Len(more) = Len(rows) + 1 /\ more[Len(rows) + 1] = Task(a)
        /\ \A i \in 1 .. Len(rows) : more[i] = rows[i]
    BY <1>1, <2>1, AppendProperties
  <2> HIDE DEF more
  <2>3. /\ \A i \in 1 .. Len(more) : i \in 1 .. Len(rows) \/ i = Len(rows) + 1
        /\ \A i \in 1 .. Len(rows) : i \in 1 .. Len(more)
        /\ Len(rows) + 1 \in 1 .. Len(more)
    BY <1>1, <2>2
  <2>4. AskersOf(more) \subseteq AskersOf(rows) \cup {a}
    BY <2>1, <2>2, <2>3 DEF AskersOf
  <2>5. AskersOf(rows) \subseteq AskersOf(more)
    BY <2>2, <2>3 DEF AskersOf
  <2>6. a \in AskersOf(more)
    BY <2>1, <2>2, <2>3 DEF AskersOf
  <2> QED
    BY <2>4, <2>5, <2>6 DEF more
<1> QED
  BY <1>2, <1>3, <1>4

\* Threads stay, and so do the conversations of whoever asked.
LEMMA SameThreads ==
    ASSUME CallsInv, ThreadInv, Len(projects') = Len(projects),
           \A p \in 1 .. Len(projects) : AskersOf(projects'[p]) = AskersOf(projects[p]),
           \A q \in Question : place[q] # NoConvo => place'[q] = place[q],
           \A a \in Asker : solve'[a].project \in {NoProject, solve[a].project} \/
             /\ a \in Question /\ place[a] \in Convo
             /\ solve'[a].project = remembered[place[a]],
           \A a \in Asker : solve[a].phase # "idle" => solve'[a].phase # "idle",
           \A c \in Convo : remembered'[c] = remembered[c] \/
             \E q \in Question : place[q] = c /\ remembered'[c] = solve[q].project
    PROVE  ThreadInv'
<1> DEFINE asked(p) == AskersOf(projects[p])
<1>0. Len(projects) \in Nat
  BY LenProperties DEF CallsInv
<1>1. \A p \in 1 .. Len(projects) : \A b \in asked(p) :
        b \in Asker /\ solve[b].phase # "idle" /\ (b \in Question => place[b] \in Convo /\ place'[b] = place[b])
  BY ConversationsAssumption DEF ThreadInv, CallsInv
<1>2. \A p \in 1 .. Len(projects) : \A a, b \in asked(p) : Same(a, b)'
  BY <1>1 DEF ThreadInv, Same
<1>3. ASSUME NEW a \in Asker, solve'[a].project # NoProject
      PROVE  /\ solve'[a].project \in 1 .. Len(projects)
             /\ \A b \in asked(solve'[a].project) : Same(a, b)'
  <2>1. CASE solve'[a].project = solve[a].project
    <3>1. solve[a].project \in 1 .. Len(projects) /\ solve[a].phase # "idle"
      BY <1>0, <1>3, <2>1 DEF CallsInv, Solving, NoProject, CallOk, Idle
    <3>2. \A b \in asked(solve[a].project) : Same(a, b)
      BY <1>3, <2>1 DEF ThreadInv
    <3>3. a \in Question => place'[a] = place[a]
      BY <3>1, ConversationsAssumption DEF CallsInv
    <3> QED
      BY <1>1, <2>1, <3>1, <3>2, <3>3 DEF Same
  <2>2. CASE a \in Question /\ place[a] \in Convo /\ solve'[a].project = remembered[place[a]]
    <3>1. remembered[place[a]] \in 1 .. Len(projects) /\ place'[a] = place[a]
      BY <1>0, <1>3, <2>2, ConversationsAssumption DEF CallsInv, NoProject
    <3>2. \A b \in asked(remembered[place[a]]) : b \in Question /\ place[b] = place[a]
      BY <1>3, <2>2 DEF ThreadInv
    <3> QED
      BY <1>1, <2>2, <3>1, <3>2 DEF Same
  <2> QED
    BY <1>3, <2>1, <2>2
<1>4. ASSUME NEW c \in Convo, remembered'[c] # NoProject
      PROVE  /\ remembered'[c] \in 1 .. Len(projects)
             /\ \A b \in asked(remembered'[c]) : b \in Question /\ place'[b] = c
  <2>1. CASE remembered'[c] = remembered[c]
    <3>1. remembered[c] \in 1 .. Len(projects)
      BY <1>0, <1>4, <2>1 DEF CallsInv, NoProject
    <3> QED
      BY <1>1, <1>4, <2>1, <3>1 DEF ThreadInv
  <2>2. CASE \E q \in Question : place[q] = c /\ remembered'[c] = solve[q].project
    <3>1. PICK q \in Question : place[q] = c /\ remembered'[c] = solve[q].project
      BY <2>2
    <3>2. solve[q].project \in 1 .. Len(projects) /\ q \in Asker
      BY <1>0, <1>4, <3>1, ConversationsAssumption DEF CallsInv, Solving, NoProject
    <3>3. \A b \in asked(solve[q].project) : Same(q, b)
      BY <1>4, <3>1, <3>2 DEF ThreadInv
    <3>4. \A b \in asked(solve[q].project) : b \in Question /\ place[b] = c
      BY <3>1, <3>3 DEF Same
    <3> QED
      BY <1>1, <3>1, <3>2, <3>4
  <2> QED
    BY <2>1, <2>2
<1>5. \A p \in 1 .. Len(projects) : AskersOf(projects[p])' = asked(p)
  BY DEF AskersOf
<1>6. \A p \in 1 .. Len(projects) : \A b \in asked(p) : b \in Asker /\ solve'[b].phase # "idle"
  BY <1>1
<1> HIDE DEF asked
<1> QED
  BY <1>2, <1>3, <1>4, <1>5, <1>6 DEF ThreadInv

\* A task joins its thread.
LEMMA PostedThreads ==
    ASSUME CallsInv, ThreadInv, NEW a \in Asker, NEW s \in Solving(Len(projects')), Posted(a, s)
    PROVE  ThreadInv'
<1> DEFINE asked(p) == AskersOf(projects[p])
           asked2(p) == AskersOf(projects'[p])
           n == Len(projects)
           n2 == Len(projects')
           home == At(a)
<1>1. /\ n \in Nat /\ home \in 1 .. n2 /\ n <= n2 /\ n2 <= n + 1 /\ projects' \in Seq(Thread)
      /\ \A p \in 1 .. n2 : p # home => p \in 1 .. n /\ projects'[p] = projects[p]
      /\ solve[a].project = NoProject => home \notin 1 .. n /\ projects'[home] = <<Task(a)>>
      /\ solve[a].project # NoProject =>
           /\ home = solve[a].project /\ home \in 1 .. n
           /\ projects'[home] = Append(projects[home], Task(a))
  BY PostsParts DEF Posted
<1>2. \A p \in 1 .. n : projects[p] \in Thread
  BY ElementOfSeq DEF CallsInv
<1>3. solve[a].project = NoProject => asked2(home) = {a}
  <2>1. AskersOf(<<Task(a)>>) = {a}
    BY DEF AskersOf, Task
  <2> QED
    BY <1>1, <2>1
<1>4. solve[a].project # NoProject =>
        /\ asked2(home) = asked(home) \cup {a} /\ \E b \in Asker : b \in asked(home)
        /\ \A b \in asked(home) : Same(a, b)
  <2> SUFFICES ASSUME solve[a].project # NoProject
               PROVE  /\ asked2(home) = asked(home) \cup {a} /\ \E b \in Asker : b \in asked(home)
                      /\ \A b \in asked(home) : Same(a, b)
    OBVIOUS
  <2>1. /\ home = solve[a].project /\ projects[home] \in Thread
        /\ projects'[home] = Append(projects[home], Task(a))
    BY <1>1, <1>2
  <2>2. \A b \in asked(home) : Same(a, b)
    BY <2>1 DEF ThreadInv
  <2> HIDE DEF home
  <2> QED
    BY <2>1, <2>2, ThreadHasAsker
<1>5. \A p \in 1 .. n2 : p # home => p \in 1 .. n /\ asked2(p) = asked(p)
  BY <1>1
<1>6. /\ \A b \in Asker : solve'[b] = IF b = a THEN s ELSE solve[b]
      /\ UNCHANGED <<place, remembered>> /\ s.phase # "idle" /\ s.project \in {NoProject, home}
  BY DEF CallsInv, Posted
<1>15. \A p \in 0 .. n : p # NoProject => p \in 1 .. n /\ p \in 1 .. n2
  <2>1. n \in Nat /\ n2 \in Nat /\ n <= n2
    BY <1>1, LenProperties
  <2> HIDE DEF n, n2
  <2> QED
    BY <2>1 DEF NoProject
<1> HIDE DEF asked, asked2, n, n2, home
<1>7. \A p \in 1 .. n : \A b, c \in asked(p) : Same(b, c)
  BY DEF ThreadInv, asked, n
<1>8. \A b, c \in asked2(home) : Same(b, c)
  <2>1. CASE solve[a].project = NoProject
    BY <1>3, <2>1 DEF Same
  <2>2. CASE solve[a].project # NoProject
    BY <1>1, <1>4, <1>7, <2>2 DEF Same
  <2> QED
    BY <2>1, <2>2
<1>9. \A p \in 1 .. n2 : \A b, c \in asked2(p) : Same(b, c)
  BY <1>5, <1>7, <1>8
<1>10. ASSUME NEW b \in Asker, solve'[b].project # NoProject
       PROVE  /\ solve'[b].project \in 1 .. n2
              /\ \A c \in asked2(solve'[b].project) : Same(b, c)
  <2>1. CASE b = a
    <3>1. solve'[b].project = home /\ a \in asked2(home)
      BY <1>3, <1>4, <1>6, <1>10, <2>1
    <3> QED
      BY <1>1, <1>8, <2>1, <3>1
  <2>2. CASE b # a
    <3>1. solve'[b] = solve[b] /\ solve[b].project \in 1 .. n /\ solve[b].project \in 1 .. n2
      <4>1. solve'[b] = solve[b] /\ solve[b].project \in 0 .. n
        BY <1>6, <2>2 DEF CallsInv, Solving, n
      <4> QED
        BY <1>10, <1>15, <4>1
    <3>2. \A c \in asked(solve[b].project) : Same(b, c)
      BY <1>10, <3>1 DEF ThreadInv, asked
    <3>3. CASE solve[b].project # home
      BY <1>5, <3>1, <3>2, <3>3
    <3>4. CASE solve[b].project = home
      <4>1. solve[a].project # NoProject
        BY <1>1, <3>1, <3>4
      <4>2. PICK c \in Asker : c \in asked(home)
        BY <1>4, <4>1
      <4>3. Same(b, c) /\ Same(a, c)
        BY <1>4, <3>2, <3>4, <4>1, <4>2
      <4>4. Same(b, a)
        BY <4>3 DEF Same
      <4> QED
        BY <1>4, <3>1, <3>2, <3>4, <4>1, <4>4
    <3> QED
      BY <3>3, <3>4
  <2> QED
    BY <2>1, <2>2
<1>11. ASSUME NEW c \in Convo, remembered'[c] # NoProject
       PROVE  /\ remembered'[c] \in 1 .. n2
              /\ \A b \in asked2(remembered'[c]) : b \in Question /\ place[b] = c
  <2>1. remembered'[c] = remembered[c] /\ remembered[c] \in 1 .. n /\ remembered[c] \in 1 .. n2
    <3>1. remembered[c] \in 0 .. n
      BY DEF CallsInv, n
    <3> QED
      BY <1>6, <1>11, <1>15, <3>1
  <2>2. \A b \in asked(remembered[c]) : b \in Question /\ place[b] = c
    BY <1>11, <2>1 DEF ThreadInv, asked
  <2>3. CASE remembered[c] # home
    BY <1>5, <2>1, <2>2, <2>3
  <2>4. CASE remembered[c] = home
    <3>1. solve[a].project # NoProject
      BY <1>1, <2>1, <2>4
    <3>2. PICK b \in Asker : b \in asked(home)
      BY <1>4, <3>1
    <3>3. Same(a, b) /\ b \in Question /\ place[b] = c
      BY <1>4, <2>2, <2>4, <3>1, <3>2
    <3>4. a \in Question /\ place[a] = c
      BY <3>3 DEF Same
    <3> QED
      BY <1>4, <2>1, <2>2, <2>4, <3>1, <3>4
  <2> QED
    BY <2>3, <2>4
<1>12. ASSUME NEW p \in 1 .. n2, NEW b \in asked2(p)
       PROVE  b \in Asker /\ solve'[b].phase # "idle"
  <2>1. b = a \/ \E k \in 1 .. n : b \in asked(k)
    BY <1>1, <1>3, <1>4, <1>5
  <2>2. \A k \in 1 .. n : \A c \in asked(k) : c \in Asker /\ solve[c].phase # "idle"
    BY DEF ThreadInv, asked, n
  <2> QED
    BY <1>6, <2>1, <2>2
<1>13. \A p \in 1 .. n2 : AskersOf(projects[p])' = asked2(p)
  BY DEF AskersOf, asked2
<1>14. Len(projects)' = n2 /\ \A b, c : Same(b, c)' <=> Same(b, c)
  BY <1>6 DEF n2, Same
<1> QED
  BY <1>6, <1>9, <1>10, <1>11, <1>12, <1>13, <1>14 DEF ThreadInv

\* A task that ends is still its asker's.
LEMMA SameAskers ==
    ASSUME CallsInv, NEW p \in DOMAIN projects, NEW i \in DOMAIN projects[p],
           NEW status \in Outcomes, EndTask(p, i, status)
    PROVE  /\ Len(projects') = Len(projects)
           /\ \A j \in 1 .. Len(projects) : AskersOf(projects'[j]) = AskersOf(projects[j])
<1> DEFINE row == [projects[p][i] EXCEPT !.status = status]
           rows == [projects[p] EXCEPT ![i] = row]
<1>1. /\ Len(projects') = Len(projects)
      /\ \A j \in 1 .. Len(projects) : projects'[j] = IF j = p THEN rows ELSE projects[j]
      /\ projects[p] \in Seq(Row) /\ i \in 1 .. Len(projects[p]) /\ projects[p][i] \in Row
      /\ status \in Terminal
  BY EndTaskKeepsCalls
<1>2. row \in Row /\ row.asker = projects[p][i].asker
  BY <1>1 DEF Row
<1> HIDE DEF row
<1>3. Len(rows) = Len(projects[p]) /\ \A j \in 1 .. Len(rows) : rows[j] = IF j = i THEN row ELSE projects[p][j]
  BY <1>1, <1>2, ExceptSeq
<1> HIDE DEF rows
<1>4. AskersOf(rows) = AskersOf(projects[p])
  <2>1. \A j \in 1 .. Len(rows) : rows[j].asker = projects[p][j].asker
    BY <1>2, <1>3
  <2> QED
    BY <1>3, <2>1 DEF AskersOf
<1> QED
  BY <1>1, <1>4

LEMMA ThreadInvNext ==
    ASSUME CallsInv, ThreadInv, [SolveNext]_solveVars
    PROVE  ThreadInv'
<1>0. Len(projects) \in Nat /\ \A a \in Asker : solve[a] \in Solving(Len(projects)) /\ CallOk(solve[a])
  BY LenProperties DEF CallsInv
<1>1. ASSUME UNCHANGED projects
      PROVE  /\ Len(projects') = Len(projects)
             /\ \A p \in 1 .. Len(projects) : AskersOf(projects'[p]) = AskersOf(projects[p])
  BY <1>1
<1>2. ASSUME UNCHANGED <<place, remembered>>
      PROVE  /\ \A q \in Question : place[q] # NoConvo => place'[q] = place[q]
             /\ \A c \in Convo : remembered'[c] = remembered[c]
  BY <1>2
<1>3. CASE UNCHANGED solveVars
  BY <1>1, <1>2, <1>3, SameThreads DEF solveVars
<1>4. ASSUME NEW q \in Question, Placed(q) PROVE ThreadInv'
  <2>1. \A p \in Question : place[p] # NoConvo => place'[p] = place[p]
    <3>1. PICK c \in Convo : place' = [place EXCEPT ![q] = c]
      BY <1>4 DEF Placed
    <3> QED
      BY <1>4, <3>1 DEF Placed
  <2> QED
    BY <1>1, <1>4, <2>1, SameThreads DEF Placed
<1>5. ASSUME NEW q \in Question, Finished(q) PROVE ThreadInv'
  <2>1. \A a \in Asker : solve'[a] = IF a = q THEN Done ELSE solve[a]
    BY <1>5 DEF Finished, Drops
  <2>2. Done.phase # "idle" /\ Done.project = NoProject
    BY DEF Done, Idle
  <2>3. \A c \in Convo : remembered'[c] = remembered[c] \/
          \E p \in Question : place[p] = c /\ remembered'[c] = solve[p].project
    BY <1>5 DEF Finished, Remember, CallsInv
  <2> QED
    BY <1>1, <1>5, <2>1, <2>2, <2>3, SameThreads DEF Finished
<1>6. ASSUME NEW a \in Asker, NEW prior \in 0 .. Len(projects), Begun(a, prior) PROVE ThreadInv'
  <2> DEFINE s == [phase |-> "requesting", project |-> prior, task |-> NoTask, result |-> "none"]
  <2>1. \A b \in Asker : solve'[b] = IF b = a THEN s ELSE solve[b]
    BY <1>6 DEF Begun, Begins, CallsInv
  <2>2. s.phase # "idle" /\ s.project = prior
    OBVIOUS
  <2> HIDE DEF s
  <2>3. \A b \in Asker : solve'[b].project \in {NoProject, solve[b].project} \/
          (b \in Question /\ place[b] \in Convo /\ solve'[b].project = remembered[place[b]])
    BY <1>6, <2>1, <2>2 DEF Begun
  <2> QED
    BY <1>1, <1>2, <1>6, <2>1, <2>2, <2>3, SameThreads DEF Begun
<1>7. ASSUME NEW D \in SUBSET Asker, Dropped(D) PROVE ThreadInv'
  <2>1. \A b \in Asker : solve'[b] = IF b \in D THEN Done ELSE solve[b]
    BY <1>7 DEF Dropped, Drops
  <2>2. Done.phase # "idle" /\ Done.project = NoProject
    BY DEF Done, Idle
  <2> QED
    BY <1>1, <1>2, <1>7, <2>1, <2>2, SameThreads DEF Dropped
<1>8. ASSUME NEW a \in Asker, NEW s \in Solving(Len(projects)), Returned(a, s) PROVE ThreadInv'
  <2>1. \A b \in Asker : solve'[b] = IF b = a THEN s ELSE solve[b]
    BY <1>8 DEF Returned, CallsInv
  <2> QED
    BY <1>1, <1>2, <1>8, <2>1, SameThreads DEF Returned
<1>9. ASSUME NEW t \in Call, Answered(t) PROVE ThreadInv'
  <2> DEFINE s == [solve[t] EXCEPT !.phase = "done"]
  <2>1. t \in Asker /\ \A b \in Asker : solve'[b] = IF b = t THEN s ELSE solve[b]
    BY <1>9, ToolsAssumption DEF Answered, CallsInv
  <2>2. s.phase # "idle" /\ s.project = solve[t].project
    BY <1>0, <2>1 DEF Solving
  <2> HIDE DEF s
  <2> QED
    BY <1>1, <1>2, <1>9, <2>1, <2>2, SameThreads DEF Answered
<1>10. ASSUME NEW p \in DOMAIN projects, NEW i \in DOMAIN projects[p], NEW status \in Outcomes,
              EndTask(p, i, status), UNCHANGED <<place, remembered>>
       PROVE  ThreadInv'
  <2>1. UNCHANGED solve
    BY <1>10 DEF EndTask
  <2> QED
    BY <1>2, <1>10, <2>1, SameAskers, SameThreads
<1> QED
  BY <1>3, <1>4, <1>5, <1>6, <1>7, <1>8, <1>9, <1>10, PostedThreads DEF SolveNext

LEMMA ThreadInvAlways == Spec => []ThreadInv
<1>1. Init => ThreadInv
  <2> SUFFICES ASSUME Init PROVE ThreadInv
    OBVIOUS
  <2>1. projects = <<>> /\ solve = [a \in Asker |-> Idle] /\ remembered = [c \in Convo |-> NoProject]
    BY DEF Init, AriInit, ChatInit
  <2> QED
    BY <2>1 DEF ThreadInv, Idle, NoProject
<1>2. RunInv /\ PageInv /\ CallsInv /\ ThreadInv /\ [Next]_vars => ThreadInv'
  BY AskMoves, SolveMoves, ThreadInvNext
<1> QED
  BY <1>1, <1>2, CallsInvAlways, PTL DEF Spec

\* ThreadsStayApart of Assistant: no agent that has a conversation's context is
\* ever given a question of another, whatever was lost, retried or restarted.
THEOREM ConversationsStayApart == Spec => []ThreadsStayApart
<1>1. CallsInv /\ ThreadInv => ThreadsStayApart
  <2> SUFFICES ASSUME CallsInv, ThreadInv, NEW p \in DOMAIN projects,
                      NEW a \in AskedIn(p), NEW b \in AskedIn(p), a # b
               PROVE  a \in Question /\ b \in Question /\ place[a] = place[b]
    BY DEF ThreadsStayApart
  <2>1. p \in 1 .. Len(projects) /\ projects[p] \in Seq(Row)
    BY LenProperties, ElementOfSeq DEF CallsInv, Thread
  <2>2. AskedIn(p) = AskersOf(projects[p])
    BY <2>1, LenProperties DEF AskedIn, AskersOf
  <2> QED
    BY <2>1, <2>2 DEF ThreadInv, Same
<1> QED
  BY <1>1, CallsInvAlways, ThreadInvAlways, PTL

-----------------------------------------------------------------------------
(***************************************************************************)
(* What is said to be verified.                                            *)
(***************************************************************************)
\* a asked in thread p, in which a task was completed: a's own, if a opened it.
ShownIn(threads, a, p) ==
    /\ p \in 1 .. Len(threads) /\ a \in AskersOf(threads[p])
    /\ \E i \in 1 .. Len(threads[p]) :
         threads[p][i].status = "COMPLETE" /\ (threads[p][1].asker = a => i = 1)

Shown(a, p) == ShownIn(projects, a, p)

\* a has its project for itself, with one task.
Alone(a) ==
    /\ Len(projects[solve[a].project]) = 1
    /\ \A b \in Asker : b # a => solve[b].project # solve[a].project
    /\ \A c \in Convo : remembered[c] # solve[a].project

\* A call asks once.  Whoever opened a project is alone in it until it has its
\* result; a call that says verified saw a task of its thread completed.
TaskOk(a) ==
    /\ solve[a].phase = "requesting" =>
         \A p \in 1 .. Len(projects) : a \notin AskersOf(projects[p])
    /\ solve[a].phase = "polling" =>
         /\ solve[a].project \in 1 .. Len(projects)
         /\ a \in AskersOf(projects[solve[a].project])
         /\ projects[solve[a].project][1].asker = a => Alone(a)
    /\ solve[a].phase = "returned" /\ solve[a].result = "verified" =>
         Shown(a, solve[a].project)

TaskInv == \A a \in Asker : TaskOk(a)

\* Threads grow, and what is over stays as it is.
Grown ==
    /\ Len(projects) \in Nat /\ Len(projects') \in Nat /\ Len(projects) <= Len(projects')
    /\ \A p \in 1 .. Len(projects) :
         /\ Len(projects[p]) \in Nat /\ Len(projects'[p]) \in Nat
         /\ Len(projects[p]) <= Len(projects'[p])
         /\ \A i \in 1 .. Len(projects[p]) :
              /\ projects'[p][i].asker = projects[p][i].asker
              /\ projects[p][i].status \in Terminal => projects'[p][i] = projects[p][i]

LEMMA ThreadsGrow ==
    ASSUME CallsInv, [SolveNext]_solveVars
    PROVE  Grown
<1> USE DEF Grown
<1>1. /\ Len(projects) \in Nat
      /\ \A p \in 1 .. Len(projects) : projects[p] \in Seq(Row) /\ Len(projects[p]) \in Nat
  BY LenProperties, ElementOfSeq DEF CallsInv, Thread
<1>2. CASE UNCHANGED projects
  BY <1>1, <1>2
<1>3. ASSUME NEW a \in Asker, NEW s, Posted(a, s) PROVE Grown
  <2>1. /\ projects' \in Seq(Thread) /\ Len(projects) <= Len(projects')
        /\ \A p \in 1 .. Len(projects') : p # At(a) => projects'[p] = projects[p]
        /\ solve[a].project = NoProject => At(a) \notin 1 .. Len(projects)
        /\ solve[a].project # NoProject => projects'[At(a)] = Append(projects[At(a)], Task(a))
    BY <1>3, PostsParts DEF Posted
  <2>2. Len(projects') \in Nat /\ \A p \in 1 .. Len(projects) : p \in 1 .. Len(projects')
    BY <1>1, <2>1, LenProperties
  <2>3. ASSUME NEW p \in 1 .. Len(projects), p = At(a)
        PROVE  /\ Len(projects'[p]) = Len(projects[p]) + 1
               /\ \A i \in 1 .. Len(projects[p]) : projects'[p][i] = projects[p][i]
    <3>1. Task(a) \in Row /\ projects'[p] = Append(projects[p], Task(a))
      BY <2>1, <2>3 DEF Task, Row, Running
    <3> QED
      BY <1>1, <3>1, AppendProperties
  <2> QED
    BY <1>1, <2>1, <2>2, <2>3
<1>4. ASSUME NEW p \in DOMAIN projects, NEW i \in DOMAIN projects[p], NEW status \in Outcomes,
             EndTask(p, i, status)
      PROVE  Grown
  <2> DEFINE row == [projects[p][i] EXCEPT !.status = status]
             rows == [projects[p] EXCEPT ![i] = row]
  <2>1. /\ Len(projects') = Len(projects)
        /\ \A j \in 1 .. Len(projects) : projects'[j] = IF j = p THEN rows ELSE projects[j]
        /\ projects[p] \in Seq(Row) /\ i \in 1 .. Len(projects[p]) /\ projects[p][i] \in Row
    BY <1>4, EndTaskKeepsCalls
  <2>2. row \in Row /\ row.asker = projects[p][i].asker
    BY <1>4, <2>1, AssistantAssumption DEF Row
  <2>3. projects[p][i].status \notin Terminal
    BY <1>4 DEF EndTask, Terminal
  <2> HIDE DEF row
  <2>4. Len(rows) = Len(projects[p]) /\ \A j \in 1 .. Len(rows) : rows[j] = IF j = i THEN row ELSE projects[p][j]
    BY <2>1, <2>2, ExceptSeq
  <2> HIDE DEF rows
  <2>5. ASSUME NEW k \in 1 .. Len(projects), k # p PROVE projects'[k] = projects[k]
    BY <2>1, <2>5
  <2>6. /\ projects'[p] = rows /\ p \in 1 .. Len(projects)
        /\ \A j \in 1 .. Len(projects[p]) :
             /\ rows[j].asker = projects[p][j].asker
             /\ projects[p][j].status \in Terminal => rows[j] = projects[p][j]
    BY <1>1, <2>1, <2>2, <2>3, <2>4, LenProperties DEF CallsInv
  <2>7. \A k \in 1 .. Len(projects) : Len(projects[k]) \in Nat /\ Len(projects'[k]) = Len(projects[k])
    BY <1>1, <2>4, <2>5, <2>6
  <2>8. Len(projects) \in Nat /\ Len(projects') = Len(projects)
    BY <1>1, <2>1
  <2>9. \A k \in 1 .. Len(projects) : \A j \in 1 .. Len(projects[k]) :
          /\ projects'[k][j].asker = projects[k][j].asker
          /\ projects[k][j].status \in Terminal => projects'[k][j] = projects[k][j]
    BY <2>5, <2>6
  <2> QED
    BY <2>7, <2>8, <2>9
<1> QED
  BY <1>2, <1>3, <1>4 DEF SolveNext, solveVars, Placed, Finished, Begun, Dropped, Returned, Answered

LEMMA AskersStay ==
    ASSUME CallsInv, [SolveNext]_solveVars, NEW p \in 1 .. Len(projects)
    PROVE  AskersOf(projects[p]) \subseteq AskersOf(projects'[p])
<1>1. /\ Len(projects[p]) \in Nat /\ Len(projects'[p]) \in Nat /\ Len(projects[p]) <= Len(projects'[p])
      /\ \A i \in 1 .. Len(projects[p]) : projects'[p][i].asker = projects[p][i].asker
  BY ThreadsGrow DEF Grown
<1>2. 1 .. Len(projects[p]) \subseteq 1 .. Len(projects'[p])
  BY <1>1
<1> QED
  BY <1>1, <1>2 DEF AskersOf

LEMMA HasFirst ==
    ASSUME CallsInv, NEW p \in 1 .. Len(projects)
    PROVE  /\ projects[p] \in Seq(Row) /\ Len(projects[p]) \in Nat /\ 1 \in 1 .. Len(projects[p])
           /\ projects[p][1].asker \in AskersOf(projects[p])
<1>1. projects[p] \in Seq(Row) /\ projects[p] # <<>>
  BY ElementOfSeq DEF CallsInv, Thread
<1>2. Len(projects[p]) \in Nat /\ Len(projects[p]) # 0
  BY <1>1, LenProperties, EmptySeq
<1>3. 1 \in 1 .. Len(projects[p])
  BY <1>2
<1> QED
  BY <1>1, <1>2, <1>3 DEF AskersOf

LEMMA ShownStays ==
    ASSUME CallsInv, [SolveNext]_solveVars, NEW a, NEW p, Shown(a, p)
    PROVE  Shown(a, p)'
<1>1. PICK i \in 1 .. Len(projects[p]) :
        projects[p][i].status = "COMPLETE" /\ (projects[p][1].asker = a => i = 1)
  BY DEF Shown, ShownIn
<1>2. /\ p \in 1 .. Len(projects) /\ a \in AskersOf(projects[p])
      /\ projects[p][i].status \in Terminal
  BY <1>1 DEF Shown, ShownIn, Terminal
<1>3. /\ p \in 1 .. Len(projects') /\ i \in 1 .. Len(projects'[p]) /\ projects'[p][i] = projects[p][i]
      /\ projects'[p][1].asker = projects[p][1].asker
  <2>1. 1 \in 1 .. Len(projects[p])
    BY <1>2, HasFirst
  <2> QED
    BY <1>2, <2>1, ThreadsGrow DEF Grown
<1>4. a \in AskersOf(projects'[p])
  BY <1>2, AskersStay
<1> QED
  BY <1>1, <1>3, <1>4 DEF Shown, ShownIn

\* Whoever joins a thread stops requesting.
LEMMA NewAsker ==
    ASSUME CallsInv, [SolveNext]_solveVars, NEW a \in Asker, solve'[a] = solve[a],
           NEW p \in 1 .. Len(projects'), a \in AskersOf(projects'[p])
    PROVE  p \in 1 .. Len(projects) /\ a \in AskersOf(projects[p])
<1>1. CASE UNCHANGED projects
  BY <1>1
<1>2. ASSUME NEW b \in Asker, NEW s, Posted(b, s)
      PROVE  p \in 1 .. Len(projects) /\ a \in AskersOf(projects[p])
  <2>1. b # a
    BY <1>2 DEF Posted, CallsInv
  <2>2. /\ p # At(b) => p \in 1 .. Len(projects) /\ projects'[p] = projects[p]
        /\ solve[b].project = NoProject => projects'[At(b)] = <<Task(b)>>
        /\ solve[b].project # NoProject =>
             /\ At(b) \in 1 .. Len(projects)
             /\ projects'[At(b)] = Append(projects[At(b)], Task(b))
    BY <1>2, PostsParts DEF Posted
  <2>3. CASE p # At(b)
    BY <2>2, <2>3
  <2>4. CASE p = At(b) /\ solve[b].project = NoProject
    <3>1. AskersOf(<<Task(b)>>) = {b}
      BY DEF AskersOf, Task
    <3> QED
      BY <2>1, <2>2, <2>4, <3>1
  <2>5. CASE p = At(b) /\ solve[b].project # NoProject
    <3>1. projects[p] \in Thread /\ p \in 1 .. Len(projects)
      BY <2>2, <2>5, ElementOfSeq DEF CallsInv
    <3>2. AskersOf(projects'[p]) = AskersOf(projects[p]) \cup {b}
      BY <2>2, <2>5, <3>1, ThreadHasAsker
    <3> QED
      BY <2>1, <3>1, <3>2
  <2> QED
    BY <2>3, <2>4, <2>5
<1>3. ASSUME NEW j \in DOMAIN projects, NEW i \in DOMAIN projects[j], NEW status \in Outcomes,
             EndTask(j, i, status)
      PROVE  p \in 1 .. Len(projects) /\ a \in AskersOf(projects[p])
  BY <1>3, SameAskers
<1> QED
  BY <1>1, <1>2, <1>3 DEF SolveNext, solveVars, Placed, Finished, Begun, Dropped, Returned, Answered

\* Nobody joins whoever is alone.
LEMMA StaysAlone ==
    ASSUME CallsInv, [SolveNext]_solveVars, NEW a \in Asker, Alone(a), solve'[a] = solve[a],
           solve[a].phase = "polling", solve[a].project \in 1 .. Len(projects)
    PROVE  Alone(a)'
<1> DEFINE p == solve[a].project
<1>0. /\ Len(projects) \in Nat /\ Len(projects[p]) = 1 /\ p \in 1 .. Len(projects) /\ p # NoProject
      /\ \A b \in Asker : b # a => solve[b].project # p
      /\ \A c \in Convo : remembered[c] # p
      /\ Done.project # p /\ Done.project = NoProject
  BY LenProperties DEF CallsInv, Alone, NoProject, Done, Idle
<1> DEFINE Kept == /\ Len(projects'[p]) = 1
                   /\ \A b \in Asker : b # a => solve'[b].project # p
                   /\ \A c \in Convo : remembered'[c] # p
<1> SUFFICES Kept
  BY DEF Alone
<1> HIDE DEF p
<1>2. CASE UNCHANGED solveVars
  BY <1>0, <1>2 DEF solveVars
<1>3. ASSUME NEW q \in Question, Placed(q) PROVE Kept
  BY <1>0, <1>3 DEF Placed
<1>4. ASSUME NEW q \in Question, Finished(q) PROVE Kept
  <2>1. q # a /\ q \in Asker
    BY <1>4, ConversationsAssumption DEF Finished
  <2>2. \A b \in Asker : solve'[b] \in {Done, solve[b]}
    BY <1>4 DEF Finished, Drops
  <2>3. \A c \in Convo : remembered'[c] \in {remembered[c], solve[q].project}
    BY <1>4 DEF Finished, Remember, CallsInv
  <2> QED
    BY <1>0, <1>4, <2>1, <2>2, <2>3 DEF Finished
<1>5. ASSUME NEW b \in Asker, NEW prior \in 0 .. Len(projects), Begun(b, prior) PROVE Kept
  <2>1. prior # p
    BY <1>0, <1>5 DEF Begun
  <2>2. \A d \in Asker : solve'[d].project \in {prior, solve[d].project}
    BY <1>5 DEF Begun, Begins, CallsInv
  <2> QED
    BY <1>0, <1>5, <2>1, <2>2 DEF Begun
<1>6. ASSUME NEW D \in SUBSET Asker, Dropped(D) PROVE Kept
  <2>1. \A b \in Asker : solve'[b] \in {Done, solve[b]}
    BY <1>6 DEF Dropped, Drops
  <2> QED
    BY <1>0, <1>6, <2>1 DEF Dropped
<1>7. ASSUME NEW b \in Asker, NEW s \in Solving(Len(projects')), Posted(b, s) PROVE Kept
  <2>1. b # a
    BY <1>7 DEF Posted
  <2>2. At(b) # p
    <3>1. solve[b].project # p
      BY <1>0, <2>1
    <3> QED
      BY <1>0, <3>1 DEF At
  <2>3. Len(projects) <= Len(projects') /\ Len(projects') \in Nat
    BY ThreadsGrow DEF Grown
  <2>4. projects'[p] = projects[p]
    <3>1. p \in 1 .. Len(projects')
      BY <1>0, <2>3
    <3> QED
      BY <1>7, <2>2, <3>1, PostsParts DEF Posted
  <2>5. \A d \in Asker : solve'[d].project \in {NoProject, At(b), solve[d].project}
    BY <1>7 DEF Posted, CallsInv
  <2> QED
    BY <1>0, <1>7, <2>2, <2>4, <2>5 DEF Posted
<1>8. ASSUME NEW b \in Asker, NEW s \in Solving(Len(projects)), Returned(b, s) PROVE Kept
  <2>1. \A d \in Asker : solve'[d].project \in {NoProject, solve[d].project}
    BY <1>8 DEF Returned, CallsInv
  <2> QED
    BY <1>0, <1>8, <2>1 DEF Returned
<1>9. ASSUME NEW t \in Call, Answered(t) PROVE Kept
  <2>1. \A d \in Asker : solve[d] \in Solving(Len(projects))
    BY DEF CallsInv
  <2>2. \A d \in Asker : solve'[d].project = solve[d].project
    BY <1>9, <2>1 DEF Answered, CallsInv, Solving
  <2> QED
    BY <1>0, <1>9, <2>2 DEF Answered
<1>10. ASSUME NEW j \in DOMAIN projects, NEW i \in DOMAIN projects[j], NEW status \in Outcomes,
              EndTask(j, i, status), UNCHANGED <<place, remembered>>
       PROVE  Kept
  <2> DEFINE row == [projects[j][i] EXCEPT !.status = status]
             rows == [projects[j] EXCEPT ![i] = row]
  <2>1. /\ \A k \in 1 .. Len(projects) : projects'[k] = IF k = j THEN rows ELSE projects[k]
        /\ projects[j] \in Seq(Row) /\ i \in 1 .. Len(projects[j]) /\ projects[j][i] \in Row
    BY <1>10, EndTaskKeepsCalls
  <2>2. row \in Row
    BY <1>10, <2>1, AssistantAssumption DEF Row
  <2> HIDE DEF row
  <2>3. Len(rows) = Len(projects[j])
    BY <2>1, <2>2, ExceptSeq
  <2> HIDE DEF rows
  <2> QED
    BY <1>0, <1>10, <2>1, <2>3 DEF EndTask
<1> QED
  BY <1>2, <1>3, <1>4, <1>5, <1>6, <1>7, <1>8, <1>9, <1>10 DEF SolveNext

LEMMA UnmovedTask ==
    ASSUME CallsInv, TaskInv, [SolveNext]_solveVars, NEW a \in Asker, solve'[a] = solve[a]
    PROVE  TaskOk(a)'
<1>1. TaskOk(a)
  BY DEF TaskInv
<1>2. ASSUME solve[a].phase = "requesting", NEW p \in 1 .. Len(projects')
      PROVE  a \notin AskersOf(projects'[p])
  BY <1>1, <1>2, NewAsker DEF TaskOk
<1>3. ASSUME solve[a].phase = "polling"
      PROVE  /\ solve[a].project \in 1 .. Len(projects')
             /\ a \in AskersOf(projects'[solve[a].project])
             /\ projects'[solve[a].project][1].asker = a => Alone(a)'
  <2> DEFINE p == solve[a].project
  <2>1. /\ p \in 1 .. Len(projects) /\ a \in AskersOf(projects[p])
        /\ projects[p][1].asker = a => Alone(a)
    BY <1>1, <1>3 DEF TaskOk
  <2>2. Alone(a) => Alone(a)'
    BY <1>3, <2>1, StaysAlone
  <2>3. 1 \in 1 .. Len(projects[p])
    BY <2>1, HasFirst
  <2>4. p \in 1 .. Len(projects') /\ projects'[p][1].asker = projects[p][1].asker
    BY <2>1, <2>3, ThreadsGrow DEF Grown
  <2>5. a \in AskersOf(projects'[p])
    BY <2>1, AskersStay
  <2> QED
    BY <2>1, <2>2, <2>4, <2>5
<1>4. ASSUME solve[a].phase = "returned", solve[a].result = "verified"
      PROVE  Shown(a, solve[a].project)'
  <2>1. PICK p \in 1 .. Len(projects) : p = solve[a].project /\ Shown(a, p)
    BY <1>1, <1>4 DEF TaskOk, Shown, ShownIn
  <2>2. Shown(a, p)' /\ p = solve'[a].project
    BY <2>1, ShownStays
  <2> QED
    BY <2>2 DEF Shown, ShownIn
<1> QED
  BY <1>2, <1>3, <1>4 DEF TaskOk

LEMMA PostedTask ==
    ASSUME CallsInv, TaskInv, NEW a \in Asker, NEW s \in Solving(Len(projects')), Posted(a, s)
    PROVE  TaskOk(a)'
<1>1. /\ solve'[a] = s /\ (\A b \in Asker : b # a => solve'[b] = solve[b])
      /\ remembered' = remembered /\ solve[a].phase = "requesting"
  BY DEF Posted, CallsInv
<1>2. CASE s.phase = "returned" /\ s.result = "error"
  BY <1>1, <1>2 DEF TaskOk
<1>3. CASE s.phase = "polling" /\ s.project = At(a) /\ solve[a].project = NoProject
  <2>1. /\ At(a) \in 1 .. Len(projects') /\ At(a) \notin 1 .. Len(projects)
        /\ projects'[At(a)] = <<Task(a)>>
    BY <1>3, PostsParts DEF Posted
  <2>2. Len(projects'[At(a)]) = 1 /\ a \in AskersOf(projects'[At(a)])
    BY <2>1 DEF Task, AskersOf
  <2>3. Alone(a)'
    <3>1. /\ \A b \in Asker : solve[b].project \in 0 .. Len(projects)
          /\ \A c \in Convo : remembered[c] \in 0 .. Len(projects)
          /\ At(a) \notin 0 .. Len(projects)
      BY <1>3, <2>1, LenProperties DEF CallsInv, Solving, At
    <3> QED
      BY <1>1, <1>3, <2>2, <3>1 DEF Alone
  <2> QED
    BY <1>1, <1>3, <2>1, <2>2, <2>3 DEF TaskOk
<1>4. CASE s.phase = "polling" /\ s.project = At(a) /\ solve[a].project # NoProject
  <2>1. /\ At(a) \in 1 .. Len(projects') /\ At(a) \in 1 .. Len(projects)
        /\ projects'[At(a)] = Append(projects[At(a)], Task(a))
    BY <1>4, PostsParts DEF Posted
  <2>2. projects[At(a)] \in Thread
    BY <2>1, ElementOfSeq DEF CallsInv
  <2>3. a \in AskersOf(projects'[At(a)])
    BY <2>1, <2>2, ThreadHasAsker
  <2>4. projects'[At(a)][1].asker # a
    <3>1. a \notin AskersOf(projects[At(a)])
      BY <1>1, <2>1 DEF TaskInv, TaskOk
    <3>2. projects[At(a)] \in Seq(Row) /\ 1 \in 1 .. Len(projects[At(a)])
          /\ projects[At(a)][1].asker \in AskersOf(projects[At(a)])
      BY <2>1, HasFirst
    <3>3. Task(a) \in Row
      BY DEF Task, Row, Running
    <3>4. projects'[At(a)][1] = projects[At(a)][1]
      BY <2>1, <3>2, <3>3, AppendProperties
    <3> QED
      BY <3>1, <3>2, <3>4
  <2> QED
    BY <1>1, <1>4, <2>1, <2>3, <2>4 DEF TaskOk
<1> QED
  BY <1>2, <1>3, <1>4 DEF Posted

LEMMA ReturnedTask ==
    ASSUME CallsInv, TaskInv, NEW a \in Asker, NEW s, Returned(a, s)
    PROVE  TaskOk(a)'
<1>1. solve'[a] = s /\ s.phase = "returned" /\ UNCHANGED projects
  BY DEF Returned, CallsInv
<1>2. ASSUME s.result = "verified" PROVE Shown(a, s.project)
  <2> DEFINE p == solve[a].project
  <2>1. PICK n \in DOMAIN projects[p] :
          /\ solve[a].phase = "polling" /\ s.project = p
          /\ projects[p][Watched(a, n)].status = "COMPLETE"
    BY <1>2 DEF Returned
  <2>2. /\ p \in 1 .. Len(projects) /\ a \in AskersOf(projects[p])
        /\ projects[p][1].asker = a => Len(projects[p]) = 1
    BY <2>1 DEF TaskInv, TaskOk, Alone
  <2>3. projects[p] \in Seq(Row) /\ Len(projects[p]) \in Nat
    BY <2>2, HasFirst
  <2>4. n \in 1 .. Len(projects[p])
    BY <2>1, <2>3, LenProperties
  <2>5. Watched(a, n) \in 1 .. Len(projects[p])
    BY <2>3, <2>4 DEF Watched
  <2>6. projects[p][1].asker = a => Watched(a, n) = 1
    <3>1. projects[p][1].asker = a => Watched(a, n) \in 1 .. 1
      BY <2>2, <2>5, Zenon
    <3>2. ASSUME NEW i \in 1 .. 1 PROVE i = 1
      OBVIOUS
    <3> QED
      BY <3>1, <3>2, Zenon
  <2> QED
    BY <2>1, <2>2, <2>5, <2>6 DEF Shown, ShownIn
<1> QED
  BY <1>1, <1>2 DEF TaskOk, Shown, ShownIn

LEMMA TaskInvNext ==
    ASSUME CallsInv, ThreadInv, TaskInv, [SolveNext]_solveVars
    PROVE  TaskInv'
<1> SUFFICES ASSUME NEW a \in Asker PROVE TaskOk(a)'
  BY DEF TaskInv
<1>1. CASE solve'[a] = solve[a]
  BY <1>1, UnmovedTask
<1>2. CASE solve'[a].phase = "done"
  BY <1>2 DEF TaskOk
<1>3. CASE UNCHANGED solveVars \/ \E q \in Question : Placed(q)
  BY <1>1, <1>3 DEF solveVars, Placed
<1>4. ASSUME NEW q \in Question, Finished(q) PROVE TaskOk(a)'
  BY <1>1, <1>2, <1>4 DEF Finished, Drops, Done, Idle
<1>5. ASSUME NEW b \in Asker, NEW prior, Begun(b, prior) PROVE TaskOk(a)'
  <2>1. b # a => solve'[a] = solve[a]
    BY <1>5 DEF Begun, Begins, CallsInv
  <2>2. CASE b = a
    <3>1. /\ solve[a].phase = "idle" /\ solve'[a].phase = "requesting"
          /\ UNCHANGED projects
      BY <1>5, <2>2 DEF Begun, Begins, CallsInv
    <3>2. \A p \in 1 .. Len(projects) : a \notin AskersOf(projects[p])
      BY <3>1 DEF ThreadInv
    <3> QED
      BY <3>1, <3>2 DEF TaskOk
  <2> QED
    BY <1>1, <2>1, <2>2
<1>6. ASSUME NEW D, Dropped(D) PROVE TaskOk(a)'
  BY <1>1, <1>2, <1>6 DEF Dropped, Drops, Done, Idle
<1>7. ASSUME NEW b \in Asker, NEW s \in Solving(Len(projects')), Posted(b, s) PROVE TaskOk(a)'
  <2>1. b # a => solve'[a] = solve[a]
    BY <1>7 DEF Posted, CallsInv
  <2> QED
    BY <1>1, <1>7, <2>1, PostedTask
<1>8. ASSUME NEW b \in Asker, NEW s, Returned(b, s) PROVE TaskOk(a)'
  <2>1. b # a => solve'[a] = solve[a]
    BY <1>8 DEF Returned, CallsInv
  <2> QED
    BY <1>1, <1>8, <2>1, ReturnedTask
<1>9. ASSUME NEW t \in Call, Answered(t) PROVE TaskOk(a)'
  <2>1. solve[a] \in Solving(Len(projects))
    BY DEF CallsInv
  <2>2. t = a => solve'[a].phase = "done"
    BY <1>9, <2>1 DEF Answered, CallsInv, Solving
  <2>3. t # a => solve'[a] = solve[a]
    BY <1>9 DEF Answered, CallsInv
  <2> QED
    BY <1>1, <1>2, <2>2, <2>3
<1>10. ASSUME NEW p \in DOMAIN projects, NEW i \in DOMAIN projects[p], NEW status \in Outcomes,
              EndTask(p, i, status)
       PROVE  TaskOk(a)'
  BY <1>1, <1>10 DEF EndTask
<1> QED
  BY <1>3, <1>4, <1>5, <1>6, <1>7, <1>8, <1>9, <1>10 DEF SolveNext

LEMMA TaskInvAlways == Spec => []TaskInv
<1>1. Init => TaskInv
  BY DEF Init, AriInit, TaskInv, TaskOk, Idle
<1>2. RunInv /\ PageInv /\ CallsInv /\ ThreadInv /\ TaskInv /\ [Next]_vars => TaskInv'
  BY AskMoves, SolveMoves, TaskInvNext
<1> QED
  BY <1>1, <1>2, CallsInvAlways, ThreadInvAlways, PTL DEF Spec

\* A call of a tool that is told its proof is verified, and a record that says
\* so, name a thread they asked in and in which a task was completed.
ClaimInv ==
    /\ \A t \in Call : tool[t].result = "verified" =>
         solve[t].phase = "done" /\ Shown(t, solve[t].project)
    /\ \A row \in attested : row.payload.verified =>
         row.payload.run \in Question /\ Shown(row.payload.run, row.payload.project)

LEMMA ToolSays ==
    ASSUME CallsInv, [AskNext]_askVars, NEW t \in Call, tool'[t].result = "verified"
    PROVE  \/ tool[t].result = "verified"
           \/ /\ solve[t].phase = "returned" /\ solve[t].result = "verified"
              /\ solve'[t] = [solve[t] EXCEPT !.phase = "done"]
<1> DEFINE Says == \/ tool[t].result = "verified"
                   \/ /\ solve[t].phase = "returned" /\ solve[t].result = "verified"
                      /\ solve'[t] = [solve[t] EXCEPT !.phase = "done"]
<1>1. CASE UNCHANGED tool
  BY <1>1
<1>2. CASE RestartMove
  BY <1>2 DEF RestartMove, RoutesLost, Working
<1>3. CASE CallMove
  <2>1. ASSUME NEW c \in Call, NEW answer, tool' = [tool EXCEPT ![c] = answer], answer.result # "verified"
        PROVE  Says
    BY <2>1 DEF CallsInv
  <2>2. ASSUME NEW c \in Call, ProviderAnswers(c) \/ WikipediaAnswers(c) \/ DuckDuckGoAnswers(c)
        PROVE  Says
    <3>1. PICK answer \in {Answer("results"), Answer("no results"), Answer("search failed"),
                           Working("duckduckgo")} : tool' = [tool EXCEPT ![c] = answer]
      BY <2>2 DEF ProviderAnswers, WikipediaAnswers, DuckDuckGoAnswers
    <3>2. /\ Answer("results").result # "verified" /\ Answer("no results").result # "verified"
          /\ Answer("search failed").result # "verified" /\ Working("duckduckgo").result # "verified"
      BY DEF Answer, Working
    <3>3. answer.result # "verified"
      BY <3>1, <3>2
    <3> QED
      BY <2>1, <3>1, <3>3
  <2>3. ASSUME NEW c \in Call, NEW name, NEW arithmetic, ExecuteTool(c, name, arithmetic)
        PROVE  Says
    <3>1. PICK answer \in {Answer(Value(arithmetic)), Working("provider"), Working("wikipedia"),
                           Answer("value"), Answer("unavailable"), Working("aristotle"), Answer("unknown")} :
            tool' = [tool EXCEPT ![c] = answer]
      BY <2>3 DEF ExecuteTool
    <3>2. answer.result # "verified"
      BY DEF Answer, Working, Value
    <3> QED
      BY <2>1, <3>1, <3>2
  <2>4. ASSUME NEW c \in Call, AristotleAnswers(c) PROVE Says
    <3>1. CASE c # t
      BY <2>4, <3>1 DEF AristotleAnswers, CallsInv
    <3>2. CASE c = t
      <4>1. tool'[t] = Answer(Claimed(solve[t].result)) /\ solve[t].phase = "returned"
        BY <2>4, <3>2 DEF AristotleAnswers, CallsInv
      <4>2. solve[t].result = "verified"
        BY <4>1 DEF Answer, Claimed
      <4>3. solve'[t] = [solve[t] EXCEPT !.phase = "done"]
        BY <2>4, <3>2, ToolsAssumption DEF AristotleAnswers, CallsInv
      <4> QED
        BY <4>1, <4>2, <4>3
    <3> QED
      BY <3>1, <3>2
  <2> QED
    BY <1>3, <2>2, <2>3, <2>4 DEF CallMove, ToolStep
<1> QED
  BY <1>1, <1>2, <1>3 DEF AskNext, ChatMove, ClientMove, BotMove, askVars

LEMMA RecordSays ==
    ASSUME AttestInv, [AskNext]_askVars, NEW row \in attested'
    PROVE  \/ row \in attested
           \/ \E q \in Question :
                /\ solve[q].phase = "returned"
                /\ row.payload = Payload(q, solve[q].project, solve[q].result = "verified")
<1>1. CASE UNCHANGED attested
  BY <1>1
<1>2. CASE RestartMove
  <2>1. attested' = attested
    BY <1>2 DEF RestartMove, Restart, Boot, Backfilled, AttestInv, RowOk
  <2> QED
    BY <2>1
<1>3. ASSUME NEW q \in Question, Finish(q), row \notin attested
      PROVE  /\ solve[q].phase = "returned"
             /\ row.payload = Payload(q, solve[q].project, solve[q].result = "verified")
  <2> DEFINE payload == Payload(q, solve[q].project, solve[q].result = "verified")
  <2>1. Attested(payload) /\ solve[q].phase = "returned"
    BY <1>3 DEF Finish, Record, attestVars
  <2> HIDE DEF payload
  <2>2. row = [payload |-> payload, signature |-> Sign(payload, key), public |-> key]
    BY <1>3, <2>1 DEF Attested
  <2> QED
    BY <2>1, <2>2 DEF payload
<1>4. ASSUME NEW q \in Question, Send(q) \/ Serve(q) \/ Deliver(q) PROVE UNCHANGED attested
  BY <1>4 DEF Send, Serve, Deliver, attestVars
<1> QED
  BY <1>1, <1>2, <1>3, <1>4
  DEF AskNext, ChatMove, ClientMove, CallMove, BotMove, askVars, chatVars, attestVars

\* A tool call that is done with stays so.
LEMMA DoneStays ==
    ASSUME CallsInv, [SolveNext]_solveVars, NEW t \in Call, solve[t].phase = "done"
    PROVE  solve'[t] = solve[t]
<1>0. t \in Asker /\ t \notin Question
  BY ToolsAssumption, AssistantAssumption
<1>1. CASE UNCHANGED solveVars \/ \E q \in Question : Placed(q)
  BY <1>1 DEF solveVars, Placed
<1>2. ASSUME NEW D, Drops(D), t \notin D PROVE solve'[t] = solve[t]
  BY <1>0, <1>2 DEF Drops
<1>3. ASSUME NEW a \in Asker, NEW s, solve' = [solve EXCEPT ![a] = s], a # t PROVE solve'[t] = solve[t]
  BY <1>0, <1>3 DEF CallsInv
<1>4. ASSUME NEW q \in Question, Finished(q) PROVE solve'[t] = solve[t]
  BY <1>0, <1>2, <1>4 DEF Finished
<1>5. ASSUME NEW D, Dropped(D) PROVE solve'[t] = solve[t]
  BY <1>2, <1>5 DEF Dropped
<1>6. ASSUME NEW a \in Asker, NEW prior, Begun(a, prior) PROVE solve'[t] = solve[t]
  BY <1>3, <1>6 DEF Begun, Begins
<1>7. ASSUME NEW a \in Asker, NEW s, Posted(a, s) \/ Returned(a, s) PROVE solve'[t] = solve[t]
  BY <1>3, <1>7 DEF Posted, Returned
<1>8. ASSUME NEW c \in Call, Answered(c) PROVE solve'[t] = solve[t]
  BY <1>3, <1>8, ToolsAssumption DEF Answered
<1>9. ASSUME NEW p, NEW i, NEW status, EndTask(p, i, status) PROVE solve'[t] = solve[t]
  BY <1>9 DEF EndTask
<1> QED
  BY <1>1, <1>4, <1>5, <1>6, <1>7, <1>8, <1>9 DEF SolveNext

LEMMA ClaimInvNext ==
    ASSUME CallsInv, TaskInv, AttestInv, ClaimInv, [AskNext]_askVars, [SolveNext]_solveVars
    PROVE  ClaimInv'
<1>1. ASSUME NEW t \in Call, tool'[t].result = "verified"
      PROVE  solve'[t].phase = "done" /\ ShownIn(projects', t, solve'[t].project)
  <2>0. t \in Asker /\ solve[t] \in Solving(Len(projects))
    BY ToolsAssumption DEF CallsInv
  <2>1. PICK p \in {solve[t].project} : Shown(t, p) /\ solve'[t].phase = "done" /\ solve'[t].project = p
    <3>1. CASE tool[t].result = "verified"
      BY <3>1, DoneStays DEF ClaimInv
    <3>2. CASE /\ solve[t].phase = "returned" /\ solve[t].result = "verified"
               /\ solve'[t] = [solve[t] EXCEPT !.phase = "done"]
      <4>1. Shown(t, solve[t].project)
        BY <2>0, <3>2 DEF TaskInv, TaskOk
      <4>2. solve'[t].phase = "done" /\ solve'[t].project = solve[t].project
        BY <2>0, <3>2 DEF Solving
      <4> QED
        BY <4>1, <4>2
    <3> QED
      BY <1>1, <3>1, <3>2, ToolSays
  <2>2. ShownIn(projects', t, p)
    BY <2>1, ShownStays DEF Shown
  <2> QED
    BY <2>1, <2>2
<1>2. ASSUME NEW row \in attested', row.payload.verified
      PROVE  row.payload.run \in Question /\ ShownIn(projects', row.payload.run, row.payload.project)
  <2>1. row.payload.run \in Question /\ Shown(row.payload.run, row.payload.project)
    <3>1. CASE row \in attested
      BY <1>2, <3>1 DEF ClaimInv
    <3>2. ASSUME NEW q \in Question, solve[q].phase = "returned",
                 row.payload = Payload(q, solve[q].project, solve[q].result = "verified")
          PROVE  row.payload.run \in Question /\ Shown(row.payload.run, row.payload.project)
      <4>1. row.payload.run = q /\ row.payload.project = solve[q].project /\ solve[q].result = "verified"
        <5>1. row.payload.verified = (solve[q].result = "verified")
          BY <3>2 DEF Payload
        <5>2. solve[q].result = "verified"
          BY <1>2, <5>1, Zenon
        <5>3. row.payload.run = q /\ row.payload.project = solve[q].project
          BY <3>2 DEF Payload
        <5> QED
          BY <5>2, <5>3
      <4> QED
        BY <3>2, <4>1, ConversationsAssumption DEF TaskInv, TaskOk
    <3> QED
      BY <3>1, <3>2, RecordSays
  <2>2. ASSUME NEW r, NEW p, Shown(r, p) PROVE ShownIn(projects', r, p)
    BY <2>2, ShownStays DEF Shown
  <2> QED
    BY <2>1, <2>2
<1> QED
  BY <1>1, <1>2 DEF ClaimInv, Shown

\* VerifiedInThread of Assistant: whatever ids the service leaves out and however
\* late its lists are, a tool's agent is told verified of its own call only, and a
\* record that says verified names a project its run was asked in, with a task of
\* the same conversation completed, its own if it opened the project; whoever
\* died, and whatever was asked since.
THEOREM VerifiedStaysInThread == Spec => []VerifiedInThread
<1>1. Init => ClaimInv
  <2> SUFFICES ASSUME Init PROVE ClaimInv
    OBVIOUS
  <2>1. tool = [t \in Call |-> NotCalled]
    BY DEF Init, ToolsInit
  <2>2. ASSUME NEW row \in attested PROVE row.payload.verified = FALSE
    BY DEF Init, ChatInit, AttestInit, Backfilled, LegacyRecords, Payload
  <2> QED
    BY <2>1, <2>2 DEF ClaimInv, NotCalled
<1>2. RunInv /\ PageInv /\ CallsInv /\ TaskInv /\ AttestInv /\ ClaimInv /\ [Next]_vars => ClaimInv'
  BY AskMoves, SolveMoves, ClaimInvNext
<1>3. Init => AttestInv
  BY AttestInvInit DEF Init
<1>4. CallsInv /\ ThreadInv /\ ClaimInv => VerifiedInThread
  <2> SUFFICES ASSUME CallsInv, ThreadInv, ClaimInv PROVE VerifiedInThread
    OBVIOUS
  <2>1. ASSUME NEW a \in Asker, NEW p, Shown(a, p)
        PROVE  /\ a \in AskedIn(p)
               /\ \E i \in DOMAIN projects[p] :
                    /\ projects[p][i] = [asker |-> projects[p][i].asker, status |-> "COMPLETE"]
                    /\ Same(projects[p][i].asker, a)
                    /\ projects[p][1].asker = a => projects[p][i].asker = a
    <3>1. p \in 1 .. Len(projects) /\ a \in AskersOf(projects[p])
      BY <2>1 DEF Shown, ShownIn
    <3>2. PICK i \in 1 .. Len(projects[p]) :
            projects[p][i].status = "COMPLETE" /\ (projects[p][1].asker = a => i = 1)
      BY <2>1 DEF Shown, ShownIn
    <3>3. projects[p] \in Seq(Row) /\ DOMAIN projects[p] = 1 .. Len(projects[p])
      BY <3>1, HasFirst, LenProperties
    <3>4. projects[p][i] \in Row
      BY <3>2, <3>3, ElementOfSeq
    <3>5. projects[p][i] = [asker |-> projects[p][i].asker, status |-> "COMPLETE"]
      BY <3>2, <3>4 DEF Row
    <3>6. projects[p][i].asker \in AskersOf(projects[p])
      BY <3>2 DEF AskersOf
    <3>7. Same(projects[p][i].asker, a)
      BY <3>1, <3>6 DEF ThreadInv
    <3>8. a \in AskedIn(p)
      BY <3>1, <3>3 DEF AskersOf, AskedIn
    <3> QED
      BY <3>2, <3>3, <3>5, <3>7, <3>8
  <2>2. ASSUME NEW t \in Call, tool[t].result = "verified"
        PROVE  \E i \in DOMAIN projects[solve[t].project] :
                 projects[solve[t].project][i] = [asker |-> t, status |-> "COMPLETE"]
    <3>1. t \in Asker /\ t \notin Question /\ Shown(t, solve[t].project)
      BY <2>2, ToolsAssumption, AssistantAssumption DEF ClaimInv
    <3> DEFINE p == solve[t].project
    <3>2. PICK i \in DOMAIN projects[p] :
            /\ projects[p][i] = [asker |-> projects[p][i].asker, status |-> "COMPLETE"]
            /\ Same(projects[p][i].asker, t)
      BY <2>1, <3>1
    <3>3. projects[p][i].asker = t
      BY <3>1, <3>2 DEF Same
    <3> QED
      BY <3>2, <3>3
  <2>3. ASSUME NEW row \in attested, row.payload.verified
        PROVE  LET r == row.payload
               IN  /\ r.run \in AskedIn(r.project)
                   /\ \E i \in DOMAIN projects[r.project] :
                        LET task == projects[r.project][i]
                        IN  /\ task.status = "COMPLETE" /\ task.asker \in Question
                            /\ place[task.asker] = place[r.run]
                            /\ projects[r.project][1].asker = r.run => task.asker = r.run
    <3> DEFINE a == row.payload.run
               p == row.payload.project
    <3>1. a \in Question /\ a \in Asker /\ Shown(a, p)
      BY <2>3, ConversationsAssumption DEF ClaimInv
    <3> HIDE DEF a, p
    <3>2. PICK i \in DOMAIN projects[p] :
            /\ projects[p][i] = [asker |-> projects[p][i].asker, status |-> "COMPLETE"]
            /\ Same(projects[p][i].asker, a)
            /\ projects[p][1].asker = a => projects[p][i].asker = a
      BY <2>1, <3>1
    <3>3. projects[p][i].status = "COMPLETE"
      BY <3>2
    <3>4. projects[p][i].asker \in Question /\ place[projects[p][i].asker] = place[a]
      BY <3>1, <3>2 DEF Same
    <3>5. a \in AskedIn(p)
      BY <2>1, <3>1
    <3> QED
      BY <3>2, <3>3, <3>4, <3>5 DEF a, p
  <2> QED
    BY <2>2, <2>3 DEF VerifiedInThread
<1> QED
  BY <1>1, <1>2, <1>3, <1>4, CallsInvAlways, ThreadInvAlways, TaskInvAlways, AttestMoves, PTL DEF Spec

-----------------------------------------------------------------------------
(***************************************************************************)
(* The rows of the bot, whatever runs at the same time.                    *)
(***************************************************************************)
Tiers == {"none", "limited", "unlimited"}

StatusInv ==
    /\ DOMAIN requests = DOMAIN Mentions
    /\ \A t \in DOMAIN Mentions :
         /\ "status" \in DOMAIN requests[t]
         /\ requests[t].status \in {"none", "accepted", "rejected", "replied", "failed"}

\* The mention a runner takes.
LEMMA Taken ==
    ASSUME RunInv, NEW r \in Runner, TakeMention(r)
    PROVE  Head(run[r].todo) \in DOMAIN Mentions
<1>1. Head(run[r].todo) \in 1 .. posted /\ posted \in 0 .. Len(Mentions)
  BY HeadTailProperties DEF TakeMention, RunInv, RunOk
<1>2. Len(Mentions) \in Nat /\ DOMAIN Mentions = 1 .. Len(Mentions)
  BY LenProperties, XBotAssumption
<1> QED
  BY <1>1, <1>2

\* A row is logged, or changed at the end of a proof.
LEMMA RowsMove ==
    ASSUME RunInv, BotMove
    PROVE  \/ UNCHANGED requests
           \/ \E t \in DOMAIN Mentions, status \in {"accepted", "rejected", "replied"}, tier \in Tiers :
                Log(t, status, tier)
           \/ \E r \in Runner : Proved(r)
<1>1. CASE Mentioned \/ Midnight
  BY <1>1 DEF Mentioned, Midnight
<1>2. ASSUME NEW r \in Runner, StartRun(r) \/ Die(r) \/ FetchMentions(r) \/ EndRun(r) \/ Reply(r)
      PROVE  UNCHANGED requests
  BY <1>2 DEF StartRun, Die, FetchMentions, EndRun, Reply
<1>3. ASSUME NEW r \in Runner, TakeMention(r)
      PROVE  \/ UNCHANGED requests
             \/ \E t \in DOMAIN Mentions, status \in {"rejected", "replied"} : Log(t, status, "none")
  <2> DEFINE t == Head(run[r].todo)
  <2>1. t \in DOMAIN Mentions
    BY <1>3, Taken
  <2>2. \/ UNCHANGED requests
        \/ Log(t, "replied", "none") \/ Log(t, "rejected", "none")
    BY <1>3 DEF TakeMention
  <2> HIDE DEF t
  <2> QED
    BY <2>1, <2>2
<1>4. ASSUME NEW r \in Runner, Gated(r) \/ Accept(r)
      PROVE  \/ UNCHANGED requests
             \/ \E t \in DOMAIN Mentions, status \in {"accepted", "rejected"}, tier \in Tiers :
                  Log(t, status, tier)
  <2>1. Head(run[r].todo) \in DOMAIN Mentions
    BY <1>4, OnMention, GoesOn
  <2>2. \/ UNCHANGED requests
        \/ \E status \in {"accepted", "rejected"}, tier \in Tiers : Log(Head(run[r].todo), status, tier)
    BY <1>4 DEF Gated, Accept, Tiers
  <2> QED
    BY <2>1, <2>2
<1> QED
  BY <1>1, <1>2, <1>3, <1>4 DEF BotMove, RunStep, Tiers

LEMMA StatusInvNext ==
    ASSUME RunInv, StatusInv, [AskNext]_askVars
    PROVE  StatusInv'
<1>1. CASE UNCHANGED requests
  BY <1>1 DEF StatusInv
<1>2. ASSUME NEW t \in DOMAIN Mentions, NEW status \in {"accepted", "rejected", "replied"},
             NEW tier \in Tiers, Log(t, status, tier)
      PROVE  StatusInv'
  <2> DEFINE new == [status |-> status, day |-> today, tier |-> tier]
  <2>1. requests' = requests \/ requests' = [requests EXCEPT ![t] = new]
    BY <1>2 DEF Log
  <2>2. "status" \in DOMAIN new /\ new.status \in {"none", "accepted", "rejected", "replied", "failed"}
    OBVIOUS
  <2> HIDE DEF new
  <2> QED
    BY <1>1, <2>1, <2>2 DEF StatusInv
<1>3. ASSUME NEW r \in Runner, Proved(r) PROVE StatusInv'
  <2> DEFINE t == Head(run[r].todo)
             status == IF solve[ProofOf(r)].result = "error" THEN "failed" ELSE "replied"
             new == [requests[t] EXCEPT !.status = status]
  <2>1. t \in DOMAIN Mentions /\ status \in {"failed", "replied"}
    BY <1>3, OnMention DEF Proved, OnOne
  <2>2. requests' = [requests EXCEPT ![t] = new]
    BY <1>3 DEF Proved
  <2> HIDE DEF t, status
  <2>3. "status" \in DOMAIN new /\ new.status = status
    BY <2>1 DEF StatusInv
  <2> HIDE DEF new
  <2> QED
    BY <2>1, <2>2, <2>3 DEF StatusInv
<1>4. CASE UNCHANGED askVars \/ ChatMove \/ RestartMove \/ ClientMove \/ CallMove
  BY <1>1, <1>4 DEF ChatMove, RestartMove, ClientMove, CallMove, askVars, mentionVars
<1> QED
  BY <1>1, <1>2, <1>3, <1>4, RowsMove DEF AskNext

LEMMA StatusInvAlways == Spec => []StatusInv
<1>1. Init => StatusInv
  BY DEF Init, BotInit, StatusInv, NoRequest
<1>2. RunInv /\ StatusInv /\ [Next]_vars => StatusInv'
  BY AskMoves, StatusInvNext
<1> QED
  BY <1>1, <1>2, RunInvAlways, PTL DEF Spec

-----------------------------------------------------------------------------
(***************************************************************************)
(* The daily quota of the bot, with one run at a time.                     *)
(***************************************************************************)
Logged ==
    [status : {"accepted", "rejected", "replied", "failed"}, day : Nat, tier : Tiers]

\* LetThrough of given rows.
LimitedIn(rows, h, d) ==
    {t \in DOMAIN Mentions :
        /\ Mentions[t].handle = h
        /\ rows[t].status \in {"accepted", "replied"}
        /\ rows[t].day = d /\ rows[t].tier = "limited"}

\* A row is of today or before.
RowFits(t) == requests[t] = NoRequest \/ (requests[t] \in Logged /\ requests[t].day <= today)

\* Up to the proof nothing is logged of the mention; in the limited tier there is
\* room for it; and what is being proved is what was accepted.
StageOk(ran, rows, d) ==
    /\ ran.phase \in {"gating", "limited", "unlimited"} => rows[Head(ran.todo)].status = "none"
    /\ ran.phase = "limited" =>
         Cardinality(LimitedIn(rows, Mentions[Head(ran.todo)].handle, d)) < DailyLimit
    /\ ran.phase = "proving" => rows[Head(ran.todo)].status = "accepted"

QuotaInv ==
    /\ today \in Nat
    /\ \A t \in DOMAIN Mentions : RowFits(t)
    /\ \A r \in Runner : StageOk(run[r], requests, today)
    /\ QuotaKept

LEMMA MentionsAreFinite ==
    /\ IsFiniteSet(DOMAIN Mentions)
    /\ \A S \in SUBSET DOMAIN Mentions : IsFiniteSet(S) /\ Cardinality(S) \in Nat
    /\ \A S \in SUBSET DOMAIN Mentions : \A T \in SUBSET S : Cardinality(T) <= Cardinality(S)
<1>1. DOMAIN Mentions = 1 .. Len(Mentions) /\ Len(Mentions) \in Nat
  BY LenProperties, XBotAssumption
<1>2. IsFiniteSet(DOMAIN Mentions)
  BY <1>1, FS_Interval
<1> QED
  BY <1>2, FS_Subset, FS_CardinalityType

\* Nothing more is let through.
LEMMA NoMoreLetThrough ==
    ASSUME QuotaKept, UNCHANGED today, today \in Nat,
           \A t \in DOMAIN Mentions :
             requests'[t].status \in {"accepted", "replied"} /\ requests'[t].tier = "limited" =>
               /\ requests[t].status \in {"accepted", "replied"}
               /\ requests[t].tier = "limited" /\ requests[t].day = requests'[t].day
    PROVE  QuotaKept'
<1> SUFFICES ASSUME NEW h \in Handle, NEW d \in 0 .. today
             PROVE  Cardinality(LetThrough(h, d)') <= DailyLimit
  BY DEF QuotaKept
<1>1. LetThrough(h, d) \in SUBSET DOMAIN Mentions /\ LetThrough(h, d)' \subseteq LetThrough(h, d)
  BY DEF LetThrough
<1>2. Cardinality(LetThrough(h, d)') <= Cardinality(LetThrough(h, d))
  BY <1>1, MentionsAreFinite
<1>3. Cardinality(LetThrough(h, d)) <= DailyLimit /\ DailyLimit \in Nat
  BY XBotAssumption DEF QuotaKept
<1>4. Cardinality(LetThrough(h, d)) \in Nat /\ Cardinality(LetThrough(h, d)') \in Nat
  BY <1>1, MentionsAreFinite
<1> QED
  BY <1>2, <1>3, <1>4

\* One more of the limited tier is, if there is room for it.
LEMMA OneMoreLetThrough ==
    ASSUME QuotaKept, UNCHANGED today, today \in Nat, NEW t \in DOMAIN Mentions,
           Cardinality(LimitedIn(requests, Mentions[t].handle, today)) < DailyLimit,
           requests' = [requests EXCEPT ![t] =
             [status |-> "accepted", day |-> today, tier |-> "limited"]],
           DOMAIN requests = DOMAIN Mentions
    PROVE  QuotaKept'
<1> SUFFICES ASSUME NEW h \in Handle, NEW d \in 0 .. today
             PROVE  Cardinality(LetThrough(h, d)') <= DailyLimit
  BY DEF QuotaKept
<1> DEFINE new == [status |-> "accepted", day |-> today, tier |-> "limited"]
           before == LimitedIn(requests, Mentions[t].handle, today)
<1>0. \A u \in DOMAIN Mentions : requests'[u] = IF u = t THEN new ELSE requests[u]
  OBVIOUS
<1>1. /\ LetThrough(h, d) \in SUBSET DOMAIN Mentions /\ LetThrough(h, d)' \in SUBSET DOMAIN Mentions
      /\ before \in SUBSET DOMAIN Mentions
  BY DEF LetThrough, LimitedIn
<1>2. /\ Cardinality(LetThrough(h, d)) <= DailyLimit /\ DailyLimit \in Nat
      /\ Cardinality(LetThrough(h, d)) \in Nat /\ Cardinality(LetThrough(h, d)') \in Nat
      /\ Cardinality(before) \in Nat /\ IsFiniteSet(before)
  BY <1>1, MentionsAreFinite, XBotAssumption DEF QuotaKept
<1>3. CASE h # Mentions[t].handle \/ d # today
  <2>1. LetThrough(h, d)' \subseteq LetThrough(h, d)
    BY <1>0, <1>3 DEF LetThrough
  <2> HIDE DEF before
  <2>2. Cardinality(LetThrough(h, d)') <= Cardinality(LetThrough(h, d))
    BY <1>1, <2>1, MentionsAreFinite
  <2> QED
    BY <1>2, <2>2
<1>4. CASE h = Mentions[t].handle /\ d = today
  <2>1. LetThrough(h, d)' \subseteq before \cup {t}
    BY <1>0, <1>4 DEF LetThrough, LimitedIn
  <2>2. Cardinality(before) < DailyLimit
    OBVIOUS
  <2> HIDE DEF before
  <2>3. /\ IsFiniteSet(before \cup {t}) /\ before \cup {t} \in SUBSET DOMAIN Mentions
        /\ Cardinality(before \cup {t}) \in Nat
        /\ Cardinality(before \cup {t}) <= Cardinality(before) + 1
    BY <1>1, <1>2, FS_AddElement, MentionsAreFinite
  <2>4. Cardinality(LetThrough(h, d)') <= Cardinality(before \cup {t})
    BY <2>1, <2>3, MentionsAreFinite
  <2> QED
    BY <1>2, <2>2, <2>3, <2>4
<1> QED
  BY <1>3, <1>4

\* What was counted as let through or being proved bounds what the limited tier
\* let through.
LEMMA CountedBounds ==
    ASSUME NEW h, RequestsToday(h) < DailyLimit
    PROVE  Cardinality(LimitedIn(requests, h, today)) < DailyLimit
<1> DEFINE counted == {t \in DOMAIN Mentions :
             /\ Mentions[t].handle = h
             /\ requests[t].status \in {"accepted", "replied"}
             /\ requests[t].day = today}
           before == LimitedIn(requests, h, today)
<1>1. before \subseteq counted /\ counted \in SUBSET DOMAIN Mentions
  BY DEF LimitedIn
<1>2. Cardinality(counted) < DailyLimit /\ DailyLimit \in Nat
  BY XBotAssumption DEF RequestsToday
<1> HIDE DEF counted, before
<1>3. Cardinality(before) <= Cardinality(counted) /\ Cardinality(before) \in Nat /\ Cardinality(counted) \in Nat
  BY <1>1, MentionsAreFinite
<1> QED
  BY <1>2, <1>3 DEF before

\* A row is logged, unless there is one.
LEMMA LogKeeps ==
    ASSUME QuotaInv, StatusInv, UNCHANGED today, NEW t \in DOMAIN Mentions,
           NEW status \in {"accepted", "rejected", "replied"}, NEW tier \in Tiers,
           tier = "limited" =>
             /\ status = "accepted"
             /\ Cardinality(LimitedIn(requests, Mentions[t].handle, today)) < DailyLimit,
           Log(t, status, tier)
    PROVE  /\ \A u \in DOMAIN Mentions : RowFits(u)'
           /\ requests[t].status = "none" => requests'[t].status = status
           /\ QuotaKept'
<1> DEFINE new == [status |-> status, day |-> today, tier |-> tier]
<1>0. /\ today \in Nat /\ DOMAIN requests = DOMAIN Mentions /\ QuotaKept
      /\ \A u \in DOMAIN Mentions : RowFits(u)
  BY DEF QuotaInv, StatusInv
<1>1. new \in Logged /\ new.day <= today /\ new.status = status /\ new.tier = tier /\ new.day = today
  BY <1>0 DEF Logged
<1>2. CASE requests' = requests /\ requests[t].status # "none"
  <2>1. \A u \in DOMAIN Mentions : RowFits(u)'
    BY <1>0, <1>2 DEF RowFits
  <2>2. QuotaKept'
    BY <1>0, <1>2, NoMoreLetThrough
  <2> QED
    BY <1>2, <2>1, <2>2
<1>3. CASE requests' = [requests EXCEPT ![t] = new] /\ requests[t].status = "none"
  <2>1. \A u \in DOMAIN Mentions : requests'[u] = IF u = t THEN new ELSE requests[u]
    BY <1>0, <1>3
  <2>2. QuotaKept'
    <3>1. CASE tier = "limited"
      BY <1>0, <1>3, <3>1, OneMoreLetThrough
    <3>2. CASE tier # "limited"
      <4> HIDE DEF new
      <4>1. \A u \in DOMAIN Mentions :
             requests'[u].status \in {"accepted", "replied"} /\ requests'[u].tier = "limited" =>
               /\ requests[u].status \in {"accepted", "replied"}
               /\ requests[u].tier = "limited" /\ requests[u].day = requests'[u].day
        BY <1>1, <2>1, <3>2
      <4> QED
        BY <1>0, <4>1, NoMoreLetThrough
    <3> QED
      BY <3>1, <3>2
  <2> HIDE DEF new
  <2>3. \A u \in DOMAIN Mentions : RowFits(u)'
    BY <1>0, <1>1, <2>1 DEF RowFits
  <2> QED
    BY <1>1, <2>1, <2>2, <2>3
<1> QED
  BY <1>2, <1>3 DEF Log

LEMMA ProvedKeeps ==
    ASSUME RunInv, QuotaInv, StatusInv, NEW r \in Runner, Proved(r)
    PROVE  (\A u \in DOMAIN Mentions : RowFits(u)') /\ QuotaKept'
<1> DEFINE t == Head(run[r].todo)
           status == IF solve[ProofOf(r)].result = "error" THEN "failed" ELSE "replied"
           new == [requests[t] EXCEPT !.status = status]
<1>0. /\ today \in Nat /\ DOMAIN requests = DOMAIN Mentions /\ QuotaKept /\ UNCHANGED today
      /\ \A u \in DOMAIN Mentions : RowFits(u)
  BY DEF QuotaInv, StatusInv, Proved
<1>1. t \in DOMAIN Mentions /\ requests[t].status = "accepted" /\ requests' = [requests EXCEPT ![t] = new]
  BY OnMention DEF Proved, OnOne, QuotaInv, StageOk
<1>2. requests[t] \in Logged /\ requests[t].day <= today
  BY <1>0, <1>1 DEF RowFits, NoRequest
<1>3. status \in {"failed", "replied"}
  OBVIOUS
<1> HIDE DEF t, status
<1>4. new \in Logged /\ new.status = status /\ new.day = requests[t].day /\ new.tier = requests[t].tier
  BY <1>2, <1>3 DEF Logged
<1> HIDE DEF new
<1>5. \A u \in DOMAIN Mentions : requests'[u] = IF u = t THEN new ELSE requests[u]
  BY <1>0, <1>1
<1>6. \A u \in DOMAIN Mentions : RowFits(u)'
  BY <1>0, <1>2, <1>4, <1>5 DEF RowFits
<1>7. QuotaKept'
  BY <1>0, <1>1, <1>4, <1>5, NoMoreLetThrough
<1> QED
  BY <1>6, <1>7

\* Where a runner goes, with what it has to do.
LEMMA Gone ==
    ASSUME RunInv, NEW r \in Runner, NEW phase, Goto(r, phase), run[r].phase \in {"next"} \cup OnOne
    PROVE  run'[r].phase = phase /\ run'[r].todo = run[r].todo
<1>1. run'[r] = [run[r] EXCEPT !.phase = phase] /\ RunOk(run[r])
  BY DEF Goto, RunInv
<1>2. "phase" \in DOMAIN run[r] /\ "todo" \in DOMAIN run[r]
  BY <1>1 DEF RunOk
<1> QED
  BY <1>1, <1>2

LEMMA RunKeepsQuota ==
    ASSUME RunInv, QuotaInv, StatusInv, NEW r \in Runner, StartRun(r) \/ Die(r) \/ RunStep(r)
    PROVE  /\ \A u \in DOMAIN Mentions : RowFits(u)'
           /\ QuotaKept'
           /\ UNCHANGED today
           /\ StageOk(run'[r], requests', today')
<1> DEFINE t == Head(run[r].todo)
<1>0. /\ today \in Nat /\ QuotaKept /\ \A u \in DOMAIN Mentions : RowFits(u)
      /\ StageOk(run[r], requests, today) /\ r \in DOMAIN run
  BY DEF QuotaInv, RunInv
<1>1. ASSUME UNCHANGED <<requests, today>>
      PROVE  (\A u \in DOMAIN Mentions : RowFits(u)') /\ QuotaKept'
  <2>1. \A u \in DOMAIN Mentions : RowFits(u)'
    BY <1>0, <1>1 DEF RowFits
  <2>2. QuotaKept'
    BY <1>0, <1>1, NoMoreLetThrough
  <2> QED
    BY <2>1, <2>2
<1>2. UNCHANGED today
  BY DEF RunStep, StartRun, Die, FetchMentions, TakeMention, EndRun, Gated, Accept, Proved, Reply
<1>3. ASSUME run'[r].phase \in {"off", "fetching", "next", "replying"}
      PROVE  StageOk(run'[r], requests', today')
  BY <1>3 DEF StageOk
<1>4. CASE StartRun(r) \/ Die(r) \/ FetchMentions(r) \/ EndRun(r) \/ Reply(r)
  <2>1. run'[r].phase \in {"off", "fetching", "next", "replying"}
    BY <1>0, <1>4 DEF StartRun, Die, FetchMentions, EndRun, Reply, Off
  <2>2. UNCHANGED <<requests, today>>
    BY <1>4 DEF StartRun, Die, FetchMentions, EndRun, Reply
  <2> QED
    BY <1>1, <1>2, <1>3, <2>1, <2>2
<1>5. CASE TakeMention(r)
  <2>1. t \in DOMAIN Mentions /\ run[r].phase = "next"
    BY <1>5, Taken DEF TakeMention
  <2>2. CASE UNCHANGED requests /\ run' = [run EXCEPT ![r].todo = Tail(@)]
    <3>1. run'[r] = [run[r] EXCEPT !.todo = Tail(run[r].todo)]
      BY <1>0, <2>2
    <3>2. run'[r].phase = "next"
      BY <2>1, <3>1
    <3> QED
      BY <1>1, <1>2, <1>3, <2>2, <3>2
  <2>3. CASE UNCHANGED requests /\ Goto(r, "gating") /\ requests[t].status = "none"
    <3>1. run'[r].phase = "gating" /\ run'[r].todo = run[r].todo
      BY <2>1, <2>3, Gone
    <3>2. StageOk(run'[r], requests', today')
      BY <2>3, <3>1 DEF StageOk
    <3> QED
      BY <1>1, <1>2, <2>3, <3>2
  <2>4. ASSUME NEW status \in {"rejected", "replied"}, Log(t, status, "none"), Goto(r, "replying")
        PROVE  /\ \A u \in DOMAIN Mentions : RowFits(u)'
               /\ QuotaKept'
               /\ StageOk(run'[r], requests', today')
    <3>1. run'[r].phase = "replying"
      BY <2>1, <2>4, Gone
    <3> HIDE DEF t
    <3>2. (\A u \in DOMAIN Mentions : RowFits(u)') /\ QuotaKept'
      BY <1>2, <2>1, <2>4, LogKeeps DEF Tiers
    <3> QED
      BY <1>3, <3>1, <3>2
  <2>5. \/ UNCHANGED requests /\ run' = [run EXCEPT ![r].todo = Tail(@)]
        \/ UNCHANGED requests /\ Goto(r, "gating") /\ requests[t].status = "none"
        \/ \E status \in {"rejected", "replied"} : Log(t, status, "none") /\ Goto(r, "replying")
    BY <1>5 DEF TakeMention, Skipped
  <2> QED
    BY <1>2, <2>2, <2>3, <2>4, <2>5
<1>6. CASE Gated(r)
  <2>1. t \in DOMAIN Mentions /\ run[r].phase = "gating" /\ requests[t].status = "none"
    BY <1>0, <1>6, OnMention DEF Gated, OnOne, StageOk
  <2>2. CASE Log(t, "rejected", "none") /\ Goto(r, "replying")
    <3>1. run'[r].phase = "replying"
      BY <2>1, <2>2, Gone DEF OnOne
    <3> HIDE DEF t
    <3>2. (\A u \in DOMAIN Mentions : RowFits(u)') /\ QuotaKept'
      BY <1>2, <2>1, <2>2, LogKeeps DEF Tiers
    <3> QED
      BY <1>2, <1>3, <3>1, <3>2
  <2>3. ASSUME NEW tier \in {"limited", "unlimited"}, UNCHANGED requests, Goto(r, tier),
               tier = "limited" => RequestsToday(Mentions[t].handle) < DailyLimit
        PROVE  /\ \A u \in DOMAIN Mentions : RowFits(u)'
               /\ QuotaKept'
               /\ StageOk(run'[r], requests', today')
    <3>1. run'[r].phase = tier /\ run'[r].todo = run[r].todo
      BY <2>1, <2>3, Gone DEF OnOne
    <3>2. tier = "limited" => Cardinality(LimitedIn(requests, Mentions[t].handle, today)) < DailyLimit
      BY <2>3, CountedBounds
    <3>3. StageOk(run'[r], requests', today')
      BY <1>2, <2>1, <2>3, <3>1, <3>2 DEF StageOk
    <3> QED
      BY <1>1, <1>2, <2>3, <3>3
  <2>4. \/ Log(t, "rejected", "none") /\ Goto(r, "replying")
        \/ \E tier \in {"limited", "unlimited"} :
             /\ UNCHANGED requests /\ Goto(r, tier)
             /\ tier = "limited" => ~(RequestsToday(Mentions[t].handle) >= DailyLimit)
    BY <1>6 DEF Gated, TierFor
  <2>5. RequestsToday(Mentions[t].handle) \in Nat /\ DailyLimit \in Nat
    BY MentionsAreFinite, XBotAssumption DEF RequestsToday
  <2> QED
    BY <1>2, <2>2, <2>3, <2>4, <2>5
<1>7. CASE Accept(r)
  <2>1. /\ t \in DOMAIN Mentions /\ run[r].phase \in {"limited", "unlimited"}
        /\ requests[t].status = "none"
        /\ run[r].phase = "limited" =>
             Cardinality(LimitedIn(requests, Mentions[t].handle, today)) < DailyLimit
    BY <1>0, <1>7, OnMention DEF Accept, OnOne, StageOk
  <2>2. Log(t, "accepted", run[r].phase) /\ Goto(r, "proving")
    BY <1>7 DEF Accept
  <2>3. run'[r].phase = "proving" /\ run'[r].todo = run[r].todo
    BY <2>1, <2>2, Gone DEF OnOne
  <2>4. ASSUME NEW tier \in Tiers, tier = run[r].phase
        PROVE  /\ \A u \in DOMAIN Mentions : RowFits(u)'
               /\ requests'[t].status = "accepted"
               /\ QuotaKept'
    <3> HIDE DEF t
    <3> QED
      BY <1>2, <2>1, <2>2, <2>4, LogKeeps
  <2>5. run[r].phase \in Tiers
    BY <2>1 DEF Tiers
  <2>6. StageOk(run'[r], requests', today')
    BY <2>3, <2>4, <2>5 DEF StageOk
  <2> QED
    BY <1>2, <2>4, <2>5, <2>6
<1>8. CASE Proved(r)
  <2>1. run'[r].phase = "replying"
    BY <1>8, Gone DEF Proved, OnOne
  <2> QED
    BY <1>2, <1>3, <1>8, <2>1, ProvedKeeps
<1> QED
  BY <1>4, <1>5, <1>6, <1>7, <1>8 DEF RunStep

LEMMA MidnightKeepsQuota ==
    ASSUME QuotaInv, Midnight
    PROVE  QuotaInv'
<1>0. /\ today \in Nat /\ today' = today + 1 /\ UNCHANGED <<requests, run>> /\ QuotaKept
      /\ \A u \in DOMAIN Mentions : RowFits(u)
  BY DEF QuotaInv, Midnight
<1>1. \A u \in DOMAIN Mentions : requests[u] # NoRequest => requests[u].day \in Nat /\ requests[u].day <= today
  BY <1>0 DEF RowFits, Logged
<1>2. \A u \in DOMAIN Mentions : RowFits(u)'
  BY <1>0, <1>1 DEF RowFits
<1>3. \A h : LimitedIn(requests, h, today + 1) = {}
  BY <1>0, <1>1 DEF LimitedIn, NoRequest
<1>4. \A h : Cardinality(LimitedIn(requests, h, today + 1)) = 0
  BY <1>3, FS_EmptySet, Zenon
<1>5. QuotaKept'
  <2> SUFFICES ASSUME NEW h \in Handle, NEW d \in 0 .. today'
               PROVE  Cardinality(LetThrough(h, d)') <= DailyLimit
    BY DEF QuotaKept
  <2>1. LetThrough(h, d)' = LetThrough(h, d)
    BY <1>0 DEF LetThrough
  <2>2. CASE d \in 0 .. today
    BY <1>0, <2>1, <2>2 DEF QuotaKept
  <2>3. CASE d = today + 1
    <3>1. LetThrough(h, d) = LimitedIn(requests, h, today + 1)
      BY <2>3 DEF LetThrough, LimitedIn
    <3> QED
      BY <1>4, <2>1, <3>1, XBotAssumption
  <2> QED
    BY <1>0, <2>2, <2>3
<1>6. ASSUME NEW r \in Runner PROVE StageOk(run'[r], requests', today')
  <2> DEFINE h == Mentions[Head(run[r].todo)].handle
  <2>1. StageOk(run[r], requests, today)
    BY DEF QuotaInv
  <2>2. run[r].phase = "limited" => Cardinality(LimitedIn(requests, h, today)) < DailyLimit
    BY <2>1 DEF StageOk
  <2>3. Cardinality(LimitedIn(requests, h, today)) \in Nat
    <3>1. LimitedIn(requests, h, today) \in SUBSET DOMAIN Mentions
      BY DEF LimitedIn
    <3> QED
      BY <3>1, MentionsAreFinite
  <2>4. run[r].phase = "limited" => Cardinality(LimitedIn(requests, h, today + 1)) < DailyLimit
    BY <1>4, <2>2, <2>3, XBotAssumption
  <2> QED
    BY <1>0, <2>1, <2>4 DEF StageOk
<1> QED
  BY <1>0, <1>2, <1>5, <1>6 DEF QuotaInv

LEMMA QuotaInvNext ==
    ASSUME \A r, s \in Runner : r = s,
           RunInv, QuotaInv, StatusInv, [AskNext]_askVars
    PROVE  QuotaInv'
<1>1. CASE UNCHANGED <<requests, today, run>>
  <2>1. \A u \in DOMAIN Mentions : RowFits(u)'
    BY <1>1 DEF QuotaInv, RowFits
  <2>2. QuotaKept'
    BY <1>1, NoMoreLetThrough DEF QuotaInv
  <2> QED
    BY <1>1, <2>1, <2>2 DEF QuotaInv, StageOk
<1>2. CASE UNCHANGED askVars \/ ChatMove \/ RestartMove \/ ClientMove \/ CallMove
  BY <1>1, <1>2 DEF ChatMove, RestartMove, ClientMove, CallMove, askVars, mentionVars
<1>3. CASE Mentioned
  BY <1>1, <1>3 DEF Mentioned
<1>4. CASE Midnight
  BY <1>4, MidnightKeepsQuota
<1>5. ASSUME NEW r \in Runner, StartRun(r) \/ Die(r) \/ RunStep(r)
      PROVE  QuotaInv'
  <2>1. /\ \A u \in DOMAIN Mentions : RowFits(u)'
        /\ QuotaKept'
        /\ UNCHANGED today
        /\ StageOk(run'[r], requests', today')
    BY <1>5, RunKeepsQuota
  <2>2. \A s \in Runner : s = r
    OBVIOUS
  <2>3. \A s \in Runner : StageOk(run'[s], requests', today')
    BY <2>1, <2>2
  <2> QED
    BY <2>1, <2>3 DEF QuotaInv
<1> QED
  BY <1>2, <1>3, <1>4, <1>5 DEF AskNext, BotMove

\* QuotaKept of Assistant, with one run at a time: the limited tier never gets more
\* than its quota of a day, though the count and the row it leads to are steps of
\* their own, whatever fails, dies, or happens at midnight between them.
THEOREM QuotaHolds ==
    ASSUME \A r, s \in Runner : r = s
    PROVE  Spec => []QuotaKept
<1>1. Init => QuotaInv
  <2> SUFFICES ASSUME Init PROVE QuotaInv
    OBVIOUS
  <2>1. /\ requests = [t \in DOMAIN Mentions |-> NoRequest] /\ today = 0
        /\ run = [r \in Runner |-> Off]
    BY DEF Init, BotInit
  <2>2. QuotaKept
    <3>1. \A h \in Handle, d \in 0 .. today : LetThrough(h, d) = {}
      BY <2>1 DEF LetThrough, NoRequest
    <3>2. \A h \in Handle, d \in 0 .. today : Cardinality(LetThrough(h, d)) = 0
      BY <3>1, FS_EmptySet, Zenon
    <3>3. 0 <= DailyLimit
      BY XBotAssumption
    <3> QED
      BY <3>2, <3>3 DEF QuotaKept
  <2> QED
    BY <2>1, <2>2 DEF QuotaInv, RowFits, StageOk, Off
<1>2. RunInv /\ StatusInv /\ QuotaInv /\ [Next]_vars => QuotaInv'
  BY AskMoves, QuotaInvNext
<1>3. QuotaInv => QuotaKept
  BY DEF QuotaInv
<1> QED
  BY <1>1, <1>2, <1>3, RunInvAlways, StatusInvAlways, PTL DEF Spec

-----------------------------------------------------------------------------
(***************************************************************************)
(* Where a prompt goes.                                                    *)
(***************************************************************************)
\* A call of solve for a tool is made by the call of that tool.
UncalledInv == \A t \in Call : tool[t].phase = "idle" => solve[t].phase = "idle"

LEMMA UncalledNext ==
    ASSUME RunInv, CallsInv, UncalledInv, [AskNext]_askVars
    PROVE  UncalledInv'
<1> SUFFICES ASSUME NEW t \in Call, tool'[t].phase = "idle"
             PROVE  solve'[t].phase = "idle"
  BY DEF UncalledInv
<1>0. t \in Asker /\ t \notin Question
  BY ToolsAssumption, AssistantAssumption
<1>1. CASE UNCHANGED <<tool, solve>>
  BY <1>1 DEF UncalledInv
<1>2. ASSUME UNCHANGED tool, solve'[t] = solve[t] PROVE solve'[t].phase = "idle"
  BY <1>2 DEF UncalledInv
<1>3. CASE ChatMove
  <2>1. UNCHANGED tool
    BY <1>3 DEF ChatMove
  <2>2. ASSUME NEW q \in Question, Serve(q) PROVE solve'[t] = solve[t]
    <3>1. CASE Solve(q, ThreadOf(q))
      BY <1>0, <3>1, SolveBegins, ConversationsAssumption DEF Begins, CallsInv
    <3> QED
      BY <2>2, <3>1 DEF Serve
  <2>3. ASSUME NEW q \in Question, Finish(q) PROVE solve'[t] = solve[t]
    BY <1>0, <2>3 DEF Finish, CallsInv
  <2>4. ASSUME NEW q \in Question, Send(q) \/ Deliver(q) PROVE solve'[t] = solve[t]
    BY <2>4 DEF Send, Deliver, ariVars
  <2> QED
    BY <1>2, <1>3, <2>1, <2>2, <2>3, <2>4 DEF ChatMove, ariVars
<1>4. CASE RestartMove
  <2>1. tool[t].phase = "idle"
    BY <1>4 DEF RestartMove, RoutesLost, Working
  <2> QED
    BY <1>0, <1>4, <2>1 DEF RestartMove, Restart, UncalledInv
<1>5. CASE ClientMove
  <2>1. solve[t].phase = "idle" /\ UNCHANGED tool
    BY <1>5 DEF ClientMove, UncalledInv
  <2>2. ASSUME NEW a \in Asker, RequestFails(a) \/ SolveStep(a) PROVE solve'[t] = solve[t]
    <3>1. a # t
      BY <2>1, <2>2 DEF RequestFails, SolveStep, Create, Ask, Poll, Deadline
    <3>2. ASSUME NEW p, NEW result, Return(a, p, result) PROVE solve'[t] = solve[t]
      BY <1>0, <3>1, <3>2 DEF Return, CallsInv
    <3>3. ASSUME Create(a) \/ Ask(a) PROVE solve'[t] = solve[t]
      BY <1>0, <3>1, <3>3 DEF Create, Ask, CallsInv
    <3> QED
      BY <2>2, <3>2, <3>3 DEF RequestFails, SolveStep, Poll, Deadline
  <2>3. ASSUME NEW p, NEW i, NEW status, EndTask(p, i, status) PROVE solve'[t] = solve[t]
    BY <2>3 DEF EndTask
  <2> QED
    BY <1>2, <1>5, <2>1, <2>2, <2>3 DEF ClientMove
<1>6. CASE CallMove
  <2>1. ASSUME NEW c \in Call, NEW answer, tool' = [tool EXCEPT ![c] = answer], answer.phase # "idle",
               c # t => solve'[t] = solve[t]
        PROVE  solve'[t].phase = "idle"
    <3>1. c # t
      BY <2>1 DEF CallsInv
    <3> QED
      BY <2>1, <3>1 DEF UncalledInv, CallsInv
  <2>2. ASSUME NEW text PROVE Answer(text).phase # "idle"
    BY DEF Answer
  <2>3. ASSUME NEW phase, phase # "idle" PROVE Working(phase).phase # "idle"
    BY <2>3 DEF Working
  <2>4. ASSUME NEW c \in Call, ProviderAnswers(c) PROVE solve'[t].phase = "idle"
    BY <2>1, <2>2, <2>4 DEF ProviderAnswers, ariVars
  <2>5. ASSUME NEW c \in Call, WikipediaAnswers(c) PROVE solve'[t].phase = "idle"
    BY <2>1, <2>2, <2>3, <2>5 DEF WikipediaAnswers, ariVars
  <2>6. ASSUME NEW c \in Call, DuckDuckGoAnswers(c) PROVE solve'[t].phase = "idle"
    BY <2>1, <2>2, <2>6 DEF DuckDuckGoAnswers, ariVars
  <2>7. ASSUME NEW c \in Call, AristotleAnswers(c) PROVE solve'[t].phase = "idle"
    <3>1. c # t => solve'[t] = solve[t]
      BY <1>0, <2>7 DEF AristotleAnswers, CallsInv
    <3> QED
      BY <2>1, <2>2, <2>7, <3>1 DEF AristotleAnswers
  <2>8. ASSUME NEW c \in Call, NEW name, NEW arithmetic, ExecuteTool(c, name, arithmetic)
        PROVE  solve'[t].phase = "idle"
    <3>1. PICK answer : tool' = [tool EXCEPT ![c] = answer] /\ answer.phase # "idle"
      BY <2>2, <2>3, <2>8 DEF ExecuteTool
    <3>2. c # t => solve'[t] = solve[t]
      BY <1>0, <2>8, SolveBegins, ToolsAssumption DEF ExecuteTool, Begins, CallsInv
    <3> QED
      BY <2>1, <3>1, <3>2
  <2> QED
    BY <1>6, <2>4, <2>5, <2>6, <2>7, <2>8 DEF CallMove, ToolStep
<1>7. CASE BotMove
  <2>1. UNCHANGED tool
    BY <1>7 DEF BotMove
  <2>2. ASSUME NEW r \in Runner, Die(r) PROVE solve'[t] = solve[t]
    <3>1. ~ (run[r].phase = "proving" /\ t = ProofOf(r))
      BY OnMention DEF OnOne
    <3> QED
      BY <1>0, <2>2, <3>1 DEF Die
  <2>3. ASSUME NEW r \in Runner, Proved(r) PROVE solve'[t] = solve[t]
    <3>1. t # ProofOf(r)
      BY <2>3, OnMention DEF Proved, OnOne
    <3> QED
      BY <1>0, <2>3, <3>1 DEF Proved, CallsInv
  <2>4. ASSUME NEW r \in Runner, Accept(r) PROVE solve'[t] = solve[t]
    <3>1. t # ProofOf(r) /\ ProofOf(r) \in Asker
      BY <2>4, OnMention DEF Accept, OnOne
    <3>2. Solve(ProofOf(r), NoProject)
      BY <2>4 DEF Accept
    <3> QED
      BY <1>0, <3>1, <3>2, SolveBegins DEF Begins, CallsInv
  <2>5. ASSUME UNCHANGED ariVars PROVE solve'[t] = solve[t]
    BY <2>5 DEF ariVars
  <2> QED
    BY <1>2, <1>7, <2>1, <2>2, <2>3, <2>4, <2>5
    DEF BotMove, RunStep, Mentioned, Midnight, StartRun, FetchMentions, TakeMention, EndRun, Gated, Reply
<1> QED
  BY <1>1, <1>3, <1>4, <1>5, <1>6, <1>7 DEF AskNext, askVars, ariVars

LEMMA UncalledAlways == Spec => []UncalledInv
<1>1. Init => UncalledInv
  BY ToolsAssumption DEF Init, AriInit, ToolsInit, NotCalled, Idle, UncalledInv
<1>2. RunInv /\ CallsInv /\ UncalledInv /\ [Next]_vars => UncalledInv'
  BY AskMoves, UncalledNext
<1> QED
  BY <1>1, <1>2, CallsInvAlways, PTL DEF Spec

\* The models there are names of.
Named == {EchoModel, ImageModel, External} \cup UNION {Models[h] : h \in Host}

MenuType == [models : SUBSET Named, external : SUBSET Named, chosen : Named]

NoImages(m) == \A h \in Host : m \notin Images[h]

\* What is offered is marked if it is outside, and in the chat makes no images.
MenuOk(p, m) ==
    /\ m \in MenuType /\ m.chosen \in m.models
    /\ External \in m.models => External \in m.external
    /\ p = "chat" => \A x \in m.models : x = External \/ NoImages(x)

MenuInv ==
    /\ registry \subseteq Host
    /\ menu \in [PageName -> MenuType]
    /\ \A p \in PageName : MenuOk(p, menu[p])

Requested ==
    [phase : {"sent", "agent", "tool", "over"}, page : PageName,
     kind : {"chat", "agent", "image"}, model : Named, marked : BOOLEAN, warned : BOOLEAN,
     left : BOOLEAN, call : SUBSET Call, made : {"none", "image", "text"}]

RequestOk(j) ==
    \/ j = NotRequested
    \/ /\ j \in Requested
       /\ j.kind = "image" <=> j.page = "create"
       /\ j.phase = "sent" =>
            /\ j.left = FALSE /\ j.made = "none"
            /\ j.model = External => j.marked = TRUE
            /\ j.page # "create" => j.model = External \/ NoImages(j.model)
       /\ j.phase \in {"agent", "tool"} => j.kind = "agent"
       /\ j.left = TRUE => j.warned = TRUE /\ (j.marked = TRUE \/ j.kind = "agent")
       /\ j.made # "none" => (j.made = "image" <=> j.page = "create")

RequestInv ==
    /\ DOMAIN request = Request
    /\ \A j \in Request : RequestOk(request[j])

LEMMA OpenedOk == \A p \in PageName : MenuOk(p, Opened(p))
<1> SUFFICES ASSUME NEW p \in PageName PROVE MenuOk(p, Opened(p))
  OBVIOUS
<1> DEFINE m == IF p = "chat" THEN EchoModel ELSE ImageModel
<1>1. m \in Named /\ m # External /\ (p = "chat" => NoImages(m))
  BY CatalogAssumption DEF Named, NoImages
<1>2. Opened(p) = [models |-> {m}, external |-> {}, chosen |-> m]
  BY DEF Opened
<1> HIDE DEF m
<1> QED
  BY <1>1, <1>2 DEF MenuOk, MenuType

LEMMA OfferedOk ==
    ASSUME MenuInv, NEW p \in PageName
    PROVE  /\ OfferedTo(p) \subseteq Named
           /\ p = "chat" => \A x \in OfferedTo(p) : x = External \/ NoImages(x)
<1>1. Listing \subseteq Named
  BY DEF Listing, Named, MenuInv
<1>2. ASSUME NEW x \in Listing \ ImageListing PROVE NoImages(x)
  <2>1. PICK h \in registry : x \in Models[h]
    BY DEF Listing
  <2>2. h \in Host /\ x \notin Images[h]
    BY <2>1 DEF MenuInv, ImageListing
  <2> QED
    BY <2>1, <2>2, CatalogAssumption DEF NoImages
<1> QED
  BY <1>1, <1>2 DEF OfferedTo, Named, PageName

LEMMA OneMenu ==
    ASSUME MenuInv, NEW p \in PageName, NEW m, MenuOk(p, m), menu' = [menu EXCEPT ![p] = m],
           UNCHANGED registry
    PROVE  MenuInv'
<1>1. m \in MenuType /\ \A x \in PageName : menu'[x] = IF x = p THEN m ELSE menu[x]
  BY DEF MenuInv, MenuOk
<1>2. menu' \in [PageName -> MenuType]
  BY <1>1 DEF MenuInv
<1>3. \A x \in PageName : MenuOk(x, menu'[x])
  BY <1>1 DEF MenuInv
<1> QED
  BY <1>2, <1>3 DEF MenuInv

LEMMA OneRequest ==
    ASSUME RequestInv, NEW j \in Request, NEW s, RequestOk(s), request' = [request EXCEPT ![j] = s]
    PROVE  RequestInv'
BY DEF RequestInv

LEMMA MenuMoves ==
    ASSUME MenuInv,
           \/ \E h \in Host : Register(h) \/ Unregister(h)
           \/ \E p \in PageName : OpenMenu(p) \/ LoadMenu(p) \/ \E m \in menu[p].models : Choose(p, m)
    PROVE  MenuInv' /\ request' = request
<1>1. CASE \E h \in Host : Register(h) \/ Unregister(h)
  BY <1>1 DEF Register, Unregister, MenuInv
<1>2. ASSUME NEW p \in PageName, OpenMenu(p) PROVE MenuInv' /\ request' = request
  BY <1>2, OpenedOk, OneMenu DEF OpenMenu
<1>3. ASSUME NEW p \in PageName, LoadMenu(p) PROVE MenuInv' /\ request' = request
  <2>1. PICK chosen \in OfferedTo(p) : menu' = [menu EXCEPT ![p] =
          [models |-> OfferedTo(p), external |-> OfferedTo(p) \cap {External}, chosen |-> chosen]]
    BY <1>3 DEF LoadMenu
  <2> DEFINE m == [models |-> OfferedTo(p), external |-> OfferedTo(p) \cap {External},
                   chosen |-> chosen]
  <2>2. MenuOk(p, m)
    <3>1. m \in MenuType
      BY OfferedOk DEF MenuType
    <3>2. m.models = OfferedTo(p) /\ m.external = OfferedTo(p) \cap {External} /\ m.chosen \in m.models
      OBVIOUS
    <3> HIDE DEF m
    <3> QED
      BY <3>1, <3>2, OfferedOk DEF MenuOk
  <2> HIDE DEF m
  <2> QED
    BY <1>3, <2>1, <2>2, OneMenu DEF LoadMenu, m
<1>4. ASSUME NEW p \in PageName, NEW x \in menu[p].models, Choose(p, x)
      PROVE  MenuInv' /\ request' = request
  <2> DEFINE m == [menu[p] EXCEPT !.chosen = x]
  <2>1. menu[p] \in MenuType /\ MenuOk(p, menu[p]) /\ x \in Named
    BY DEF MenuInv, MenuType
  <2>2. /\ m \in MenuType /\ m.chosen = x /\ m.models = menu[p].models
        /\ m.external = menu[p].external
    BY <2>1 DEF MenuType
  <2>3. menu' = [menu EXCEPT ![p] = m] /\ UNCHANGED <<registry, request>>
    BY <1>4 DEF Choose
  <2> HIDE DEF m
  <2>4. MenuOk(p, m)
    BY <2>1, <2>2 DEF MenuOk
  <2> QED
    BY <2>3, <2>4, OneMenu
<1> QED
  BY <1>1, <1>2, <1>3, <1>4

LEMMA Submitted ==
    ASSUME MenuInv, RequestInv, NEW j \in Request, NEW p \in PageName,
           NEW kind \in {"chat", "agent", "image"}, SubmitRequest(j, p, kind)
    PROVE  RequestInv' /\ UNCHANGED <<registry, menu>>
<1> DEFINE s == [phase |-> "sent", page |-> p, kind |-> kind, model |-> menu[p].chosen,
                 marked |-> menu[p].chosen \in menu[p].external,
                 warned |-> FALSE, left |-> FALSE, call |-> {}, made |-> "none"]
<1>0. MenuOk(p, menu[p]) /\ menu[p] \in MenuType
  BY DEF MenuInv
<1>1. menu[p].chosen \in Named
  BY <1>0 DEF MenuType
<1>2. s \in Requested
  BY <1>1 DEF Requested
<1>3. /\ s.phase = "sent" /\ s.page = p /\ s.kind = kind /\ s.model = menu[p].chosen
      /\ s.left = FALSE /\ s.made = "none"
  OBVIOUS
<1>4. menu[p].chosen = External => s.marked = TRUE
  <2>1. menu[p].chosen = External => menu[p].chosen \in menu[p].external
    BY <1>0 DEF MenuOk
  <2> QED
    BY <2>1
<1>5. request' = [request EXCEPT ![j] = s] /\ (kind = "image" <=> p = "create")
  BY DEF SubmitRequest
<1>6. p # "create" => s.model = External \/ NoImages(s.model)
  BY <1>0, <1>3 DEF MenuOk, PageName
<1> HIDE DEF s
<1>7. RequestOk(s)
  BY <1>2, <1>3, <1>4, <1>5, <1>6 DEF RequestOk
<1> QED
  BY <1>5, <1>7, OneRequest DEF SubmitRequest

LEMMA ExternalRouted ==
    ASSUME RequestInv, NEW j \in Request, NEW arithmetic \in BOOLEAN, RouteExternal(j, arithmetic)
    PROVE  RequestInv'
<1> DEFINE old == request[j]
           a == [old EXCEPT !.phase = "over"]
           b == [a EXCEPT !.warned = ~arithmetic]
           s == [b EXCEPT !.left = ~arithmetic /\ enabled]
<1>1. /\ RequestOk(old) /\ old.phase = "sent" /\ old.model = External
      /\ request' = [request EXCEPT ![j] = s]
  BY DEF RouteExternal, RequestInv
<1>2. old \in Requested /\ old.marked = TRUE /\ old.made = "none"
      /\ (old.kind = "image" <=> old.page = "create")
  BY <1>1 DEF RequestOk, NotRequested
<1> HIDE DEF old
<1>3. a \in Requested /\ a.phase = "over" /\ a.kind = old.kind /\ a.page = old.page
      /\ a.marked = old.marked /\ a.made = old.made
  BY <1>2 DEF Requested
<1> HIDE DEF a
<1>4. b \in Requested /\ b.phase = "over" /\ b.kind = old.kind /\ b.page = old.page
      /\ b.marked = old.marked /\ b.made = old.made /\ b.warned = ~arithmetic
  BY <1>3 DEF Requested
<1> HIDE DEF b
<1>5. (~arithmetic /\ enabled) \in BOOLEAN
  OBVIOUS
<1>6. s \in Requested /\ s.phase = "over" /\ s.kind = old.kind /\ s.page = old.page
      /\ s.marked = old.marked /\ s.made = old.made /\ s.warned = b.warned
  BY <1>4, <1>5 DEF Requested
<1>7. s.left = TRUE => b.warned = TRUE
  BY <1>4 DEF Requested
<1> HIDE DEF s
<1>8. RequestOk(s)
  BY <1>2, <1>6, <1>7 DEF RequestOk
<1> QED
  BY <1>1, <1>8, OneRequest

\* Only the phase of a request changes, to one that says less.
LEMMA Rephased ==
    ASSUME RequestInv, NEW j \in Request, NEW phase \in {"agent", "over"},
           request[j] # NotRequested, phase = "agent" => request[j].kind = "agent",
           request' = [request EXCEPT ![j].phase = phase]
    PROVE  RequestInv'
<1> DEFINE old == request[j]
           s == [old EXCEPT !.phase = phase]
<1>1. RequestOk(old) /\ request' = [request EXCEPT ![j] = s]
  BY DEF RequestInv
<1>2. old \in Requested
  BY <1>1 DEF RequestOk
<1> HIDE DEF old
<1>3. s \in Requested /\ s.phase = phase /\ s.kind = old.kind /\ s.page = old.page
      /\ s.marked = old.marked /\ s.made = old.made /\ s.warned = old.warned /\ s.left = old.left
  BY <1>2 DEF Requested
<1> HIDE DEF s
<1>4. RequestOk(s)
  BY <1>1, <1>2, <1>3 DEF RequestOk, NotRequested, old
<1> QED
  BY <1>1, <1>4, OneRequest

LEMMA JobRouted ==
    ASSUME MenuInv, RequestInv, NEW j \in Request, RouteJob(j)
    PROVE  RequestInv'
<1> DEFINE old == request[j]
<1>1. /\ RequestOk(old) /\ old.phase = "sent" /\ old.model # External /\ old.kind # "agent"
  BY DEF RouteJob, RequestInv
<1>2. /\ old \in Requested /\ old.left = FALSE /\ (old.kind = "image" <=> old.page = "create")
      /\ old.page # "create" => NoImages(old.model)
  BY <1>1 DEF RequestOk, NotRequested
<1>3. CASE request' = [request EXCEPT ![j].phase = "over"]
  <2>1. request[j] # NotRequested /\ "over" \in {"agent", "over"} /\ "over" # "agent"
    BY <1>1 DEF NotRequested
  <2> HIDE DEF old
  <2> QED
    BY <1>3, <2>1, Rephased
<1>4. ASSUME NEW h \in Host, NEW product \in {"image", "text"},
             product = "image" <=> (old.kind = "image" \/ old.model \in Images[h]),
             request' = [request EXCEPT ![j].phase = "over", ![j].made = product]
      PROVE  RequestInv'
  <2> DEFINE a == [old EXCEPT !.phase = "over"]
             s == [a EXCEPT !.made = product]
  <2>1. request' = [request EXCEPT ![j] = s]
    BY <1>4 DEF RequestInv
  <2>5. product = "image" <=> old.page = "create"
    BY <1>2, <1>4 DEF NoImages
  <2> HIDE DEF old
  <2>2. a \in Requested /\ a.phase = "over" /\ a.kind = old.kind /\ a.page = old.page
        /\ a.left = old.left
    BY <1>2 DEF Requested
  <2> HIDE DEF a
  <2>3. s \in Requested /\ s.phase = "over" /\ s.kind = old.kind /\ s.page = old.page
        /\ s.left = old.left /\ s.made = product
    BY <2>2 DEF Requested
  <2> HIDE DEF s
  <2>4. RequestOk(s)
    BY <1>2, <2>3, <2>5 DEF RequestOk
  <2> QED
    BY <2>1, <2>4, OneRequest
<1>5. ASSUME NEW h \in registry, request' = [request EXCEPT ![j].phase = "over", ![j].made =
               IF old.kind = "image" \/ old.model \in Images[h] THEN "image" ELSE "text"]
      PROVE  RequestInv'
  <2> DEFINE product == IF old.kind = "image" \/ old.model \in Images[h] THEN "image" ELSE "text"
  <2>1. /\ product \in {"image", "text"} /\ h \in Host
        /\ product = "image" <=> (old.kind = "image" \/ old.model \in Images[h])
    BY DEF MenuInv
  <2>2. request' = [request EXCEPT ![j].phase = "over", ![j].made = product]
    BY <1>5
  <2> HIDE DEF product, old
  <2> QED
    BY <1>4, <2>1, <2>2
<1> QED
  BY <1>3, <1>5 DEF RouteJob

LEMMA ToolCalled ==
    ASSUME CallsInv, UncalledInv, RequestInv, NEW j \in Request, NEW t \in Call, NEW name \in ToolNames,
           NEW arithmetic \in BOOLEAN, CallTool(j, t, name, arithmetic)
    PROVE  RequestInv'
<1> DEFINE old == request[j]
           asks == solve'[t].phase = "requesting"
           a == [old EXCEPT !.phase = "tool"]
           b == [a EXCEPT !.call = {t}]
           c == [b EXCEPT !.warned = old.warned \/ name = "verified_math"]
           s == [c EXCEPT !.left = old.left \/ asks]
<1>1. RequestOk(old) /\ old.phase = "agent"
  BY DEF CallTool, RequestInv
<1>2. request' = [request EXCEPT ![j] = s]
  BY DEF CallTool, RequestInv
<1>3. asks => name = "verified_math"
  <2>1. tool[t].phase = "idle" /\ (name = "verified_math" \/ UNCHANGED solve)
    BY DEF CallTool, ExecuteTool
  <2> QED
    BY <2>1 DEF UncalledInv
<1>4. /\ old \in Requested /\ old.kind = "agent" /\ (old.kind = "image" <=> old.page = "create")
      /\ old.made # "none" => (old.made = "image" <=> old.page = "create")
      /\ old.left = TRUE => old.warned = TRUE
  BY <1>1 DEF RequestOk, NotRequested
<1> HIDE DEF old, asks
<1>5. a \in Requested /\ a.phase = "tool" /\ a.kind = old.kind /\ a.page = old.page /\ a.made = old.made
  BY <1>4 DEF Requested
<1> HIDE DEF a
<1>6. b \in Requested /\ b.phase = "tool" /\ b.kind = old.kind /\ b.page = old.page /\ b.made = old.made
  BY <1>5 DEF Requested
<1> HIDE DEF b
<1>7. (old.warned \/ name = "verified_math") \in BOOLEAN /\ (old.left \/ asks) \in BOOLEAN
  OBVIOUS
<1>8. c \in Requested /\ c.phase = "tool" /\ c.kind = old.kind /\ c.page = old.page /\ c.made = old.made
  BY <1>6, <1>7 DEF Requested
<1>9. c.warned = (old.warned \/ name = "verified_math")
  BY <1>6 DEF Requested
<1> HIDE DEF c
<1>10. s \in Requested /\ s.phase = "tool" /\ s.kind = old.kind /\ s.page = old.page
       /\ s.made = old.made /\ s.warned = c.warned
  BY <1>7, <1>8 DEF Requested
<1>11. s.left = (old.left \/ asks)
  BY <1>8 DEF Requested
<1> HIDE DEF s
<1>12. old.left \in BOOLEAN /\ old.warned \in BOOLEAN
  BY <1>4 DEF Requested
<1>13. s.left = TRUE => s.warned = TRUE
  BY <1>3, <1>4, <1>9, <1>10, <1>11, <1>12
<1>14. RequestOk(s)
  BY <1>4, <1>10, <1>13 DEF RequestOk
<1> QED
  BY <1>2, <1>14, OneRequest

LEMMA RequestsLost ==
    ASSUME RequestInv, RoutesLost
    PROVE  RequestInv'
<1> SUFFICES ASSUME NEW j \in Request PROVE RequestOk(request'[j])
  BY DEF RequestInv, RoutesLost
<1> DEFINE old == request[j]
           s == [old EXCEPT !.phase = "over"]
<1>1. CASE old.phase = "none"
  BY <1>1 DEF RoutesLost, RequestOk
<1>2. CASE old.phase # "none"
  <2>1. RequestOk(old) /\ old # NotRequested /\ request'[j] = s
    BY <1>2 DEF RequestInv, NotRequested, RoutesLost
  <2>2. old \in Requested
    BY <2>1 DEF RequestOk
  <2> HIDE DEF old
  <2>3. s \in Requested /\ s.phase = "over" /\ s.kind = old.kind /\ s.page = old.page
        /\ s.marked = old.marked /\ s.made = old.made /\ s.warned = old.warned /\ s.left = old.left
    BY <2>2 DEF Requested
  <2> HIDE DEF s
  <2>4. RequestOk(s)
    BY <2>1, <2>2, <2>3 DEF RequestOk
  <2> QED
    BY <2>1, <2>4
<1> QED
  BY <1>1, <1>2

LEMMA RouteInvNext ==
    ASSUME CallsInv, UncalledInv, MenuInv, RequestInv, [Next]_vars
    PROVE  MenuInv' /\ RequestInv'
<1>1. ASSUME UNCHANGED catalogVars PROVE MenuInv' /\ RequestInv'
  BY <1>1 DEF catalogVars, MenuInv, RequestInv
<1>2. ASSUME UNCHANGED <<registry, menu>>, RequestInv' PROVE MenuInv' /\ RequestInv'
  BY <1>2 DEF MenuInv
<1>3. ASSUME MenuInv', UNCHANGED request PROVE MenuInv' /\ RequestInv'
  BY <1>3 DEF RequestInv
<1>4. CASE RouteStep
  <2>1. CASE \/ \E h \in Host : Register(h) \/ Unregister(h)
             \/ \E p \in PageName : OpenMenu(p) \/ LoadMenu(p) \/ \E m \in menu[p].models : Choose(p, m)
    BY <1>3, <2>1, MenuMoves
  <2>2. NewRequest \subseteq Request /\ NewCall \subseteq Call
    BY DEF NewRequest, NewCall, AnyOf
  <2>3. ASSUME NEW j \in NewRequest, NEW p \in PageName, NEW kind \in {"chat", "agent", "image"},
               SubmitRequest(j, p, kind)
        PROVE  MenuInv' /\ RequestInv'
    BY <1>2, <2>2, <2>3, Submitted
  <2>4. ASSUME NEW j \in Request, RouteAgent(j) PROVE MenuInv' /\ RequestInv'
    <3>1. PICK phase \in {"agent", "over"} : request' = [request EXCEPT ![j].phase = phase]
      BY <2>4 DEF RouteAgent
    <3>2. request[j].kind = "agent" /\ request[j] # NotRequested /\ UNCHANGED <<registry, menu>>
      BY <2>4 DEF RouteAgent, NotRequested
    <3> QED
      BY <1>2, <3>1, <3>2, Rephased
  <2>5. ASSUME NEW j \in Request, ToolReturns(j) \/ EndAgent(j) PROVE MenuInv' /\ RequestInv'
    <3>1. PICK phase \in {"agent", "over"} : request' = [request EXCEPT ![j].phase = phase]
      BY <2>5 DEF ToolReturns, EndAgent
    <3>2. request[j].phase \in {"agent", "tool"} /\ UNCHANGED <<registry, menu>>
      BY <2>5 DEF ToolReturns, EndAgent
    <3>3. request[j].kind = "agent" /\ request[j] # NotRequested
      BY <3>2 DEF NotRequested, RequestInv, RequestOk
    <3> QED
      BY <1>2, <3>1, <3>2, <3>3, Rephased
  <2>6. ASSUME NEW j \in Request, RouteJob(j) PROVE MenuInv' /\ RequestInv'
    BY <1>2, <2>6, JobRouted DEF RouteJob
  <2>7. ASSUME NEW j \in Request, NEW arithmetic \in BOOLEAN, RouteExternal(j, arithmetic)
        PROVE  MenuInv' /\ RequestInv'
    BY <1>2, <2>7, ExternalRouted DEF RouteExternal
  <2>8. ASSUME NEW j \in Request, NEW t \in NewCall, NEW name \in ToolNames,
               NEW arithmetic \in BOOLEAN, CallTool(j, t, name, arithmetic)
        PROVE  MenuInv' /\ RequestInv'
    BY <1>2, <2>2, <2>8, ToolCalled DEF CallTool
  <2> QED
    BY <1>4, <2>1, <2>3, <2>4, <2>5, <2>6, <2>7, <2>8 DEF RouteStep
<1>5. CASE FailureStep
  <2>1. CASE RoutesLost
    <3>1. registry' = {} /\ UNCHANGED menu
      BY <2>1 DEF RoutesLost
    <3>2. MenuInv'
      BY <3>1 DEF MenuInv
    <3> QED
      BY <2>1, <3>2, RequestsLost
  <2>2. CASE UNCHANGED routeVars
    BY <1>1, <2>2 DEF routeVars
  <2> QED
    BY <1>5, <2>1, <2>2 DEF FailureStep
<1>6. CASE UNCHANGED vars \/ AnswerStep \/ PageStep
  BY <1>1, <1>6 DEF vars, AnswerStep, PageStep, routeVars
<1>7. ASSUME NEW t \in Call, CallStep(t) PROVE UNCHANGED catalogVars
  BY <1>7 DEF CallStep
<1>8. CASE AgentStep \/ OutsideStep
  BY <1>1, <1>8 DEF AgentStep, OutsideStep, routeVars
<1>9. ASSUME NEW q \in Question, JobStep(q) PROVE UNCHANGED catalogVars
  BY <1>9 DEF JobStep, routeVars
<1>10. ASSUME NEW a \in Asker, ClientStep(a) PROVE UNCHANGED catalogVars
  BY <1>10 DEF ClientStep, routeVars
<1>11. ASSUME NEW r \in Runner, BotStep(r) PROVE UNCHANGED catalogVars
  BY <1>11 DEF BotStep, routeVars
<1> QED
  BY <1>1, <1>4, <1>5, <1>6, <1>7, <1>8, <1>9, <1>10, <1>11 DEF Next

LEMMA RouteInvAlways == Spec => [](MenuInv /\ RequestInv)
<1>1. Init => MenuInv /\ RequestInv
  <2> SUFFICES ASSUME Init PROVE MenuInv /\ RequestInv
    OBVIOUS
  <2>1. /\ registry = {} /\ menu = [p \in PageName |-> Opened(p)]
        /\ request = [j \in Request |-> NotRequested]
    BY DEF Init, CatalogInit
  <2>2. \A p \in PageName : Opened(p) \in MenuType
    BY OpenedOk DEF MenuOk
  <2> QED
    BY <2>1, <2>2, OpenedOk DEF MenuInv, RequestInv, RequestOk
<1>2. CallsInv /\ UncalledInv /\ MenuInv /\ RequestInv /\ [Next]_vars => MenuInv' /\ RequestInv'
  BY RouteInvNext
<1> QED
  BY <1>1, <1>2, CallsInvAlways, UncalledAlways, PTL DEF Spec

\* PromptsGoWhereShown of Assistant: a prompt leaves the network only if it was
\* shown to and its user warned, and a page gets what it asks for, whichever
\* workers came and went between the list, the choice and the job.
THEOREM PromptsStayInside == Spec => []PromptsGoWhereShown
<1>1. RequestInv => PromptsGoWhereShown
  <2> SUFFICES ASSUME RequestInv, NEW j \in Request, request[j].phase # "none"
               PROVE  /\ request[j].left => request[j].warned /\ (request[j].marked \/ request[j].kind = "agent")
                      /\ request[j].made # "none" =>
                           (request[j].made = "image" <=> request[j].page = "create")
    BY DEF PromptsGoWhereShown
  <2>1. request[j] \in Requested /\ RequestOk(request[j])
    BY DEF RequestInv, RequestOk, NotRequested
  <2>2. request[j].left \in BOOLEAN /\ request[j].warned \in BOOLEAN /\ request[j].marked \in BOOLEAN
    BY <2>1 DEF Requested
  <2>3. /\ request[j].left = TRUE =>
             request[j].warned = TRUE /\ (request[j].marked = TRUE \/ request[j].kind = "agent")
        /\ request[j].made # "none" => (request[j].made = "image" <=> request[j].page = "create")
    BY <2>1 DEF RequestOk, NotRequested
  <2> QED
    BY <2>2, <2>3
<1> QED
  BY <1>1, RouteInvAlways, PTL

-----------------------------------------------------------------------------
(***************************************************************************)
(* The types of everything.                                                *)
(***************************************************************************)
\* What X and the link panel keep.
LinkTypes ==
    /\ replies \in [DOMAIN Mentions -> Nat]
    /\ linkedTo \in [Code -> Handle \cup {NoHandle}]
    /\ linkPanel.phase \in {"idle", "creating", "error"}

LinkMove ==
    \/ \E r \in Runner : TakeMention(r) \/ Reply(r)
    \/ /\ \/ \E c \in Code : StartLink(c)
          \/ StartLinkFails \/ LoadStatus
       /\ UNCHANGED <<replies, linkedTo>>

LEMMA LinkMoves == [Next]_vars => [LinkMove]_<<replies, linkedTo, linkPanel>>
<1> SUFFICES ASSUME [Next]_vars PROVE LinkMove \/ UNCHANGED <<replies, linkedTo, linkPanel>>
  OBVIOUS
<1> USE DEF botVars
<1>1. CASE UNCHANGED vars
  BY <1>1 DEF vars
<1>2. CASE AnswerStep \/ RouteStep \/ PageStep
  BY <1>2 DEF AnswerStep, RouteStep, PageStep
<1>3. CASE FailureStep \/ AgentStep
  BY <1>3 DEF FailureStep, AgentStep
<1>4. ASSUME NEW t \in Call, CallStep(t) PROVE UNCHANGED botVars
  BY <1>4 DEF CallStep
<1>5. ASSUME NEW q \in Question, JobStep(q) PROVE UNCHANGED botVars
  BY <1>5 DEF JobStep
<1>6. ASSUME NEW a \in Asker, ClientStep(a) PROVE UNCHANGED botVars
  BY <1>6 DEF ClientStep
<1>7. ASSUME OutsideStep PROVE LinkMove \/ UNCHANGED <<replies, linkedTo, linkPanel>>
  BY <1>7, FreshCode DEF OutsideStep, Mentioned, Midnight, LinkMove, StartLink, StartLinkFails, LoadStatus
<1>8. ASSUME NEW r \in Runner, BotStep(r) PROVE LinkMove \/ UNCHANGED <<replies, linkedTo, linkPanel>>
  <2>1. CASE StartRun(r) \/ Die(r)
    BY <2>1 DEF StartRun, Die
  <2>2. CASE FetchMentions(r) \/ EndRun(r)
    BY <2>2 DEF FetchMentions, EndRun
  <2>3. CASE Gated(r) \/ Accept(r) \/ Proved(r)
    BY <2>3 DEF Gated, Accept, Proved
  <2> QED
    BY <1>8, <2>1, <2>2, <2>3 DEF BotStep, RunStep, LinkMove
<1> QED
  BY <1>1, <1>2, <1>3, <1>4, <1>5, <1>6, <1>7, <1>8 DEF Next

LEMMA LinkTypesNext ==
    ASSUME RunInv, CodeInv, LinkTypes, [LinkMove]_<<replies, linkedTo, linkPanel>>
    PROVE  LinkTypes'
<1>1. CASE UNCHANGED <<replies, linkedTo, linkPanel>>
  BY <1>1 DEF LinkTypes
<1>2. ASSUME NEW r \in Runner, TakeMention(r) PROVE LinkTypes'
  <2> DEFINE t == Head(run[r].todo)
             h == Mentions[t].handle
             cmd == Command(Mentions[t])
  <2>1. t \in DOMAIN Mentions
    <3>1. run[r].todo \in Seq(1 .. posted) /\ run[r].todo # <<>>
      BY <1>2 DEF TakeMention, RunInv, RunOk
    <3>2. t \in 1 .. posted /\ posted \in 0 .. Len(Mentions)
      BY <3>1, HeadTailProperties DEF RunInv
    <3>3. DOMAIN Mentions = 1 .. Len(Mentions) /\ Len(Mentions) \in Nat
      BY XBotAssumption, LenProperties
    <3> QED
      BY <3>2, <3>3
  <2>2. h \in Handle
    <3> DEFINE M == [handle : Handle, code : Code \cup {NoCode},
                     slash : {"none", "/help", "/prove"}, body : BOOLEAN]
    <3>1. Mentions \in Seq(M)
      BY XBotAssumption
    <3>2. \A m \in M : m.handle \in Handle
      OBVIOUS
    <3> HIDE DEF M
    <3>3. Mentions[t] \in M
      BY <2>1, <3>1
    <3> QED
      BY <3>2, <3>3
  <2>3. UNCHANGED <<replies, linkPanel>> /\ (UNCHANGED linkedTo \/ Bind(cmd, h))
    BY <1>2 DEF TakeMention
  <2> HIDE DEF h, cmd
  <2>4. linkedTo' \in [Code -> Handle \cup {NoHandle}]
    BY <2>2, <2>3 DEF LinkTypes, Bind
  <2> QED
    BY <2>3, <2>4 DEF LinkTypes
<1>3. ASSUME NEW r \in Runner, Reply(r) PROVE LinkTypes'
  <2>1. UNCHANGED <<linkedTo, linkPanel>>
        /\ replies' \in {replies, [replies EXCEPT ![Head(run[r].todo)] = @ + 1]}
    BY <1>3 DEF Reply
  <2>2. replies' \in [DOMAIN Mentions -> Nat]
    BY <2>1 DEF LinkTypes
  <2> QED
    BY <2>1, <2>2 DEF LinkTypes
<1>4. ASSUME NEW c \in Code, StartLink(c), UNCHANGED <<replies, linkedTo>> PROVE LinkTypes'
  BY <1>4 DEF StartLink, LinkTypes, CodeInv
<1>5. ASSUME StartLinkFails \/ LoadStatus, UNCHANGED <<replies, linkedTo>> PROVE LinkTypes'
  BY <1>5 DEF StartLinkFails, LoadStatus, LinkTypes, CodeInv
<1> QED
  BY <1>1, <1>2, <1>3, <1>4, <1>5 DEF LinkMove

LEMMA LinkTypesAlways == Spec => []LinkTypes
<1>1. Init => CodeInv /\ LinkTypes
  BY CodeInvInit DEF Init, BotInit, LinkTypes
<1>2. RunInv /\ CodeInv /\ LinkTypes /\ [Next]_vars => CodeInv' /\ LinkTypes'
  BY CodeMoves, CodeInvNext, LinkMoves, LinkTypesNext
<1> QED
  BY <1>1, <1>2, RunInvAlways, PTL DEF Spec

\* As many conversations are listed as there are in the list.
LEMMA ListedOnce ==
    ASSUME NEW s \in Seq(Convo), Distinct(s)
    PROVE  Cardinality(Elements(s)) = Len(s)
<1> DEFINE f == [i \in 1 .. Len(s) |-> s[i]]
<1>1. Len(s) \in Nat /\ \A x \in Elements(s) : \E i \in 1 .. Len(s) : f[i] = x
  BY DEF Elements
<1>2. f \in Bijection(1 .. Len(s), Elements(s))
  <2>1. f \in [1 .. Len(s) -> Elements(s)]
    BY DEF Elements
  <2>2. \A i, j \in 1 .. Len(s) : f[i] = f[j] => i = j
    BY DEF Distinct
  <2> QED
    <3> HIDE DEF f
    <3> QED
      BY <1>1, <2>1, <2>2 DEF Bijection, Injection, IsInjective, Surjection
<1> HIDE DEF f
<1> QED
  BY <1>1, <1>2, FS_CountingElements DEF ExistsBijection

LEMMA PageTypes == PageInv =>
    /\ convos \in Seq(Convo) /\ Cardinality(Listed) = Len(convos)
    /\ activeId \in {NoConvo} \cup Listed
    /\ place \in [Question -> Convo \cup {NoConvo}]
    /\ msg \in [Question -> {"none", "streaming", "answered", "failed", "gone"}]
    /\ sockets \subseteq jobConvo /\ jobConvo \subseteq Question
BY ListedIs, ListedOnce DEF PageInv

LEMMA CallTypes == CallsInv =>
    /\ projects \in Seq(Seq([asker : Asker, status : Running \cup Terminal]))
    /\ \A a \in Asker :
         /\ solve[a].phase \in {"idle", "requesting", "polling", "returned", "done"}
         /\ solve[a].project \in {NoProject} \cup DOMAIN projects
         /\ solve[a].result \in {"none", "error", "answered", "verified"}
    /\ packet \in [Question -> {"none", "job.submit", "job.done", "job.error"}]
    /\ remembered \in [Convo -> {NoProject} \cup DOMAIN projects]
    /\ \A t \in Call : tool[t].phase \in
         {"idle", "provider", "wikipedia", "duckduckgo", "aristotle", "answered", "lost"}
<1> SUFFICES ASSUME CallsInv
             PROVE  /\ projects \in Seq(Seq([asker : Asker, status : Running \cup Terminal]))
                    /\ \A a \in Asker :
                         /\ solve[a].phase \in {"idle", "requesting", "polling", "returned", "done"}
                         /\ solve[a].project \in {NoProject} \cup DOMAIN projects
                         /\ solve[a].result \in {"none", "error", "answered", "verified"}
                    /\ packet \in [Question -> {"none", "job.submit", "job.done", "job.error"}]
                    /\ remembered \in [Convo -> {NoProject} \cup DOMAIN projects]
                    /\ \A t \in Call : tool[t].phase \in
                         {"idle", "provider", "wikipedia", "duckduckgo", "aristotle", "answered", "lost"}
  OBVIOUS
<1>1. projects \in Seq(Thread) /\ Thread \subseteq Seq(Row)
  BY DEF CallsInv, Thread
<1>2. projects \in Seq(Seq(Row))
  BY <1>1, SeqMonotonic
<1>3. {NoProject} \cup DOMAIN projects = 0 .. Len(projects)
  BY <1>1 DEF NoProject
<1>4. \A a \in Asker : solve[a] \in Solving(Len(projects))
  BY DEF CallsInv
<1>5. \A t \in Call : tool[t] \in ToolType
  BY DEF CallsInv
<1> HIDE DEF Row
<1>6. \A a \in Asker :
        /\ solve[a].phase \in {"idle", "requesting", "polling", "returned", "done"}
        /\ solve[a].project \in 0 .. Len(projects)
        /\ solve[a].result \in {"none", "error", "answered", "verified"}
  BY <1>4 DEF Solving
<1>7. \A t \in Call : tool[t].phase \in
        {"idle", "provider", "wikipedia", "duckduckgo", "aristotle", "answered", "lost"}
  BY <1>5 DEF ToolType
<1> QED
  BY <1>2, <1>3, <1>6, <1>7 DEF Row, CallsInv, PacketType

LEMMA AnswerTypes == AnswersInv /\ StreamOk =>
    /\ \A p \in Prompt :
         /\ job[p].state \in {"none", "queued", "assigned", "over"}
         /\ said[p] \in {"none", "waiting", "done", "error"}
         /\ made[p].n \in 0 .. Size[p] /\ shown[p] \in Seq(1 .. Size[p])
    /\ \A c \in Conn :
         /\ reg[c] \in {"none", "idle", "busy"}
         /\ link[c].state \in {"unused", "open", "half", "closing", "gone"}
    /\ tab.phase \in {"idle", "loading", "online", "error"} /\ tab.closed \subseteq tab.created
<1> SUFFICES ASSUME AnswersInv, StreamOk
             PROVE  /\ \A p \in Prompt :
                         /\ job[p].state \in {"none", "queued", "assigned", "over"}
                         /\ said[p] \in {"none", "waiting", "done", "error"}
                         /\ made[p].n \in 0 .. Size[p] /\ shown[p] \in Seq(1 .. Size[p])
                    /\ \A c \in Conn :
                         /\ reg[c] \in {"none", "idle", "busy"}
                         /\ link[c].state \in {"unused", "open", "half", "closing", "gone"}
                    /\ tab.phase \in {"idle", "loading", "online", "error"} /\ tab.closed \subseteq tab.created
  OBVIOUS
<1>1. ASSUME NEW p \in Prompt
      PROVE  /\ job[p].state \in {"none", "queued", "assigned", "over"}
             /\ said[p] \in {"none", "waiting", "done", "error"}
  <2>1. job[p] \in JobType
    BY DEF AnswersInv, Types, JobInv, QueuedIn
  <2>2. said[p] \in {"none", "waiting", "done", "error"}
    BY DEF AnswersInv, Types, CallerTypes
  <2> QED
    BY <2>1, <2>2 DEF JobType
<1>2. ASSUME NEW p \in Prompt
      PROVE  made[p].n \in 0 .. Size[p] /\ shown[p] \in Seq(1 .. Size[p])
  <2>1. made[p].n \in Nat
    BY DEF AnswersInv, Types, JobInv
  <2>2. Making(p) => made[p].n <= Size[p]
    BY DEF AnswersInv, PromptInv, PacketsOf
  <2>3. Size[p] \in Nat /\ (made[p].n = 0 \/ Making(p)) /\ shown[p] \in Seq(1 .. Size[p])
    BY StreamingAssumption DEF StreamOk, SentOf, Token
  <2> QED
    BY <2>1, <2>2, <2>3
<1>3. ASSUME NEW c \in Conn
      PROVE  /\ reg[c] \in {"none", "idle", "busy"}
             /\ link[c].state \in {"unused", "open", "half", "closing", "gone"}
  BY DEF AnswersInv, Types, LinkInv, StreamOk, RegType
<1>4. tab.phase \in {"idle", "loading", "online", "error"} /\ tab.closed \subseteq tab.created
  BY DEF AnswersInv, Types, LinkInv, TabType, StreamOk
<1> QED
  BY <1>1, <1>2, <1>3, <1>4

LEMMA RouteTypes == MenuInv /\ RequestInv =>
    /\ registry \subseteq Host
    /\ \A p \in PageName : menu[p].chosen \in menu[p].models
    /\ \A j \in Request : request[j].phase \in {"none", "sent", "agent", "tool", "over"}
<1>1. \A j : RequestOk(j) => j.phase \in {"none", "sent", "agent", "tool", "over"}
  BY DEF RequestOk, NotRequested, Requested
<1> QED
  BY <1>1 DEF MenuInv, MenuOk, RequestInv

\* TypeOK of Assistant: among the rest, no conversation is listed twice, every project
\* that a call or a conversation goes on with was created, no more tokens are made than
\* the answer has, and a page's model is one of those it offers.
THEOREM AssistantTypeCorrect == Spec => []TypeOK
<1>1. StatusInv => \A t \in DOMAIN Mentions :
        requests[t].status \in {"none", "accepted", "rejected", "replied", "failed"}
  BY DEF StatusInv
<1>2. RunInv => posted \in 0 .. Len(Mentions) /\ cursor \in 0 .. posted
  BY DEF RunInv
<1>3. RunInv /\ PageInv /\ CallsInv /\ StatusInv /\ LinkTypes /\ AnswersInv /\ StreamOk
        /\ MenuInv /\ RequestInv => TypeOK
  BY <1>1, <1>2, PageTypes, CallTypes, AnswerTypes, RouteTypes, Zenon DEF LinkTypes, TypeOK
<1> QED
  BY <1>3, CallsInvAlways, StatusInvAlways, LinkTypesAlways, StreamTypes, RouteInvAlways, PTL
=============================================================================
