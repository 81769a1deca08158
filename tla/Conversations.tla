--------------------------- MODULE Conversations ---------------------------
(***************************************************************************)
(* The chat page (app/chat/page.tsx) asking the verified-math model: its    *)
(* conversations, the /infer handler with runAristotleJob, the project      *)
(* remembered per conversation (aristotle_projects) and the attestations    *)
(* of the answers (attest.ts).  The money of the job is in Engine.          *)
(*                                                                         *)
(* One user with one page.  A question stands for its job id and the text   *)
(* that is sent with it.                                                   *)
(***************************************************************************)
EXTENDS Aristotle, Attest, SequencesExt

CONSTANTS
    Question,   \* questions that may be sent
    Convo,      \* conversation ids
    NoConvo,
    Stored      \* conversations localStorage keeps (50 in the source)

ASSUME ConversationsAssumption ==
    /\ Question \subseteq Asker
    /\ NoConvo \notin Convo
    /\ Stored \in Nat \ {0}

VARIABLES
    convos,     \* the page's conversations, newest first
    activeId,   \* the one that is open
    place,      \* place[q]: the conversation q was sent in
    msg,        \* the answer to q as the page shows it
    jobConvo,   \* the questions whose place the page has in memory
    sockets,    \* the questions whose connection is the page's present one
    packet,     \* what is under way on it: a submission or its last event
    remembered  \* aristotle_projects

pageVars == <<convos, activeId, place, msg, jobConvo, sockets>>
chatVars == <<pageVars, packet, remembered, attestVars>>

\* A run of the version before, of which nothing else is left.
LegacyRun == 0
LegacyRecords == {Payload(LegacyRun, NoProject, FALSE)}

ChatInit ==
    /\ convos = <<>>
    /\ activeId = NoConvo
    /\ place = [q \in Question |-> NoConvo]
    /\ msg = [q \in Question |-> "none"]
    /\ jobConvo = {}
    /\ sockets = {}
    /\ packet = [q \in Question |-> "none"]
    /\ remembered = [c \in Convo |-> NoProject]
    /\ AttestInit(LegacyRecords)

Listed == {convos[i] : i \in DOMAIN convos}

NewChat ==
    /\ activeId' = NoConvo
    /\ UNCHANGED <<ariVars, convos, place, msg, jobConvo, sockets,
                   packet, remembered, attestVars>>

OpenChat(c) ==
    /\ activeId' = c
    /\ UNCHANGED <<ariVars, convos, place, msg, jobConvo, sockets,
                   packet, remembered, attestVars>>

\* Answers go with their conversation.
Forget(kept) ==
    msg' = [q \in Question |->
              IF place[q] \in Listed \ kept THEN "gone" ELSE msg[q]]

\* Mutant of DeleteChat: the deleted conversation stays open.
MutDeleteChat(c) ==
    /\ \E i \in DOMAIN convos : convos[i] = c /\ convos' = RemoveAt(convos, i)
    /\ Forget(Listed \ {c})
    /\ UNCHANGED <<ariVars, activeId, place, jobConvo, sockets, packet, remembered, attestVars>>

DeleteChat(c) ==
    /\ \E i \in DOMAIN convos : convos[i] = c /\ convos' = RemoveAt(convos, i)
    /\ activeId' = IF activeId # c THEN activeId
                   ELSE IF convos' = <<>> THEN NoConvo ELSE Head(convos')
    /\ Forget(Listed \ {c})
    /\ UNCHANGED <<ariVars, place, jobConvo, sockets, packet, remembered, attestVars>>

\* Ids are fresh; which one is taken does not matter.
FreshJobs == {q \in Question : place[q] = NoConvo}
FreshIds == {c \in Convo : \A q \in Question : place[q] # c}

\* send: into the open conversation, or a new one, with its answer streaming.
Send(q) ==
    /\ q \in FreshJobs /\ q = CHOOSE p \in FreshJobs : TRUE
    /\ \/ activeId \in Listed /\ UNCHANGED <<convos, activeId>>
       \/ /\ activeId \notin Listed /\ FreshIds # {}
          /\ activeId' = CHOOSE c \in FreshIds : TRUE
          /\ convos' = <<activeId'>> \o convos
    /\ place' = [place EXCEPT ![q] = activeId']
    /\ msg' = [msg EXCEPT ![q] = "streaming"]
    /\ jobConvo' = jobConvo \cup {q}
    /\ sockets' = sockets \cup {q}
    /\ packet' = [packet EXCEPT ![q] = "job.submit"]
    /\ UNCHANGED <<ariVars, remembered, attestVars>>

\* The sink emits to the connection the job came from, whatever became of it.
Emit(q, event) == packet' = [packet EXCEPT ![q] = IF q \in sockets THEN event ELSE "none"]

\* Mutant of ThreadOf: one project per user, whatever the conversation.
MutThreadOf(q) ==
    IF \A c \in Convo : remembered[c] = NoProject THEN NoProject
    ELSE remembered[CHOOSE c \in Convo : remembered[c] # NoProject]

\* aristotleProjectFor
ThreadOf(q) == remembered[place[q]]

\* job.submit: refused or answered locally at once, or solved.
Serve(q) ==
    /\ packet[q] = "job.submit"
    /\ \/ Emit(q, "job.error") /\ UNCHANGED solve
       \/ Emit(q, "job.done") /\ UNCHANGED solve
       \/ Solve(q, ThreadOf(q)) /\ packet' = [packet EXCEPT ![q] = "none"]
    /\ UNCHANGED <<projects, pageVars, remembered, attestVars>>

\* The signed record of q's run.
Record(q) ==
    /\ Attested(Payload(q, solve[q].project, solve[q].result = "verified"))
    /\ UNCHANGED <<envKey, setting, key>>

Remember(q) ==
    remembered' = IF solve[q].project = NoProject THEN remembered
                  ELSE [remembered EXCEPT ![place[q]] = solve[q].project]

\* Mutant of Finish: a failed solve says nothing.
MutFinish(q) ==
    /\ solve[q].phase = "returned"
    /\ solve' = [solve EXCEPT ![q] = Done]
    /\ Remember(q)
    /\ IF solve[q].result = "error"
       THEN UNCHANGED <<packet, attestVars>>
       ELSE Emit(q, "job.done") /\ Record(q)
    /\ UNCHANGED <<projects, pageVars>>

\* runAristotleJob after its await: remember the project, then refund and tell,
\* or attest, settle and tell.
Finish(q) ==
    /\ solve[q].phase = "returned"
    /\ solve' = [solve EXCEPT ![q] = Done]
    /\ Remember(q)
    /\ \/ /\ solve[q].result = "error"
          /\ Emit(q, "job.error")
          /\ UNCHANGED attestVars
       \/ /\ solve[q].result # "error"
          /\ Emit(q, "job.done")
          /\ Record(q)
    /\ UNCHANGED <<projects, pageVars>>

\* patchMsg on job.done or job.error: only a message whose job the page still
\* has in memory, in a conversation it still has.
Deliver(q) ==
    /\ packet[q] \in {"job.done", "job.error"}
    /\ packet' = [packet EXCEPT ![q] = "none"]
    /\ msg' = IF q \in jobConvo /\ place[q] \in Listed
              THEN [msg EXCEPT ![q] = IF packet[q] = "job.done" THEN "answered" ELSE "failed"]
              ELSE msg
    /\ UNCHANGED <<ariVars, convos, activeId, place, jobConvo, sockets, remembered, attestVars>>

Disconnected ==
    /\ sockets' = {}
    /\ packet' = [q \in Question |-> "none"]

\* The connection is lost and replaced; the page keeps its memory.
Reconnect ==
    /\ Disconnected
    /\ UNCHANGED <<ariVars, convos, activeId, place, msg, jobConvo, remembered, attestVars>>

\* The page is left and opened again: what localStorage has, no jobConvo.
Reload ==
    /\ Disconnected
    /\ jobConvo' = {}
    /\ convos' = SubSeq(convos, 1, IF Len(convos) < Stored THEN Len(convos) ELSE Stored)
    /\ activeId' = IF convos = <<>> THEN NoConvo ELSE Head(convos)
    /\ Forget({convos'[i] : i \in DOMAIN convos'})
    /\ UNCHANGED <<ariVars, place, remembered, attestVars>>

\* The orchestrator dies, and the calls of solve it made with it; it starts
\* again, perhaps with another key in its environment.
Restart(env, calls) ==
    /\ Disconnected
    /\ Boot(env)
    /\ solve' = [a \in Asker |->
                   IF a \in calls /\ solve[a].phase \in {"requesting", "polling", "returned"}
                   THEN Done ELSE solve[a]]
    /\ UNCHANGED <<projects, convos, activeId, place, msg, jobConvo, remembered>>
=============================================================================
