---------------------------- MODULE AssistantMC -----------------------------
(***************************************************************************)
(* Instances of Assistant for TLC: workloads of the chat, of the bot, and   *)
(* of both.                                                                *)
(***************************************************************************)
EXTENDS Assistant, TLC

CONSTANTS q1, q2, q3, ann, bob, L1, a1, a2, t1, t2, native, echoing, tab1, llm, pic, echo

MCQuestion == {q1, q2, q3}

Tweet(h, code, slash, body) == [handle |-> h, code |-> code, slash |-> slash, body |-> body]

MCMentions == <<
    Tweet(ann, L1, "/prove", TRUE),
    Tweet(ann, NoCode, "/prove", TRUE),
    Tweet(ann, NoCode, "/prove", TRUE),
    Tweet(bob, L1, "none", TRUE),
    Tweet(bob, NoCode, "/prove", FALSE),
    Tweet(ann, NoCode, "none", TRUE)>>

MCWay == (a1 :> "chat") @@ (a2 :> "json")
MCSize == (a1 :> 2) @@ (a2 :> 1)

MCCall == {t1, t2}
MCModels == (native :> {llm, echo, pic}) @@ (echoing :> {echo, pic}) @@ (tab1 :> {llm})
MCImages == (native :> {pic}) @@ (echoing :> {pic}) @@ (tab1 :> {})

MCAsker == MCQuestion \cup MCCall \cup (Runner \X DOMAIN MCMentions)

Load(most) == [op \in Op |-> IF op \in DOMAIN most THEN most[op] ELSE 0]

\* The chat.
Asking == Load([send |-> 2, navigate |-> 1, outcome |-> 1])
Threading == Load([send |-> 3, outcome |-> 1])
Retrying == Load([send |-> 2, fault |-> 1, outcome |-> 1])
Leaving == Load([send |-> 2, navigate |-> 2, reload |-> 1])
Failing == Load([send |-> 1, navigate |-> 1, fault |-> 1, reconnect |-> 1, reload |-> 1,
                 restart |-> 1, outcome |-> 1])
Rotating == Load([send |-> 1, rotate |-> 3, outcome |-> 1])

\* The bot.
Dying == Load([mention |-> 3, link |-> 1, run |-> 2, death |-> 1, day |-> 1])
Proving == Load([mention |-> 3, link |-> 1, run |-> 2, fault |-> 1, outcome |-> 1])
Helping == Load([mention |-> 6, link |-> 1, run |-> 2])
Linking == Load([mention |-> 3, link |-> 4, run |-> 2])
Both == Load([send |-> 1, mention |-> 2, link |-> 1, run |-> 1, outcome |-> 2])

\* Answers of workers.
Answering == Load([ask |-> 2, start |-> 1, drop |-> 1])
TwoSockets == Load([ask |-> 1, start |-> 2, drop |-> 1])
Leaking == Load([ask |-> 1, start |-> 2, stop |-> 1, drop |-> 1])
Stopping == Load([ask |-> 1, start |-> 1, stop |-> 1, drop |-> 1])
CutOff == Load([ask |-> 1, start |-> 1, cut |-> 1])

\* Prompts, models and agents.
Choosing == Load([host |-> 3, menu |-> 3, submit |-> 1])
Agenting == Load([host |-> 1, submit |-> 1, tool |-> 2, outcome |-> 1])
AgentDies == Load([host |-> 1, submit |-> 1, tool |-> 1, outcome |-> 1, restart |-> 1, fault |-> 1])

MCWorkload ==
    {Asking, Threading, Retrying, Leaving, Failing, Rotating, Dying, Proving, Helping, Linking, Both,
     Answering, TwoSockets, Leaking, Stopping, CutOff, Choosing, Agenting, AgentDies}
Following == {Load([send |-> 2, outcome |-> 1])}
Overlapping == {Load([mention |-> 2, link |-> 1, run |-> 2])}
=============================================================================
