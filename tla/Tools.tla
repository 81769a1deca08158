------------------------------- MODULE Tools --------------------------------
(***************************************************************************)
(* The tools of the agent (tools.ts).  A call answers with a text, whatever *)
(* becomes of the services behind it: a search asks the configured provider *)
(* or, without a key, Wikipedia and then DuckDuckGo; verified_math asks     *)
(* Aristotle, in a project of its own, unless the problem is arithmetic.    *)
(* Texts are abstracted to what they say of themselves.                    *)
(***************************************************************************)
EXTENDS Aristotle

CONSTANT Call   \* the tool calls agents may make

ASSUME ToolsAssumption == Call \subseteq Asker

VARIABLES
    tool,       \* tool[t]: where call t is, and its result
    keyed,      \* a key of Tavily, Brave or Serper is set
    enabled     \* ARISTOTLE_API_KEY is set

toolVars == <<tool, keyed, enabled>>

ToolNames == {"calculator", "web_search", "verified_math", "unknown"}

NotCalled == [phase |-> "idle", result |-> "none"]

ToolsInit ==
    /\ tool = [t \in Call |-> NotCalled]
    /\ keyed \in BOOLEAN
    /\ enabled \in BOOLEAN

Working(phase) == [phase |-> phase, result |-> "none"]
Answer(text) == [phase |-> "answered", result |-> text]

\* safeArithmetic: a number, or null.
Value(arithmetic) == IF arithmetic THEN "value" ELSE "null"

\* executeTool up to its first await.  An argument is arithmetic or it is not;
\* the model may name a tool that there is not, or that is not offered.
ExecuteTool(t, name, arithmetic) ==
    /\ tool[t].phase = "idle"
    /\ \/ /\ name = "calculator"
          /\ tool' = [tool EXCEPT ![t] = Answer(Value(arithmetic))]
          /\ UNCHANGED solve
       \/ /\ name = "web_search"
          /\ tool' = [tool EXCEPT ![t] = Working(IF keyed THEN "provider" ELSE "wikipedia")]
          /\ UNCHANGED solve
       \/ /\ name = "verified_math" /\ arithmetic
          /\ tool' = [tool EXCEPT ![t] = Answer("value")]
          /\ UNCHANGED solve
       \/ /\ name = "verified_math" /\ ~arithmetic /\ ~enabled
          /\ tool' = [tool EXCEPT ![t] = Answer("unavailable")]
          /\ UNCHANGED solve
       \/ /\ name = "verified_math" /\ ~arithmetic /\ enabled
          /\ tool' = [tool EXCEPT ![t] = Working("aristotle")]
          /\ Solve(t, NoProject)
       \/ /\ name = "unknown"
          /\ tool' = [tool EXCEPT ![t] = Answer("unknown")]
          /\ UNCHANGED solve
    /\ UNCHANGED <<projects, keyed, enabled>>

\* tavily, brave, serper: results, none, or an error or time-out, which
\* webSearch catches.
ProviderAnswers(t) ==
    /\ tool[t].phase = "provider"
    /\ \E text \in {"results", "no results", "search failed"} :
         tool' = [tool EXCEPT ![t] = Answer(text)]
    /\ UNCHANGED <<ariVars, keyed, enabled>>

\* keyless: Wikipedia; without results, errors included, DuckDuckGo.
WikipediaAnswers(t) ==
    /\ tool[t].phase = "wikipedia"
    /\ tool' = [tool EXCEPT ![t] = Answer("results")] \/
       tool' = [tool EXCEPT ![t] = Working("duckduckgo")]
    /\ UNCHANGED <<ariVars, keyed, enabled>>

DuckDuckGoAnswers(t) ==
    /\ tool[t].phase = "duckduckgo"
    /\ \E text \in {"results", "no results"} : tool' = [tool EXCEPT ![t] = Answer(text)]
    /\ UNCHANGED <<ariVars, keyed, enabled>>

\* What the text says of solve's result.
Claimed(result) == IF result = "error" THEN "unavailable" ELSE result

\* executeTool after solve.
AristotleAnswers(t) ==
    /\ tool[t].phase = "aristotle"
    /\ solve[t].phase = "returned"
    /\ tool' = [tool EXCEPT ![t] = Answer(Claimed(solve[t].result))]
    /\ solve' = [solve EXCEPT ![t].phase = "done"]
    /\ UNCHANGED <<projects, keyed, enabled>>

ToolStep(t) ==
    ProviderAnswers(t) \/ WikipediaAnswers(t) \/ DuckDuckGoAnswers(t) \/ AristotleAnswers(t)
=============================================================================
