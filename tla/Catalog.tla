------------------------------ MODULE Catalog -------------------------------
(***************************************************************************)
(* Where a prompt goes.  Workers come and go with the models they have      *)
(* (registry.ts); a page loads the list of models once, when it is opened   *)
(* (/v1/models), and submits to the one chosen; the server sends the job to *)
(* a worker, runs an agent on one, or asks Aristotle, which is outside the  *)
(* network and of which the user is warned.                                *)
(***************************************************************************)
EXTENDS Tools

CONSTANTS
    Host,       \* workers
    Models,     \* Models[h]: the models h registers
    Images,     \* Images[h]: its image models
    Agents,     \* the workers that have the capability "agent"
    External,   \* ARISTOTLE_MODEL
    EchoModel, ImageModel,  \* what the pages offer at first
    Request     \* jobs that may be submitted

ASSUME CatalogAssumption ==
    /\ Agents \subseteq Host
    \* As the workers there are register, a model makes images on every worker
    \* that has it or on none, and none has the external one.
    /\ \A h, i \in Host : Images[h] \cap Models[i] \subseteq Images[i]
    /\ \A h \in Host : External \notin Models[h]
    \* What the chat page offers at first makes no images, nor is either page's
    \* first model the external one.
    /\ \A h \in Host : EchoModel \notin Images[h]
    /\ External \notin {EchoModel, ImageModel}

VARIABLES
    registry,   \* the workers registered
    menu,       \* menu[p]: the models page p offers and the one chosen
    request         \* request[j]: job j, what its user was told, and where it went

catalogVars == <<registry, menu, request>>

PageName == {"chat", "create"}
NotRequested == [phase |-> "none"]

\* A page as it opens, before the list arrives.
Opened(p) ==
    LET m == IF p = "chat" THEN EchoModel ELSE ImageModel
    IN  [models |-> {m}, external |-> {}, chosen |-> m]

CatalogInit ==
    /\ registry = {}
    /\ menu = [p \in PageName |-> Opened(p)]
    /\ request = [j \in Request |-> NotRequested]

Register(h) ==
    /\ h \notin registry
    /\ registry' = registry \cup {h}
    /\ UNCHANGED <<menu, request>>

Unregister(h) ==
    /\ h \in registry
    /\ registry' = registry \ {h}
    /\ UNCHANGED <<menu, request>>

OpenMenu(p) ==
    /\ menu' = [menu EXCEPT ![p] = Opened(p)]
    /\ UNCHANGED <<registry, request>>

\* modelCatalog: a model is of kind image if any worker says so.
Listing == UNION {Models[h] : h \in registry}
ImageListing == UNION {Images[h] : h \in registry}

\* Mutant of OfferedTo: the chat page does not look at the kind.
MutOfferedTo(p) ==
    IF p = "create" THEN Listing \cap ImageListing
    ELSE Listing \cup (IF enabled THEN {External} ELSE {})

\* /v1/models, filtered by the page.
OfferedTo(p) ==
    IF p = "create" THEN Listing \cap ImageListing
    ELSE (Listing \ ImageListing) \cup (IF enabled THEN {External} ELSE {})

\* The list arrives; a page that gets none keeps what it had.
LoadMenu(p) ==
    /\ menu[p] = Opened(p)
    /\ OfferedTo(p) # {}
    /\ \E chosen \in OfferedTo(p) :
         /\ menu[p].chosen \in OfferedTo(p) => chosen = menu[p].chosen
         /\ menu' = [menu EXCEPT ![p] =
              [models |-> OfferedTo(p), external |-> OfferedTo(p) \cap {External},
               chosen |-> chosen]]
    /\ UNCHANGED <<registry, request>>

Choose(p, m) ==
    /\ m \in menu[p].models
    /\ menu' = [menu EXCEPT ![p].chosen = m]
    /\ UNCHANGED <<registry, request>>

\* send and generate; marked is the pill next to the model chosen.
SubmitRequest(j, p, kind) ==
    /\ request[j].phase = "none"
    /\ kind = "image" <=> p = "create"
    /\ request' = [request EXCEPT ![j] =
         [phase |-> "sent", page |-> p, kind |-> kind, model |-> menu[p].chosen,
          marked |-> menu[p].chosen \in menu[p].external,
          warned |-> FALSE, left |-> FALSE, call |-> {}, made |-> "none"]]
    /\ UNCHANGED <<registry, menu>>

\* job.submit for the external model: arithmetic is answered here, anything
\* else after a step that warns of it; without a key nothing is sent.
RouteExternal(j, arithmetic) ==
    /\ request[j].phase = "sent" /\ request[j].model = External
    /\ request' = [request EXCEPT ![j].phase = "over", ![j].warned = ~arithmetic,
                              ![j].left = ~arithmetic /\ enabled]
    /\ UNCHANGED <<registry, menu>>

\* AgentEngine.run: a capable worker now, or none.
RouteAgent(j) ==
    /\ request[j].phase = "sent" /\ request[j].model # External /\ request[j].kind = "agent"
    /\ request' = [request EXCEPT ![j].phase =
         IF \E h \in registry \cap Agents : request[j].model \in Models[h]
         THEN "agent" ELSE "over"]
    /\ UNCHANGED <<registry, menu>>

\* A turn asks for a tool, of which toolLabel warns.
CallTool(j, t, name, arithmetic) ==
    /\ request[j].phase = "agent"
    /\ ExecuteTool(t, name, arithmetic)
    /\ request' = [request EXCEPT ![j].phase = "tool", ![j].call = {t},
                              ![j].warned = @ \/ name = "verified_math",
                              ![j].left = @ \/ solve'[t].phase = "requesting"]
    /\ UNCHANGED <<registry, menu>>

\* The result goes into the agent's next turn.
ToolReturns(j) ==
    /\ request[j].phase = "tool"
    /\ \A t \in request[j].call : tool[t].phase = "answered"
    /\ request' = [request EXCEPT ![j].phase = "agent"]
    /\ UNCHANGED <<registry, menu>>

\* The final answer, the step limit, or a turn that fails.
EndAgent(j) ==
    /\ request[j].phase = "agent"
    /\ request' = [request EXCEPT ![j].phase = "over"]
    /\ UNCHANGED <<registry, menu>>

\* engine.submit and the worker: job.dispatch makes an image of an image job or
\* of whatever it gets for its image model.  Or no worker takes the job.
RouteJob(j) ==
    /\ request[j].phase = "sent" /\ request[j].model # External /\ request[j].kind # "agent"
    /\ \/ \E h \in registry :
            /\ request[j].model \in Models[h]
            /\ request' = [request EXCEPT ![j].phase = "over", ![j].made =
                 IF request[j].kind = "image" \/ request[j].model \in Images[h]
                 THEN "image" ELSE "text"]
       \/ request' = [request EXCEPT ![j].phase = "over"]
    /\ UNCHANGED <<registry, menu>>

\* The orchestrator's process ends, with the jobs and calls it had.
RoutesLost ==
    /\ registry' = {}
    /\ request' = [j \in Request |->
         IF request[j].phase = "none" THEN NotRequested ELSE [request[j] EXCEPT !.phase = "over"]]
    /\ tool' = [t \in Call |->
         IF tool[t].phase \in {"idle", "answered"} THEN tool[t] ELSE Working("lost")]
    /\ UNCHANGED <<menu, keyed, enabled>>
=============================================================================
