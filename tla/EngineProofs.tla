---------------------------- MODULE EngineProofs ----------------------------
(***************************************************************************)
(* Proofs about Engine, for every set of jobs, workers and connections,    *)
(* every price list entry and every number of restarts.                    *)
(***************************************************************************)
EXTENDS Engine, CreditsProofs, SequenceTheorems

-----------------------------------------------------------------------------
(***************************************************************************)
(* Amounts and rows.                                                       *)
(***************************************************************************)
LEMMA ReserveForType == \A j \in Job : ReserveFor(j) \in Nat
<1> SUFFICES ASSUME NEW j \in Job PROVE ReserveFor(j) \in Nat
  OBVIOUS
<1>1. JobKind[j] \in Kind /\ PromptTokens[j] + MaxTokens[j] \in Nat
  BY JobAssumption
<1>2. ReserveEstimate(JobModel[j], PromptTokens[j], MaxTokens[j]) \in Nat
  BY <1>1, TokenCostType DEF ReserveEstimate
<1> QED
  BY <1>1, <1>2 DEF ReserveFor, Kind, IMAGE_CREDITS, AGENT_CREDITS,
                    ARISTOTLE_CREDITS, ARISTOTLE_TRIVIAL_CREDITS

LEMMA ChargeForType == \A j \in Job, tokens \in Usage : ChargeFor(j, tokens) \in Nat
<1> SUFFICES ASSUME NEW j \in Job, NEW tokens \in Usage PROVE ChargeFor(j, tokens) \in Nat
  OBVIOUS
<1>1. tokens \in Nat
  BY JobAssumption
<1>2. SettleCost(JobModel[j], tokens) \in Nat
  BY <1>1, TokenCostType DEF SettleCost
<1> QED
  BY <1>2, ReserveForType DEF ChargeFor

LEMMA AmountsType == Amounts \subseteq Nat
BY ReserveForType, ChargeForType DEF Amounts

LEMMA RowTypes ==
    ASSUME NEW r \in Row, NEW n \in Nat
    PROVE  Reserved(r, n) \in Row /\ Settled(r, n) \in Row /\ Refunded(r) \in Row
BY DEF Row, Status, Reserved, Settled, Refunded

LEMMA PayOutType ==
    ASSUME earned \in [Provider -> Int], lifetimeRewards \in Int,
           NEW charge \in Nat, NEW p, PayOut(charge, p) \/ NoPayOut
    PROVE  earned' \in [Provider -> Int] /\ lifetimeRewards' \in Int
<1>1. WorkerEarn(charge) \in Nat /\ StakingFee(charge) \in Nat
  BY WorkerEarnType, StakingFeeType
<1> QED
  BY <1>1 DEF PayOut, NoPayOut

-----------------------------------------------------------------------------
(***************************************************************************)
(* What one pass over the queue does.                                      *)
(***************************************************************************)
\* Jobs leave the queue and its timers exactly by being assigned to a connection
\* that is then busy; nothing else about an assignment changes.
ScheduleResult(act, asg, q, reg, tms) ==
    /\ queue' = {j \in q : j \in act /\ assigned'[j] = NoSocket}
    /\ timers' = tms \ {j \in q : j \in act /\ asg[j] = NoSocket
                                    /\ assigned'[j] # NoSocket}
    /\ \A j \in Job : assigned'[j] # asg[j] =>
          /\ j \in q /\ j \in act /\ asg[j] = NoSocket
          /\ assigned'[j] \in Socket
          /\ registry'[assigned'[j]] = "busy"
    /\ \A s \in Socket : reg[s] # "absent" => registry'[s] # "absent"
    /\ \A w \in Worker, j \in Job :
          j \in running'[w] => j \in running[w] \/ (j \in act /\ assigned'[j] # NoSocket)

LEMMA ScheduleEffect ==
    ASSUME NEW act \in SUBSET Job, NEW asg \in [Job -> Socket \cup {NoSocket}],
           NEW q \in SUBSET Job, NEW ahd \in [Job -> SUBSET Job],
           NEW reg \in [Socket -> {"absent", "idle", "busy"}], NEW tms \in SUBSET Job,
           running \in [Worker -> SUBSET Job],
           Schedule(act, asg, q, ahd, reg, tms)
    PROVE  /\ assigned' \in [Job -> Socket \cup {NoSocket}]
           /\ registry' \in [Socket -> {"absent", "idle", "busy"}]
           /\ queue' \subseteq Job
           /\ ahead' \in [Job -> SUBSET Job]
           /\ timers' \subseteq Job
           /\ running' \in [Worker -> SUBSET Job]
           /\ ScheduleResult(act, asg, q, reg, tms)
<1> DEFINE waiting == {j \in q : j \in act /\ asg[j] = NoSocket}
<1>1. PICK m \in Matchings(waiting, ahd, reg) :
        LET started == {j \in waiting : m[j] # NoSocket}
            left    == waiting \ started
        IN  /\ assigned' = [j \in Job |-> IF j \in started THEN m[j] ELSE asg[j]]
            /\ registry' = [s \in Socket |->
                  IF \E j \in started : m[j] = s THEN "busy" ELSE reg[s]]
            /\ queue' = left
            /\ ahead' = [j \in Job |-> IF j \in left THEN ahd[j] \cap left ELSE {}]
            /\ timers' = tms \ started
            /\ running' = [w \in Worker |-> running[w] \cup
                  {j \in started : link[m[j]] = "open" /\ owner[m[j]] = w}]
  BY DEF Schedule
<1>2. m \in [waiting -> Socket \cup {NoSocket}]
  BY <1>1 DEF Matchings
<1> DEFINE started == {j \in waiting : m[j] # NoSocket}
<1> DEFINE left == waiting \ started
<1>3. assigned' = [j \in Job |-> IF j \in started THEN m[j] ELSE asg[j]]
  BY <1>1
<1>4. registry' = [s \in Socket |->
                  IF \E j \in started : m[j] = s THEN "busy" ELSE reg[s]]
  BY <1>1
<1>5. queue' = left /\ timers' = tms \ started
  BY <1>1
<1>6. ahead' = [j \in Job |-> IF j \in left THEN ahd[j] \cap left ELSE {}]
  BY <1>1
<1>7. running' = [w \in Worker |-> running[w] \cup
                  {j \in started : link[m[j]] = "open" /\ owner[m[j]] = w}]
  BY <1>1
<1>8. started \subseteq Job /\ \A j \in started : m[j] \in Socket
  BY <1>2
<1>9. assigned' \in [Job -> Socket \cup {NoSocket}]
  BY <1>3, <1>2
<1>10. registry' \in [Socket -> {"absent", "idle", "busy"}]
  BY <1>4
<1>11. queue' = {j \in q : j \in act /\ assigned'[j] = NoSocket}
  BY <1>3, <1>5, <1>2
<1>12. timers' = tms \ {j \in q : j \in act /\ asg[j] = NoSocket /\ assigned'[j] # NoSocket}
  BY <1>3, <1>5, <1>2
<1>13. \A j \in Job : assigned'[j] # asg[j] =>
                 /\ j \in q /\ j \in act /\ asg[j] = NoSocket
                 /\ assigned'[j] \in Socket
                 /\ registry'[assigned'[j]] = "busy"
  BY <1>3, <1>4, <1>8
<1>14. \A s \in Socket : reg[s] # "absent" => registry'[s] # "absent"
  BY <1>4
<1>15. \A w \in Worker, j \in Job :
          j \in running'[w] => j \in running[w] \/ (j \in act /\ assigned'[j] # NoSocket)
  BY <1>7, <1>3, <1>8, WorkerAssumption
<1>16. ahead' \in [Job -> SUBSET Job]
  BY <1>6
<1>17. running' \in [Worker -> SUBSET Job]
  BY <1>7, <1>8
<1> QED
  BY <1>5, <1>9, <1>10, <1>11, <1>12, <1>13, <1>14, <1>15, <1>16, <1>17 DEF ScheduleResult

-----------------------------------------------------------------------------
(***************************************************************************)
(* Type correctness, one lemma per family of actions.                      *)
(***************************************************************************)
LEMMA TypeInit == Init => TypeOK
<1> SUFFICES ASSUME Init PROVE TypeOK
  OBVIOUS
<1>1. NewRow \in Row /\ AgentOff \in AgentState
  BY WorkerAssumption DEF NewRow, Row, Status, AgentOff, AgentState
<1>2. 0 \in 0..MaxRestarts
  BY WorkerAssumption
<1>3. \A S : <<>> \in Seq(S)
  OBVIOUS
<1> QED
  BY <1>1, <1>2, <1>3 DEF Init, TypeOK

LEMMA RejectType ==
    ASSUME TypeOK, NEW j \in Job, Reject(j)
    PROVE  TypeOK'
BY DEF TypeOK, Reject, storeVars, engineVars, asyncVars, netVars

LEMMA SubmitType ==
    ASSUME TypeOK, NEW j \in Job, Submit(j)
    PROVE  TypeOK'
<1>1. CASE Reject(j)
  BY <1>1, RejectType
<1>2. CASE ~Reject(j)
  <2>1. /\ row' = [row EXCEPT ![j] = Reserved(@, ReserveFor(j))]
        /\ active' = active \cup {j}
        /\ Schedule(active \cup {j}, assigned, queue \cup {j},
                    [ahead EXCEPT ![j] = queue], registry, timers \cup {j})
        /\ NoPayOut
        /\ UNCHANGED <<outcome, asyncVars, netVars, restarts>>
    BY <1>2 DEF Submit
  <2>2. row' \in [Job -> Row]
    BY <2>1, RowTypes, ReserveForType DEF TypeOK
  <2> DEFINE ahd == [ahead EXCEPT ![j] = queue]
  <2>3. /\ active \cup {j} \in SUBSET Job
        /\ queue \cup {j} \in SUBSET Job
        /\ timers \cup {j} \in SUBSET Job
        /\ ahd \in [Job -> SUBSET Job]
        /\ assigned \in [Job -> Socket \cup {NoSocket}]
        /\ registry \in [Socket -> {"absent", "idle", "busy"}]
        /\ running \in [Worker -> SUBSET Job]
    BY DEF TypeOK
  <2>4. /\ assigned' \in [Job -> Socket \cup {NoSocket}]
        /\ registry' \in [Socket -> {"absent", "idle", "busy"}]
        /\ queue' \subseteq Job
        /\ ahead' \in [Job -> SUBSET Job]
        /\ timers' \subseteq Job
        /\ running' \in [Worker -> SUBSET Job]
    BY <2>1, <2>3, ScheduleEffect
  <2> QED
    BY <2>1, <2>2, <2>3, <2>4 DEF TypeOK, NoPayOut, asyncVars, netVars
<1> QED
  BY <1>1, <1>2

LEMMA FailQueuedType ==
    ASSUME TypeOK, NEW j \in Job, FailQueued(j)
    PROVE  TypeOK'
<1>1. CASE j \in active /\ assigned[j] = NoSocket
  <2>1. /\ queue' = queue \ {j}
        /\ ahead' = [i \in Job |-> IF i = j THEN {} ELSE ahead[i] \ {j}]
        /\ row' = [row EXCEPT ![j] = Refunded(@)]
        /\ outcome' = [outcome EXCEPT ![j] = "unserved"]
        /\ active' = active \ {j}
    BY <1>1 DEF FailQueued
  <2>2. row' \in [Job -> Row]
    BY <2>1, RowTypes DEF TypeOK
  <2>3. ahead' \in [Job -> SUBSET Job]
    BY <2>1 DEF TypeOK
  <2> QED
    BY <2>1, <2>2, <2>3 DEF TypeOK, FailQueued, NoPayOut, asyncVars, netVars
<1>2. CASE ~(j \in active /\ assigned[j] = NoSocket)
  <2>1. UNCHANGED <<row, outcome, queue, ahead, active>>
    BY <1>2 DEF FailQueued
  <2> QED
    BY <2>1 DEF TypeOK, FailQueued, NoPayOut, asyncVars, netVars
<1> QED
  BY <1>1, <1>2

\* The four actions of the engine that end with a pass over the queue leave the
\* rest of the state to the caller of the lemma.
RestOK ==
    /\ row \in [Job -> Row]
    /\ earned \in [Provider -> Int]
    /\ lifetimeRewards \in Int
    /\ outcome \in [Job -> {"pending", "rejected", "done", "refunded", "unserved"}]
    /\ active \subseteq Job
    /\ agent \in [Job -> AgentState]
    /\ solving \subseteq Job
    /\ restarts \in 0..MaxRestarts

EngineOK ==
    /\ assigned \in [Job -> Socket \cup {NoSocket}]
    /\ queue \subseteq Job
    /\ ahead \in [Job -> SUBSET Job]
    /\ timers \subseteq Job
    /\ registry \in [Socket -> {"absent", "idle", "busy"}]
    /\ running \in [Worker -> SUBSET Job]

NetOK ==
    /\ link \in [Socket -> {"fresh", "open", "half", "gone"}]
    /\ owner \in [Socket -> Worker \cup {NoWorker}]
    /\ up \in [Socket -> Seq(Message)]
    /\ sendBuffer \in [Worker -> Seq(Message)]

LEMMA TypeParts == TypeOK <=> RestOK /\ EngineOK /\ NetOK
BY DEF TypeOK, RestOK, EngineOK, NetOK

LEMMA FreedType ==
    ASSUME TypeOK, NEW s \in Socket
    PROVE  /\ Freed(s) \in [Socket -> {"absent", "idle", "busy"}]
           /\ \A t \in Socket : registry[t] # "absent" <=> Freed(s)[t] # "absent"
BY DEF TypeOK, Freed

LEMMA OnWorkerDoneType ==
    ASSUME TypeOK, NEW s \in Socket, NEW j \in Job, OnWorkerDone(s, j)
    PROVE  RestOK' /\ EngineOK'
<1>1. CASE j \in active
  <2>1. PICK tokens \in Usage :
           /\ row' = [row EXCEPT ![j] = Settled(@, ChargeFor(j, tokens))]
           /\ PayOut(ChargeFor(j, tokens), owner[assigned[j]])
    BY <1>1 DEF OnWorkerDone
  <2>2. ChargeFor(j, tokens) \in Nat
    BY ChargeForType
  <2>3. row' \in [Job -> Row]
    BY <2>1, <2>2, RowTypes DEF TypeOK
  <2>4. earned' \in [Provider -> Int] /\ lifetimeRewards' \in Int
    BY <2>1, <2>2, PayOutType DEF TypeOK
  <2> DEFINE asg == [assigned EXCEPT ![j] = NoSocket]
  <2>5. Schedule(active \ {j}, asg, queue, ahead, Freed(s), timers)
    BY <1>1 DEF OnWorkerDone
  <2>6. /\ active \ {j} \in SUBSET Job /\ queue \in SUBSET Job /\ timers \in SUBSET Job
        /\ asg \in [Job -> Socket \cup {NoSocket}]
        /\ ahead \in [Job -> SUBSET Job]
        /\ Freed(s) \in [Socket -> {"absent", "idle", "busy"}]
        /\ running \in [Worker -> SUBSET Job]
    BY FreedType DEF TypeOK
  <2>7. EngineOK'
    BY <2>5, <2>6, ScheduleEffect DEF EngineOK
  <2>8. /\ outcome' = [outcome EXCEPT ![j] = "done"]
        /\ active' = active \ {j}
        /\ UNCHANGED <<asyncVars, restarts>>
    BY <1>1 DEF OnWorkerDone
  <2> QED
    BY <2>3, <2>4, <2>7, <2>8 DEF TypeOK, RestOK, asyncVars
<1>2. CASE j \notin active
  BY <1>2 DEF OnWorkerDone, TypeOK, RestOK, EngineOK, storeVars, engineVars, asyncVars
<1> QED
  BY <1>1, <1>2

LEMMA OnWorkerErrorType ==
    ASSUME TypeOK, NEW s \in Socket, NEW j \in Job, OnWorkerError(s, j)
    PROVE  RestOK' /\ EngineOK'
<1>1. row' \in [Job -> Row]
  BY RowTypes DEF OnWorkerError, TypeOK
<1> DEFINE asg == [assigned EXCEPT ![j] = NoSocket]
<1>2. Schedule(active \ {j}, asg, queue, ahead, Freed(s), timers)
  BY DEF OnWorkerError
<1>3. /\ active \ {j} \in SUBSET Job /\ queue \in SUBSET Job /\ timers \in SUBSET Job
      /\ asg \in [Job -> Socket \cup {NoSocket}]
      /\ ahead \in [Job -> SUBSET Job]
      /\ Freed(s) \in [Socket -> {"absent", "idle", "busy"}]
      /\ running \in [Worker -> SUBSET Job]
  BY FreedType DEF TypeOK
<1>4. EngineOK'
  BY <1>2, <1>3, ScheduleEffect DEF EngineOK
<1> QED
  BY <1>1, <1>4 DEF OnWorkerError, TypeOK, RestOK, NoPayOut, asyncVars

LEMMA OnWorkerGoneType ==
    ASSUME TypeOK, NEW s \in Socket, OnWorkerGone(s)
    PROVE  RestOK' /\ EngineOK'
<1> DEFINE lost == {j \in active : assigned[j] = s}
<1> DEFINE asg == [j \in Job |-> IF j \in lost THEN NoSocket ELSE assigned[j]]
<1> DEFINE reg == [registry EXCEPT ![s] = "absent"]
<1>1. Schedule(active \ lost, asg, queue, ahead, reg, timers)
  BY DEF OnWorkerGone
<1>2. /\ active \ lost \in SUBSET Job /\ queue \in SUBSET Job /\ timers \in SUBSET Job
      /\ asg \in [Job -> Socket \cup {NoSocket}]
      /\ ahead \in [Job -> SUBSET Job]
      /\ reg \in [Socket -> {"absent", "idle", "busy"}]
      /\ running \in [Worker -> SUBSET Job]
  BY DEF TypeOK
<1>3. EngineOK'
  <2> HIDE DEF lost, asg, reg
  <2> QED BY <1>1, <1>2, ScheduleEffect DEF EngineOK
<1>4. row' \in [Job -> Row]
  BY RowTypes DEF OnWorkerGone, TypeOK
<1>5. /\ outcome' = [j \in Job |-> IF j \in lost THEN "refunded" ELSE outcome[j]]
      /\ active' = active \ lost
      /\ NoPayOut
      /\ UNCHANGED <<asyncVars, restarts>>
  BY DEF OnWorkerGone
<1> QED
  BY <1>3, <1>4, <1>5 DEF TypeOK, RestOK, NoPayOut, asyncVars

-----------------------------------------------------------------------------
LEMMA AgentOffType == AgentOff \in AgentState
BY WorkerAssumption DEF AgentOff, AgentState

LEMMA FinishAgentType ==
    ASSUME TypeOK, NEW j \in Job, FinishAgent(j)
    PROVE  TypeOK'
<1>1. row' \in [Job -> Row]
  BY RowTypes, ReserveForType DEF FinishAgent, TypeOK
<1>2. earned' \in [Provider -> Int] /\ lifetimeRewards' \in Int
  BY PayOutType, ReserveForType DEF FinishAgent, TypeOK
<1>3. registry' \in [Socket -> {"absent", "idle", "busy"}]
  BY DEF FinishAgent, TypeOK, Freed
<1>4. agent' \in [Job -> AgentState]
  BY AgentOffType DEF FinishAgent, TypeOK
<1> QED
  BY <1>1, <1>2, <1>3, <1>4 DEF FinishAgent, TypeOK, engineVars, netVars

LEMMA AbortAgentType ==
    ASSUME TypeOK, NEW j \in Job, AbortAgent(j)
    PROVE  TypeOK'
<1>1. row' \in [Job -> Row]
  BY RowTypes DEF AbortAgent, TypeOK
<1>2. registry' \in [Socket -> {"absent", "idle", "busy"}]
  BY DEF AbortAgent, TypeOK, Freed
<1>3. agent' \in [Job -> AgentState]
  BY AgentOffType DEF AbortAgent, TypeOK
<1> QED
  BY <1>1, <1>2, <1>3 DEF AbortAgent, TypeOK, NoPayOut, engineVars, netVars

LEMMA AgentType ==
    ASSUME TypeOK, NEW j \in Job,
           StartAgent(j) \/ AgentReply(j) \/ AgentTimeout(j) \/ AgentTools(j)
    PROVE  TypeOK'
<1>1. CASE Reject(j) \/ FinishAgent(j) \/ AbortAgent(j)
  BY <1>1, RejectType, FinishAgentType, AbortAgentType
<1>2. CASE StartAgent(j) /\ ~Reject(j)
  <2> DEFINE able == {s \in IdleFor(j, registry) : owner[s] \in AgentCapable}
  <2>1. CASE /\ row' = [row EXCEPT ![j] = Refunded(Reserved(@, ReserveFor(j)))]
             /\ outcome' = [outcome EXCEPT ![j] = "unserved"]
             /\ NoPayOut
             /\ UNCHANGED <<engineVars, registry, asyncVars, netVars, running, restarts>>
    <3>1. row' \in [Job -> Row]
      BY <2>1, RowTypes, ReserveForType DEF TypeOK
    <3> QED
      BY <2>1, <3>1 DEF TypeOK, NoPayOut, engineVars, asyncVars, netVars
  <2>2. CASE /\ row' = [row EXCEPT ![j] = Reserved(@, ReserveFor(j))]
             /\ NoPayOut
             /\ \E s \in able :
                   /\ registry' = [registry EXCEPT ![s] = "busy"]
                   /\ agent' = [agent EXCEPT ![j] = [phase |-> "turn", on |-> s, turns |-> 0]]
             /\ UNCHANGED <<outcome, engineVars, solving, netVars, running, restarts>>
    <3>1. row' \in [Job -> Row]
      BY <2>2, RowTypes, ReserveForType DEF TypeOK
    <3>2. PICK s \in Socket :
             /\ registry' = [registry EXCEPT ![s] = "busy"]
             /\ agent' = [agent EXCEPT ![j] = [phase |-> "turn", on |-> s, turns |-> 0]]
      BY <2>2 DEF IdleFor
    <3>3. [phase |-> "turn", on |-> s, turns |-> 0] \in AgentState
      BY WorkerAssumption DEF AgentState
    <3>4. agent' \in [Job -> AgentState] /\ registry' \in [Socket -> {"absent", "idle", "busy"}]
      BY <3>2, <3>3 DEF TypeOK
    <3> QED
      BY <2>2, <3>1, <3>4 DEF TypeOK, NoPayOut, engineVars, netVars
  <2> QED
    BY <1>2, <2>1, <2>2 DEF StartAgent
<1>3. CASE agent' = [agent EXCEPT ![j].phase = "tools"] /\ AgentReply(j)
           /\ ~FinishAgent(j) /\ ~AbortAgent(j)
  <2>1. agent' \in [Job -> AgentState]
    <3>1. agent[j] \in AgentState
      BY DEF TypeOK
    <3>2. [agent[j] EXCEPT !.phase = "tools"] \in AgentState
      BY <3>1 DEF AgentState
    <3>3. agent' = [agent EXCEPT ![j] = [agent[j] EXCEPT !.phase = "tools"]]
      BY <1>3
    <3> QED BY <3>2, <3>3 DEF TypeOK
  <2> QED
    BY <1>3, <2>1 DEF AgentReply, TypeOK, storeVars, engineVars, netVars
<1>4. CASE AgentTools(j) /\ ~FinishAgent(j) /\ ~AbortAgent(j)
  <2>1. /\ agent[j].turns + 1 < MAX_ITERS
        /\ agent' = [agent EXCEPT ![j] = [phase |-> "turn", on |-> @.on, turns |-> @.turns + 1]]
        /\ UNCHANGED <<storeVars, outcome, engineVars, registry, solving, netVars,
                       running, restarts>>
    BY <1>4 DEF AgentTools
  <2>2. agent' \in [Job -> AgentState]
    BY <2>1, WorkerAssumption DEF TypeOK, AgentState
  <2> QED
    BY <2>1, <2>2 DEF TypeOK, storeVars, engineVars, netVars
<1> QED
  BY <1>1, <1>2, <1>3, <1>4 DEF AgentReply, AgentTimeout, AgentTools

LEMMA AristotleType ==
    ASSUME TypeOK, NEW j \in Job,
           AnswerArithmetic(j) \/ StartAristotle(j) \/ AristotleReturns(j)
    PROVE  TypeOK'
<1>1. CASE Reject(j)
  BY <1>1, RejectType
<1>2. CASE AnswerArithmetic(j) /\ ~Reject(j)
  <2>1. /\ row' = [row EXCEPT ![j] = Settled(Reserved(@, ReserveFor(j)), ReserveFor(j))]
        /\ PayOut(ReserveFor(j), Local)
        /\ outcome' = [outcome EXCEPT ![j] = "done"]
        /\ UNCHANGED <<engineVars, registry, asyncVars, netVars, running, restarts>>
    BY <1>2 DEF AnswerArithmetic
  <2>2. row' \in [Job -> Row]
    BY <2>1, RowTypes, ReserveForType DEF TypeOK
  <2>3. earned' \in [Provider -> Int] /\ lifetimeRewards' \in Int
    BY <2>1, PayOutType, ReserveForType DEF TypeOK
  <2> QED
    BY <2>1, <2>2, <2>3 DEF TypeOK, engineVars, asyncVars, netVars
<1>3. CASE StartAristotle(j) /\ ~Reject(j)
  <2>1. /\ row' = [row EXCEPT ![j] = Reserved(@, ReserveFor(j))]
        /\ solving' = solving \cup {j}
        /\ NoPayOut
        /\ UNCHANGED <<outcome, engineVars, registry, agent, netVars, running, restarts>>
    BY <1>3 DEF StartAristotle
  <2>2. row' \in [Job -> Row]
    BY <2>1, RowTypes, ReserveForType DEF TypeOK
  <2> QED
    BY <2>1, <2>2 DEF TypeOK, NoPayOut, engineVars, netVars
<1>4. CASE AristotleReturns(j)
  <2>1. /\ solving' = solving \ {j}
        /\ UNCHANGED <<engineVars, registry, agent, netVars, running, restarts>>
    BY <1>4 DEF AristotleReturns
  <2>2. /\ row' \in [Job -> Row]
        /\ earned' \in [Provider -> Int] /\ lifetimeRewards' \in Int
        /\ outcome' \in [Job -> {"pending", "rejected", "done", "refunded", "unserved"}]
    <3>1. CASE /\ row' = [row EXCEPT ![j] = Settled(@, ReserveFor(j))]
               /\ PayOut(ReserveFor(j), Harmonic)
               /\ outcome' = [outcome EXCEPT ![j] = "done"]
      BY <3>1, RowTypes, ReserveForType, PayOutType DEF TypeOK
    <3>2. CASE /\ row' = [row EXCEPT ![j] = Refunded(@)]
               /\ NoPayOut
               /\ outcome' = [outcome EXCEPT ![j] = "refunded"]
      BY <3>2, RowTypes DEF TypeOK, NoPayOut
    <3> QED BY <1>4, <3>1, <3>2 DEF AristotleReturns
  <2> QED
    BY <2>1, <2>2 DEF TypeOK, engineVars, netVars
<1> QED
  BY <1>1, <1>2, <1>3, <1>4 DEF AnswerArithmetic, StartAristotle

-----------------------------------------------------------------------------
LEMMA WorkerType ==
    ASSUME TypeOK, NEW w \in Worker, WorkerStep(w)
    PROVE  TypeOK'
<1>1. ASSUME NEW s \in Socket, Connect(w, s) PROVE TypeOK'
  <2>1. Append(sendBuffer[w], RegisterMsg) \in Seq(Message)
    BY AppendProperties DEF TypeOK, Message
  <2>2. up' \in [Socket -> Seq(Message)] /\ sendBuffer' \in [Worker -> Seq(Message)]
    BY <1>1, <2>1 DEF Connect, TypeOK
  <2> QED
    BY <1>1, <2>2 DEF Connect, TypeOK, storeVars, engineVars, asyncVars
<1>2. ASSUME NEW j \in Job, NEW type \in {"done", "error"}, Report(w, j, type) PROVE TypeOK'
  <2>1. [type |-> type, job |-> j] \in Message
    BY DEF Message
  <2>2. up' \in [Socket -> Seq(Message)] /\ sendBuffer' \in [Worker -> Seq(Message)]
    <3>1. ASSUME NEW s \in Socket,
                 up' = [up EXCEPT ![s] = Append(@, [type |-> type, job |-> j])],
                 UNCHANGED sendBuffer
          PROVE  up' \in [Socket -> Seq(Message)] /\ sendBuffer' \in [Worker -> Seq(Message)]
      BY <3>1, <2>1, AppendProperties DEF TypeOK
    <3>2. CASE /\ sendBuffer' = [sendBuffer EXCEPT ![w] = Append(@, [type |-> type, job |-> j])]
               /\ UNCHANGED up
      BY <3>2, <2>1, AppendProperties DEF TypeOK
    <3> QED BY <1>2, <3>1, <3>2 DEF Report
  <2> QED
    BY <1>2, <2>2 DEF Report, TypeOK, storeVars, engineVars, asyncVars
<1>3. CASE WorkerCrash(w)
  <2>1. \A S : <<>> \in Seq(S)
    OBVIOUS
  <2>2. up' \in [Socket -> Seq(Message)] /\ sendBuffer' \in [Worker -> Seq(Message)]
    BY <1>3, <2>1 DEF WorkerCrash, TypeOK
  <2>3. link' \in [Socket -> {"fresh", "open", "half", "gone"}]
    BY <1>3 DEF WorkerCrash, TypeOK
  <2> QED
    BY <1>3, <2>2, <2>3 DEF WorkerCrash, TypeOK, storeVars, engineVars, asyncVars
<1> QED
  BY <1>1, <1>2, <1>3 DEF WorkerStep

\* What the orchestrator receives is a message, and what is left behind a sequence of them.
LEMMA HeadOfUp ==
    ASSUME TypeOK, NEW s \in Socket, up[s] # <<>>
    PROVE  Head(up[s]) \in Message /\ Tail(up[s]) \in Seq(Message)
BY HeadTailProperties DEF TypeOK

LEMMA SocketType ==
    ASSUME TypeOK, NEW s \in Socket, SocketStep(s)
    PROVE  TypeOK'
<1>1. CASE LinkDrop(s)
  <2>1. \A S : <<>> \in Seq(S)
    OBVIOUS
  <2> QED
    BY <1>1, <2>1 DEF LinkDrop, TypeOK, storeVars, engineVars, asyncVars
<1>2. CASE Receive(s)
  <2>1. NetOK'
    BY <1>2, HeadOfUp DEF Receive, NetOK, TypeOK
  <2>2. CASE Register(s)
    <3>1. RestOK' /\ EngineOK'
      BY <2>2 DEF Register, TypeOK, RestOK, EngineOK, storeVars, engineVars, asyncVars
    <3> QED BY <2>1, <3>1 DEF TypeOK, RestOK, EngineOK, NetOK
  <2>3. ASSUME NEW j \in Job, OnWorkerDone(s, j) \/ OnWorkerError(s, j)
        PROVE  TypeOK'
    <3>1. RestOK' /\ EngineOK'
      BY <2>3, OnWorkerDoneType, OnWorkerErrorType
    <3> QED BY <2>1, <3>1 DEF TypeOK, RestOK, EngineOK, NetOK
  <2>4. \/ Register(s)
        \/ \E j \in Job : OnWorkerDone(s, j) \/ OnWorkerError(s, j)
    <3>1. Head(up[s]) \in Message
      BY <1>2, HeadOfUp DEF Receive
    <3>2. Head(up[s]).type # "register" => Head(up[s]).job \in Job
      BY <3>1 DEF Message, RegisterMsg
    <3> QED BY <1>2, <3>2 DEF Receive
  <2> QED BY <2>2, <2>3, <2>4
<1>3. CASE Disconnect(s)
  <2>1. RestOK' /\ EngineOK'
    BY <1>3, OnWorkerGoneType DEF Disconnect
  <2>2. NetOK'
    BY <1>3 DEF Disconnect, NetOK, TypeOK
  <2> QED BY <2>1, <2>2 DEF TypeOK, RestOK, EngineOK, NetOK
<1> QED
  BY <1>1, <1>2, <1>3 DEF SocketStep

LEMMA RestartType ==
    ASSUME TypeOK, Restart
    PROVE  TypeOK'
<1>1. \A S : <<>> \in Seq(S)
  OBVIOUS
<1>2. restarts' \in 0..MaxRestarts
  BY WorkerAssumption DEF Restart, TypeOK
<1>3. link' \in [Socket -> {"fresh", "open", "half", "gone"}]
  BY DEF Restart, TypeOK
<1> QED
  BY <1>1, <1>2, <1>3, AgentOffType DEF Restart, TypeOK, storeVars

LEMMA TypeStep == TypeOK /\ [Next]_vars => TypeOK'
<1> SUFFICES ASSUME TypeOK, [Next]_vars PROVE TypeOK'
  OBVIOUS
<1>1. ASSUME NEW j \in Job, JobStep(j) PROVE TypeOK'
  BY <1>1, SubmitType, FailQueuedType, AgentType, AristotleType DEF JobStep
<1>2. CASE UNCHANGED vars
  BY <1>2 DEF vars, TypeOK, storeVars, engineVars, asyncVars, netVars
<1> QED
  BY <1>1, <1>2, WorkerType, SocketType, RestartType DEF Next

\* Type correctness: every variable keeps the shape the source's types give it.
THEOREM TypeCorrect == Spec => []TypeOK
BY TypeInit, TypeStep, PTL DEF Spec

-----------------------------------------------------------------------------
(***************************************************************************)
(* The inductive invariant behind the other theorems.                      *)
(***************************************************************************)
\* j's reservation is in the books, and nothing else has happened to it.
Open(j) ==
    /\ row[j] = [status |-> "reserved", reserve |-> ReserveFor(j), charge |-> 0,
                 net |-> -ReserveFor(j)]
    /\ outcome[j] = "pending"

\* Someone in the orchestrator is going to settle or refund j.
Owned(j) == j \in active \/ AgentRun(j) \/ j \in solving

\* Each kind of job has one owner, and an owned job is open.
JobsInv ==
    \A j \in Job :
        /\ j \in active => JobKind[j] \in {"chat", "image"}
        /\ AgentRun(j) => JobKind[j] = "agent"
        /\ j \in solving => JobKind[j] = "aristotle"
        /\ Owned(j) => Open(j)
        /\ row[j].status = "none" => row[j] = NewRow

UnassignedInv == \A j \in Job \ active : assigned[j] = NoSocket

EngineInv == QueueExact /\ AssignedToRegistered /\ UnassignedInv

\* j has been handed to a worker: it will never be waiting in the queue again.
Sent(j) == row[j].status # "none" /\ (j \in active => assigned[j] # NoSocket)

Reports(msgs) == {msgs[k].job : k \in {i \in 1..Len(msgs) : msgs[i].type # "register"}}

\* The jobs workers hold, and those the reports on their way are about ...
InFlight ==
    {j \in Job : \/ \E w \in Worker : j \in running[w] \/ j \in Reports(sendBuffer[w])
                 \/ \E s \in Socket : j \in Reports(up[s])}

\* ... are jobs that have been handed out.
ReportInv == \A j \in InFlight : Sent(j)

Inv == TypeOK /\ JobsInv /\ EngineInv /\ ReportInv

-----------------------------------------------------------------------------
(***************************************************************************)
(* The moves of a row as moves of the abstract ledger.                     *)
(***************************************************************************)
LedgerMove == Ledger!Next \/ UNCHANGED Ledger!vars

LEMMA OpenRow ==
    ASSUME NEW j, Open(j)
    PROVE  /\ row[j].status = "reserved" /\ row[j].reserve = ReserveFor(j)
           /\ row[j].net = -ReserveFor(j) /\ outcome[j] = "pending"
BY DEF Open

LEMMA MapReject ==
    ASSUME NEW j \in Job, Unseen(j), Reject(j)
    PROVE  LedgerMove
BY DEF LedgerMove, Unseen, Reject, storeVars, Ledger!Next, Ledger!Reject, Ledger!Unseen

LEMMA MapAdmit ==
    ASSUME TypeOK, JobsInv, NEW j \in Job, Unseen(j),
           row' = [row EXCEPT ![j] = Reserved(@, ReserveFor(j))], UNCHANGED outcome
    PROVE  LedgerMove /\ Open(j)' /\ row'[j].status = "reserved"
<1>1. row[j].net = 0 /\ ReserveFor(j) \in Nat /\ ReserveFor(j) \in Amounts
  BY ReserveForType DEF Unseen, JobsInv, NewRow, Amounts
<1>2. row' = [row EXCEPT ![j] = [status |-> "reserved", reserve |-> ReserveFor(j),
                                 charge |-> 0, net |-> -ReserveFor(j)]]
  <2>1. row[j].net - ReserveFor(j) = -ReserveFor(j)
    BY <1>1
  <2> QED BY <2>1 DEF Reserved
<1>3. Ledger!Admit(j)
  BY <1>1, <1>2 DEF Ledger!Admit, Ledger!Unseen, Unseen
<1>4. Open(j)'
  BY <1>2 DEF Open, Unseen, TypeOK
<1> QED
  BY <1>2, <1>3, <1>4 DEF LedgerMove, Ledger!Next, TypeOK

LEMMA MapComplete ==
    ASSUME TypeOK, NEW j \in Job, Open(j), NEW charge \in Amounts,
           row' = [row EXCEPT ![j] = Settled(@, charge)],
           outcome' = [outcome EXCEPT ![j] = "done"]
    PROVE  LedgerMove /\ row'[j].status = "done"
<1>1. charge \in Nat /\ ReserveFor(j) \in Nat
  BY AmountsType, ReserveForType
<1>2. row' = [row EXCEPT ![j] = [status |-> "done", reserve |-> row[j].reserve,
                                 charge |-> charge, net |-> -charge]]
  <2>1. row[j].net + (row[j].reserve - charge) = -charge
    BY <1>1 DEF Open
  <2> QED BY <2>1 DEF Settled
<1>3. row[j].status = "reserved"
  BY DEF Open
<1>4. Ledger!Complete(j)
  BY <1>2, <1>3 DEF Ledger!Complete
<1> QED
  BY <1>2, <1>4 DEF LedgerMove, Ledger!Next, TypeOK

LEMMA MapFail ==
    ASSUME TypeOK, NEW jobs \in SUBSET Job, \A j \in jobs : Open(j),
           NEW why \in {"refunded", "unserved"},
           row' = [j \in Job |-> IF j \in jobs THEN Refunded(row[j]) ELSE row[j]],
           outcome' = [j \in Job |-> IF j \in jobs THEN why ELSE outcome[j]]
    PROVE  LedgerMove /\ \A j \in jobs : row'[j].status = "error"
<1>1. \A j \in jobs : Refunded(row[j]) = [status |-> "error", reserve |-> row[j].reserve,
                                          charge |-> 0, net |-> 0]
  <2> SUFFICES ASSUME NEW j \in jobs
               PROVE  Refunded(row[j]) = [status |-> "error", reserve |-> row[j].reserve,
                                          charge |-> 0, net |-> 0]
    OBVIOUS
  <2>1. row[j].net + row[j].reserve = 0
    <3>1. row[j].net = -ReserveFor(j) /\ row[j].reserve = ReserveFor(j)
      BY OpenRow
    <3>2. ReserveFor(j) \in Nat
      BY ReserveForType
    <3> QED BY <3>1, <3>2
  <2> QED BY <2>1 DEF Refunded
<1>2. row' = [j \in Job |-> IF j \in jobs
                            THEN [status |-> "error", reserve |-> row[j].reserve,
                                  charge |-> 0, net |-> 0]
                            ELSE row[j]]
  BY <1>1
<1>3. \A j \in jobs : row[j].status = "reserved"
  BY OpenRow
<1>4. Ledger!Fail(jobs)
  <2>1. \E w \in Ledger!Failure :
           outcome' = [j \in Job |-> IF j \in jobs THEN w ELSE outcome[j]]
    BY DEF Ledger!Failure
  <2> QED BY <1>2, <1>3, <2>1 DEF Ledger!Fail
<1> QED
  BY <1>2, <1>4 DEF LedgerMove, Ledger!Next

LEMMA MapFailOne ==
    ASSUME TypeOK, NEW j \in Job, Open(j), NEW why \in {"refunded", "unserved"},
           row' = [row EXCEPT ![j] = Refunded(@)],
           outcome' = [outcome EXCEPT ![j] = why]
    PROVE  LedgerMove /\ row'[j].status = "error"
<1> DEFINE jobs == {j}
<1>1. row' = [i \in Job |-> IF i \in jobs THEN Refunded(row[i]) ELSE row[i]]
  BY DEF TypeOK
<1>2. outcome' = [i \in Job |-> IF i \in jobs THEN why ELSE outcome[i]]
  BY DEF TypeOK
<1>3. jobs \in SUBSET Job /\ (\A i \in jobs : Open(i)) /\ j \in jobs
  OBVIOUS
<1> HIDE DEF jobs
<1> QED
  BY <1>1, <1>2, <1>3, MapFail

\* The abstract ledger never forgets a job.
LEMMA StatusStays ==
    ASSUME TypeOK, LedgerMove, NEW j \in Job, row[j].status # "none"
    PROVE  row'[j].status # "none"
<1>1. ASSUME NEW i \in Job,
             \/ Ledger!Reject(i) \/ Ledger!Admit(i) \/ Ledger!Complete(i)
             \/ Ledger!AdmitAndFail(i) \/ Ledger!AdmitAndComplete(i)
      PROVE  row'[j].status # "none"
  BY <1>1 DEF TypeOK, Ledger!Reject, Ledger!Admit, Ledger!Complete,
              Ledger!AdmitAndFail, Ledger!AdmitAndComplete
<1>2. ASSUME NEW jobs \in SUBSET Job, Ledger!Fail(jobs)
      PROVE  row'[j].status # "none"
  BY <1>2 DEF Ledger!Fail
<1>3. CASE UNCHANGED Ledger!vars
  BY <1>3 DEF Ledger!vars
<1> QED
  BY <1>1, <1>2, <1>3 DEF LedgerMove, Ledger!Next

-----------------------------------------------------------------------------
(***************************************************************************)
(* Each action is a move of the abstract ledger, and keeps JobsInv.        *)
(***************************************************************************)
LEMMA JobsFrame ==
    ASSUME JobsInv, NEW jobs \in SUBSET Job,
           \A j \in Job \ jobs :
              /\ row'[j] = row[j] /\ outcome'[j] = outcome[j]
              /\ j \in active' => j \in active
              /\ AgentRun(j)' => AgentRun(j)
              /\ j \in solving' => j \in solving,
           \A j \in jobs :
              /\ j \in active' => JobKind[j] \in {"chat", "image"}
              /\ AgentRun(j)' => JobKind[j] = "agent"
              /\ j \in solving' => JobKind[j] = "aristotle"
              /\ Owned(j)' => Open(j)'
              /\ row'[j].status # "none"
    PROVE  JobsInv'
<1> SUFFICES ASSUME NEW j \in Job
             PROVE  /\ j \in active' => JobKind[j] \in {"chat", "image"}
                    /\ AgentRun(j)' => JobKind[j] = "agent"
                    /\ j \in solving' => JobKind[j] = "aristotle"
                    /\ Owned(j)' => Open(j)'
                    /\ row'[j].status = "none" => row'[j] = NewRow
  BY DEF JobsInv, NewRow
<1>1. CASE j \in jobs
  BY <1>1
<1>2. CASE j \notin jobs
  <2>1. Owned(j)' => Owned(j)
    BY <1>2 DEF Owned
  <2>2. Open(j) => Open(j)'
    BY <1>2 DEF Open
  <2> QED BY <1>2, <2>1, <2>2 DEF JobsInv
<1> QED BY <1>1, <1>2

\* The case of one job, as most actions have it.
LEMMA JobsFrameOne ==
    ASSUME JobsInv, TypeOK, NEW j \in Job, NEW r, NEW o,
           row' = [row EXCEPT ![j] = r], r.status # "none",
           outcome' = [outcome EXCEPT ![j] = o] \/ UNCHANGED outcome,
           active' \subseteq active \cup {j}, solving' \subseteq solving \cup {j},
           \A i \in Job \ {j} : agent'[i] = agent[i],
           j \in active' => JobKind[j] \in {"chat", "image"},
           AgentRun(j)' => JobKind[j] = "agent",
           j \in solving' => JobKind[j] = "aristotle",
           Owned(j)' => Open(j)'
    PROVE  JobsInv'
<1> DEFINE jobs == {j}
<1>1. \A i \in Job \ jobs :
              /\ row'[i] = row[i] /\ outcome'[i] = outcome[i]
              /\ i \in active' => i \in active
              /\ AgentRun(i)' => AgentRun(i)
              /\ i \in solving' => i \in solving
  BY DEF TypeOK, AgentRun
<1>2. row'[j].status # "none"
  BY DEF TypeOK
<1>3. \A i \in jobs :
              /\ i \in active' => JobKind[i] \in {"chat", "image"}
              /\ AgentRun(i)' => JobKind[i] = "agent"
              /\ i \in solving' => JobKind[i] = "aristotle"
              /\ Owned(i)' => Open(i)'
              /\ row'[i].status # "none"
  BY <1>2
<1>4. jobs \in SUBSET Job
  OBVIOUS
<1> HIDE DEF jobs
<1> QED
  BY <1>1, <1>3, <1>4, JobsFrame

\* What the three transactions leave in the status column.
LEMMA StatusAfter ==
    ASSUME NEW r, NEW n
    PROVE  /\ Reserved(r, n).status # "none"
           /\ Settled(r, n).status # "none"
           /\ Refunded(r).status # "none"
BY DEF Reserved, Settled, Refunded

\* Only the money and the owners of jobs matter to JobsInv.
LEMMA JobsStutter ==
    ASSUME JobsInv, UNCHANGED <<row, outcome, active, agent, solving>>
    PROVE  LedgerMove /\ JobsInv'
BY DEF JobsInv, Owned, Open, AgentRun, LedgerMove, Ledger!vars

LEMMA RejectJobs ==
    ASSUME TypeOK, JobsInv, NEW j \in Job, Unseen(j), Reject(j)
    PROVE  LedgerMove /\ JobsInv'
<1>1. UNCHANGED <<row, active, agent, solving>>
  BY DEF Reject, storeVars, engineVars, asyncVars
<1>2. \A i \in Job : outcome'[i] = outcome[i] \/ i = j
  BY DEF Reject, TypeOK
<1>3. ~Owned(j)
  BY OpenRow DEF JobsInv, Unseen
<1>4. \A i \in Job : /\ Owned(i)' => Owned(i)
                     /\ i # j /\ Open(i) => Open(i)'
                     /\ AgentRun(i)' = AgentRun(i)
  BY <1>1, <1>2 DEF Owned, Open, AgentRun
<1>5. JobsInv'
  BY <1>1, <1>3, <1>4 DEF JobsInv
<1> QED
  BY <1>5, MapReject

LEMMA SubmitJobs ==
    ASSUME TypeOK, JobsInv, NEW j \in Job, Submit(j)
    PROVE  LedgerMove /\ JobsInv'
<1>1. Unseen(j) /\ JobKind[j] \in {"chat", "image"}
  BY DEF Submit
<1>2. CASE Reject(j)
  BY <1>1, <1>2, RejectJobs
<1>3. CASE ~Reject(j)
  <2>1. /\ row' = [row EXCEPT ![j] = Reserved(@, ReserveFor(j))]
        /\ active' = active \cup {j}
        /\ UNCHANGED <<outcome, agent, solving>>
    BY <1>3 DEF Submit, asyncVars
  <2>2. LedgerMove /\ Open(j)' /\ row'[j].status = "reserved"
    BY <1>1, <2>1, MapAdmit
  <2>3. ~Owned(j)
    BY <1>1, OpenRow DEF JobsInv, Unseen
  <2>4. JobsInv'
    <3>1. Reserved(row[j], ReserveFor(j)).status # "none"
      BY StatusAfter
    <3>2. ~AgentRun(j)' /\ j \notin solving'
      BY <2>1, <2>3 DEF AgentRun, Owned
    <3> QED
      BY <1>1, <2>1, <2>2, <3>1, <3>2, JobsFrameOne
  <2> QED BY <2>2, <2>4
<1> QED BY <1>2, <1>3

LEMMA FailQueuedJobs ==
    ASSUME TypeOK, JobsInv, NEW j \in Job, FailQueued(j)
    PROVE  LedgerMove /\ JobsInv'
<1>1. UNCHANGED <<agent, solving>>
  BY DEF FailQueued, asyncVars
<1>2. CASE j \in active /\ assigned[j] = NoSocket
  <2>1. /\ row' = [row EXCEPT ![j] = Refunded(@)]
        /\ outcome' = [outcome EXCEPT ![j] = "unserved"]
        /\ active' = active \ {j}
    BY <1>2 DEF FailQueued
  <2>2. Open(j)
    BY <1>2 DEF JobsInv, Owned
  <2>3. LedgerMove /\ row'[j].status = "error"
    BY <2>1, <2>2, MapFailOne
  <2>4. ~Owned(j)'
    BY <1>1, <1>2, <2>1 DEF JobsInv, Owned, AgentRun
  <2>5. JobsInv'
    <3>1. Refunded(row[j]).status # "none"
      BY StatusAfter
    <3>2. j \notin active' /\ ~AgentRun(j)' /\ j \notin solving'
      BY <2>4 DEF Owned
    <3> QED
      BY <1>1, <2>1, <2>4, <3>1, <3>2, JobsFrameOne
  <2> QED BY <2>3, <2>5
<1>3. CASE ~(j \in active /\ assigned[j] = NoSocket)
  BY <1>1, <1>3, JobsStutter DEF FailQueued
<1> QED BY <1>2, <1>3

\* An owner lets go of its job, settled or refunded.
LEMMA CloseOne ==
    ASSUME TypeOK, JobsInv, NEW j \in Job, Owned(j), NEW r, NEW o,
           row' = [row EXCEPT ![j] = r], outcome' = [outcome EXCEPT ![j] = o],
           \/ o = "done" /\ \E charge \in Amounts : r = Settled(row[j], charge)
           \/ o \in {"refunded", "unserved"} /\ r = Refunded(row[j]),
           active' = active \ {j}, solving' = solving \ {j},
           \A i \in Job \ {j} : agent'[i] = agent[i],
           ~AgentRun(j)'
    PROVE  LedgerMove /\ JobsInv'
<1>1. Open(j)
  BY DEF JobsInv
<1>2. LedgerMove
  <2>1. ASSUME NEW charge \in Amounts, o = "done", r = Settled(row[j], charge)
        PROVE  LedgerMove
    BY <1>1, <2>1, MapComplete
  <2>2. CASE o \in {"refunded", "unserved"} /\ r = Refunded(row[j])
    BY <1>1, <2>2, MapFailOne
  <2> QED BY <2>1, <2>2
<1>3. r.status # "none"
  BY StatusAfter
<1>4. ~Owned(j)'
  BY DEF Owned
<1>5. JobsInv'
  BY <1>3, <1>4, JobsFrameOne DEF Owned
<1> QED BY <1>2, <1>5

LEMMA OnWorkerDoneJobs ==
    ASSUME TypeOK, JobsInv, NEW s \in Socket, NEW j \in Job, OnWorkerDone(s, j)
    PROVE  LedgerMove /\ JobsInv'
<1>1. CASE j \in active
  <2>1. Owned(j) /\ ~AgentRun(j) /\ j \notin solving
    BY <1>1 DEF JobsInv, Owned
  <2>2. PICK tokens \in Usage : row' = [row EXCEPT ![j] = Settled(@, ChargeFor(j, tokens))]
    BY <1>1 DEF OnWorkerDone
  <2>3. ChargeFor(j, tokens) \in Amounts
    BY DEF Amounts
  <2>4. /\ outcome' = [outcome EXCEPT ![j] = "done"]
        /\ active' = active \ {j}
        /\ UNCHANGED <<agent, solving>>
    BY <1>1 DEF OnWorkerDone, asyncVars
  <2>5. ~AgentRun(j)' /\ solving' = solving \ {j}
    BY <2>1, <2>4 DEF AgentRun
  <2> QED
    BY <2>1, <2>2, <2>3, <2>4, <2>5, CloseOne
<1>2. CASE j \notin active
  BY <1>2, JobsStutter DEF OnWorkerDone, storeVars, engineVars, asyncVars
<1> QED BY <1>1, <1>2

LEMMA OnWorkerErrorJobs ==
    ASSUME TypeOK, JobsInv, NEW s \in Socket, NEW j \in Job, OnWorkerError(s, j)
    PROVE  LedgerMove /\ JobsInv'
<1>1. active' = active \ {j} /\ UNCHANGED <<agent, solving>>
  BY DEF OnWorkerError, asyncVars
<1>2. CASE j \in active
  <2>1. Owned(j) /\ ~AgentRun(j) /\ j \notin solving
    BY <1>2 DEF JobsInv, Owned
  <2>2. /\ row' = [row EXCEPT ![j] = Refunded(@)]
        /\ outcome' = [outcome EXCEPT ![j] = "refunded"]
    BY <1>2 DEF OnWorkerError
  <2>3. ~AgentRun(j)' /\ solving' = solving \ {j}
    BY <1>1, <2>1 DEF AgentRun
  <2> QED
    BY <1>1, <2>1, <2>2, <2>3, CloseOne
<1>3. CASE j \notin active
  BY <1>1, <1>3, JobsStutter DEF OnWorkerError
<1> QED BY <1>2, <1>3

LEMMA OnWorkerGoneJobs ==
    ASSUME TypeOK, JobsInv, NEW s \in Socket, OnWorkerGone(s)
    PROVE  LedgerMove /\ JobsInv'
<1> DEFINE lost == {j \in active : assigned[j] = s}
<1>1. /\ row' = [j \in Job |-> IF j \in lost THEN Refunded(row[j]) ELSE row[j]]
      /\ outcome' = [j \in Job |-> IF j \in lost THEN "refunded" ELSE outcome[j]]
      /\ active' = active \ lost
      /\ UNCHANGED <<agent, solving>>
  BY DEF OnWorkerGone, asyncVars
<1>2. lost \in SUBSET Job /\ lost \subseteq active
  BY DEF TypeOK
<1> HIDE DEF lost
<1>3. \A j \in lost : Open(j) /\ ~AgentRun(j) /\ j \notin solving
  BY <1>2 DEF JobsInv, Owned
<1>4. LedgerMove
  BY <1>1, <1>2, <1>3, MapFail
<1>5. \A j \in lost : row'[j].status # "none" /\ ~AgentRun(j)' /\ j \notin solving' /\ j \notin active'
  BY <1>1, <1>2, <1>3, StatusAfter DEF AgentRun
<1>6. \A j \in lost : ~Owned(j)'
  BY <1>5 DEF Owned
<1>7. JobsInv'
  BY <1>1, <1>2, <1>5, <1>6, JobsFrame DEF AgentRun
<1> QED BY <1>4, <1>7

-----------------------------------------------------------------------------
LEMMA FinishAgentJobs ==
    ASSUME TypeOK, JobsInv, NEW j \in Job, AgentRun(j), FinishAgent(j) \/ AbortAgent(j)
    PROVE  LedgerMove /\ JobsInv'
<1>1. Owned(j) /\ j \notin active /\ j \notin solving
  BY DEF JobsInv, Owned
<1>2. /\ agent' = [agent EXCEPT ![j] = AgentOff]
      /\ UNCHANGED <<active, solving>>
  BY DEF FinishAgent, AbortAgent, engineVars
<1>3. ~AgentRun(j)' /\ active' = active \ {j} /\ solving' = solving \ {j}
  BY <1>1, <1>2 DEF AgentRun, AgentOff, TypeOK
<1>4. \A i \in Job \ {j} : agent'[i] = agent[i]
  BY <1>2 DEF TypeOK
<1>5. ReserveFor(j) \in Amounts
  BY DEF Amounts
<1>6. CASE FinishAgent(j)
  BY <1>1, <1>3, <1>4, <1>5, <1>6, CloseOne DEF FinishAgent
<1>7. CASE AbortAgent(j)
  BY <1>1, <1>3, <1>4, <1>7, CloseOne DEF AbortAgent
<1> QED BY <1>6, <1>7

LEMMA StartAgentJobs ==
    ASSUME TypeOK, JobsInv, NEW j \in Job, StartAgent(j)
    PROVE  LedgerMove /\ JobsInv'
<1>1. Unseen(j) /\ JobKind[j] = "agent"
  BY DEF StartAgent
<1>2. j \notin active /\ j \notin solving /\ ~AgentRun(j)
  BY <1>1, OpenRow DEF JobsInv, Unseen, Owned
<1>3. row[j].net = 0 /\ ReserveFor(j) \in Nat /\ ReserveFor(j) \in Amounts
  BY <1>1, ReserveForType DEF Unseen, JobsInv, NewRow, Amounts
<1>4. CASE Reject(j)
  BY <1>1, <1>4, RejectJobs
<1>5. CASE /\ row' = [row EXCEPT ![j] = Refunded(Reserved(@, ReserveFor(j)))]
           /\ outcome' = [outcome EXCEPT ![j] = "unserved"]
           /\ UNCHANGED <<engineVars, asyncVars>>
  <2> DEFINE r == [status |-> "error", reserve |-> ReserveFor(j), charge |-> 0, net |-> 0]
  <2>1. (row[j].net - ReserveFor(j)) + ReserveFor(j) = 0
    BY <1>3
  <2>2. Refunded(Reserved(row[j], ReserveFor(j))) = r
    BY <2>1 DEF Refunded, Reserved
  <2>3. row' = [row EXCEPT ![j] = r]
    BY <1>5, <2>2
  <2>4. Ledger!AdmitAndFail(j)
    BY <1>1, <1>3, <1>5, <2>3 DEF Ledger!AdmitAndFail, Ledger!Unseen, Unseen, Ledger!Failure
  <2>5. LedgerMove
    BY <2>4 DEF LedgerMove, Ledger!Next
  <2>6. ~Owned(j)' /\ ~AgentRun(j)' /\ UNCHANGED <<active, solving, agent>>
    BY <1>2, <1>5 DEF Owned, AgentRun, engineVars, asyncVars
  <2>7. JobsInv'
    <3>1. r.status # "none" /\ j \notin active' /\ j \notin solving'
      BY <2>6 DEF Owned
    <3> HIDE DEF r
    <3> QED BY <1>5, <2>3, <2>6, <3>1, JobsFrameOne
  <2> QED BY <2>5, <2>7
<1>6. CASE /\ row' = [row EXCEPT ![j] = Reserved(@, ReserveFor(j))]
           /\ \E s : agent' = [agent EXCEPT ![j] = [phase |-> "turn", on |-> s, turns |-> 0]]
           /\ UNCHANGED <<outcome, engineVars, solving>>
  <2>1. UNCHANGED active
    BY <1>6 DEF engineVars
  <2>2. LedgerMove /\ Open(j)'
    BY <1>1, <1>6, MapAdmit
  <2>3. \A i \in Job \ {j} : agent'[i] = agent[i]
    BY <1>6 DEF TypeOK
  <2>4. Reserved(row[j], ReserveFor(j)).status # "none"
    BY StatusAfter
  <2>5. JobsInv'
    BY <1>1, <1>2, <1>6, <2>1, <2>2, <2>3, <2>4, JobsFrameOne
  <2> QED BY <2>2, <2>5
<1> QED
  BY <1>4, <1>5, <1>6 DEF StartAgent

LEMMA AgentTurnJobs ==
    ASSUME TypeOK, JobsInv, NEW j \in Job,
           AgentReply(j) \/ AgentTimeout(j) \/ AgentTools(j)
    PROVE  LedgerMove /\ JobsInv'
<1>1. AgentRun(j)
  BY DEF AgentReply, AgentTimeout, AgentTools, AgentRun
<1>2. CASE FinishAgent(j) \/ AbortAgent(j)
  BY <1>1, <1>2, FinishAgentJobs
<1>3. CASE ~(FinishAgent(j) \/ AbortAgent(j))
  <2>1. UNCHANGED <<row, outcome, active, solving>>
    BY <1>3 DEF AgentReply, AgentTimeout, AgentTools, storeVars, engineVars
  <2>2. \A i \in Job : AgentRun(i)' = AgentRun(i)
    <3>1. CASE agent' = [agent EXCEPT ![j].phase = "tools"]
      BY <1>1, <3>1 DEF TypeOK, AgentRun, AgentState
    <3>2. CASE agent' = [agent EXCEPT ![j] = [phase |-> "turn", on |-> @.on,
                                              turns |-> @.turns + 1]]
      BY <1>1, <3>2 DEF TypeOK, AgentRun, AgentState
    <3> QED BY <1>3, <3>1, <3>2 DEF AgentReply, AgentTimeout, AgentTools
  <2>3. \A i \in Job : Owned(i)' = Owned(i) /\ Open(i)' = Open(i)
    BY <2>1, <2>2 DEF Owned, Open
  <2> QED
    BY <2>1, <2>2, <2>3 DEF JobsInv, LedgerMove, Ledger!vars
<1> QED BY <1>2, <1>3

LEMMA AristotleJobs ==
    ASSUME TypeOK, JobsInv, NEW j \in Job,
           AnswerArithmetic(j) \/ StartAristotle(j) \/ AristotleReturns(j)
    PROVE  LedgerMove /\ JobsInv'
<1>1. ReserveFor(j) \in Nat /\ ReserveFor(j) \in Amounts
  BY ReserveForType DEF Amounts
<1>2. CASE Reject(j) /\ (AnswerArithmetic(j) \/ StartAristotle(j))
  BY <1>2, RejectJobs DEF AnswerArithmetic, StartAristotle
<1>3. CASE AnswerArithmetic(j) /\ ~Reject(j)
  <2> DEFINE r == [status |-> "done", reserve |-> ReserveFor(j), charge |-> ReserveFor(j),
                   net |-> -ReserveFor(j)]
  <2>1. Unseen(j) /\ row[j].net = 0
    BY <1>3 DEF AnswerArithmetic, Unseen, JobsInv, NewRow
  <2>2. j \notin active /\ j \notin solving /\ ~AgentRun(j)
    BY <2>1, OpenRow DEF JobsInv, Unseen, Owned
  <2>3. /\ row' = [row EXCEPT ![j] = Settled(Reserved(@, ReserveFor(j)), ReserveFor(j))]
        /\ outcome' = [outcome EXCEPT ![j] = "done"]
        /\ UNCHANGED <<active, agent, solving>>
    BY <1>3 DEF AnswerArithmetic, engineVars, asyncVars
  <2>4. (row[j].net - ReserveFor(j)) + (ReserveFor(j) - ReserveFor(j)) = -ReserveFor(j)
    BY <1>1, <2>1
  <2>5. Settled(Reserved(row[j], ReserveFor(j)), ReserveFor(j)) = r
    BY <2>4 DEF Settled, Reserved
  <2>6. row' = [row EXCEPT ![j] = r]
    BY <2>3, <2>5
  <2>7. Ledger!AdmitAndComplete(j)
    BY <1>1, <2>1, <2>3, <2>6 DEF Ledger!AdmitAndComplete, Ledger!Unseen, Unseen
  <2>8. LedgerMove
    BY <2>7 DEF LedgerMove, Ledger!Next
  <2>9. r.status # "none" /\ j \notin active' /\ ~AgentRun(j)' /\ j \notin solving'
    BY <2>2, <2>3 DEF AgentRun
  <2>10. ~Owned(j)'
    BY <2>9 DEF Owned
  <2> HIDE DEF r
  <2>11. JobsInv'
    BY <2>3, <2>6, <2>9, <2>10, JobsFrameOne
  <2> QED BY <2>8, <2>11
<1>4. CASE StartAristotle(j) /\ ~Reject(j)
  <2>1. Unseen(j) /\ JobKind[j] = "aristotle"
    BY <1>4 DEF StartAristotle
  <2>2. j \notin active /\ j \notin solving /\ ~AgentRun(j)
    BY <2>1, OpenRow DEF JobsInv, Unseen, Owned
  <2>3. /\ row' = [row EXCEPT ![j] = Reserved(@, ReserveFor(j))]
        /\ solving' = solving \cup {j}
        /\ UNCHANGED <<outcome, active, agent>>
    BY <1>4 DEF StartAristotle, engineVars
  <2>4. LedgerMove /\ Open(j)'
    BY <2>1, <2>3, MapAdmit
  <2>5. Reserved(row[j], ReserveFor(j)).status # "none"
    BY StatusAfter
  <2>6. j \notin active' /\ ~AgentRun(j)'
    BY <2>2, <2>3 DEF AgentRun
  <2>7. JobsInv'
    BY <2>1, <2>3, <2>4, <2>5, <2>6, JobsFrameOne
  <2> QED BY <2>4, <2>7
<1>5. CASE AristotleReturns(j)
  <2>1. Owned(j) /\ ~AgentRun(j) /\ j \notin active
    BY <1>5 DEF AristotleReturns, JobsInv, Owned
  <2>2. solving' = solving \ {j} /\ UNCHANGED <<active, agent>>
    BY <1>5 DEF AristotleReturns, engineVars
  <2>3. ~AgentRun(j)' /\ active' = active \ {j}
    BY <2>1, <2>2 DEF AgentRun
  <2>4. CASE /\ row' = [row EXCEPT ![j] = Settled(@, ReserveFor(j))]
             /\ outcome' = [outcome EXCEPT ![j] = "done"]
    BY <1>1, <2>1, <2>2, <2>3, <2>4, CloseOne
  <2>5. CASE /\ row' = [row EXCEPT ![j] = Refunded(@)]
             /\ outcome' = [outcome EXCEPT ![j] = "refunded"]
    BY <2>1, <2>2, <2>3, <2>5, CloseOne
  <2> QED BY <1>5, <2>4, <2>5 DEF AristotleReturns
<1> QED BY <1>2, <1>3, <1>4, <1>5 DEF AnswerArithmetic, StartAristotle

LEMMA WorkerJobs ==
    ASSUME JobsInv, NEW w \in Worker, WorkerStep(w)
    PROVE  LedgerMove /\ JobsInv'
<1>1. UNCHANGED <<row, outcome, active, agent, solving>>
  BY DEF WorkerStep, Connect, Report, WorkerCrash, storeVars, engineVars, asyncVars
<1> QED BY <1>1, JobsStutter

\* The message received is a registration or a report about some job.
LEMMA ReceiveCases ==
    ASSUME TypeOK, NEW s \in Socket, Receive(s)
    PROVE  \/ Head(up[s]).type = "register" /\ Register(s)
           \/ \E j \in Job : /\ Head(up[s]).type # "register" /\ Head(up[s]).job = j
                             /\ OnWorkerDone(s, j) \/ OnWorkerError(s, j)
<1>1. Head(up[s]) \in Message
  BY HeadOfUp DEF Receive
<1>2. Head(up[s]).type # "register" => Head(up[s]).job \in Job
  BY <1>1 DEF Message, RegisterMsg
<1> QED BY <1>2 DEF Receive

LEMMA SocketJobs ==
    ASSUME TypeOK, JobsInv, NEW s \in Socket, SocketStep(s)
    PROVE  LedgerMove /\ JobsInv'
<1>1. CASE LinkDrop(s)
  BY <1>1, JobsStutter DEF LinkDrop, storeVars, engineVars, asyncVars
<1>2. CASE Receive(s)
  <2>1. CASE Register(s)
    BY <2>1, JobsStutter DEF Register, storeVars, engineVars, asyncVars
  <2> QED
    BY <1>2, <2>1, ReceiveCases, OnWorkerDoneJobs, OnWorkerErrorJobs
<1>3. CASE Disconnect(s)
  BY <1>3, OnWorkerGoneJobs DEF Disconnect
<1> QED BY <1>1, <1>2, <1>3 DEF SocketStep

\* A restart forgets the owners, so what is open stays open for good: the
\* ledger still keeps its promise, EventuallyAnswered does not hold.
LEMMA RestartJobs ==
    ASSUME TypeOK, JobsInv, Restart
    PROVE  LedgerMove /\ JobsInv'
<1>1. UNCHANGED <<row, outcome>> /\ active' = {} /\ solving' = {}
  BY DEF Restart, storeVars
<1>2. \A j \in Job : ~AgentRun(j)'
  BY DEF Restart, AgentRun, AgentOff
<1>3. JobsInv'
  BY <1>1, <1>2 DEF JobsInv, Owned
<1> QED BY <1>1, <1>3 DEF LedgerMove, Ledger!vars

LEMMA JobsStep ==
    ASSUME TypeOK, JobsInv, [Next]_vars
    PROVE  LedgerMove /\ JobsInv'
<1>1. ASSUME NEW j \in Job, JobStep(j) PROVE LedgerMove /\ JobsInv'
  BY <1>1, SubmitJobs, FailQueuedJobs, StartAgentJobs, AgentTurnJobs, AristotleJobs DEF JobStep
<1>2. CASE UNCHANGED vars
  BY <1>2, JobsStutter DEF vars, storeVars, engineVars, asyncVars
<1> QED
  BY <1>1, <1>2, WorkerJobs, SocketJobs, RestartJobs DEF Next

LEMMA JobsInit == Init => JobsInv /\ Ledger!Init
BY DEF Init, JobsInv, Owned, AgentRun, AgentOff, Ledger!Init, NewRow, Ledger!NewRow

\* The orchestrator implements the abstract ledger: whatever workers, connections
\* and restarts do, a job's money and verdict move as JobLedger says.
THEOREM ImplementsLedger == Spec => LedgerPromise
<1>1. TypeOK /\ JobsInv /\ [Next]_vars => JobsInv' /\ [Ledger!Next]_Ledger!vars
  BY JobsStep DEF LedgerMove
<1> QED
  BY JobsInit, TypeInit, TypeStep, <1>1, PTL DEF Spec, LedgerPromise, Ledger!Spec

-----------------------------------------------------------------------------
(***************************************************************************)
(* The queue, the timers and the assignments.                              *)
(***************************************************************************)
\* What holds of the values handed to schedule() in every one of its calls.
Schedulable(act, asg, q, reg, tms) ==
    /\ q = {j \in act : asg[j] = NoSocket}
    /\ tms = q
    /\ \A j \in act : asg[j] # NoSocket => reg[asg[j]] # "absent"
    /\ \A j \in Job \ act : asg[j] = NoSocket

LEMMA ScheduleKeepsEngineInv ==
    ASSUME NEW act \in SUBSET Job, NEW asg \in [Job -> Socket \cup {NoSocket}],
           NEW q \in SUBSET Job, NEW ahd \in [Job -> SUBSET Job],
           NEW reg \in [Socket -> {"absent", "idle", "busy"}], NEW tms \in SUBSET Job,
           running \in [Worker -> SUBSET Job],
           Schedule(act, asg, q, ahd, reg, tms),
           Schedulable(act, asg, q, reg, tms),
           active' = act
    PROVE  /\ EngineInv'
           /\ \A j \in act : asg[j] # NoSocket => assigned'[j] # NoSocket
           /\ \A w \in Worker, j \in Job :
                 j \in running'[w] => j \in running[w] \/ (j \in act /\ assigned'[j] # NoSocket)
<1>0. ScheduleResult(act, asg, q, reg, tms)
  BY ScheduleEffect
<1>1. /\ queue' = {j \in q : j \in act /\ assigned'[j] = NoSocket}
      /\ timers' = tms \ {j \in q : j \in act /\ asg[j] = NoSocket /\ assigned'[j] # NoSocket}
      /\ \A j \in Job : assigned'[j] # asg[j] =>
            /\ j \in q /\ j \in act /\ asg[j] = NoSocket
            /\ assigned'[j] \in Socket
            /\ registry'[assigned'[j]] = "busy"
      /\ \A s \in Socket : reg[s] # "absent" => registry'[s] # "absent"
  BY <1>0 DEF ScheduleResult
<1>2. \A w \in Worker, j \in Job :
         j \in running'[w] => j \in running[w] \/ (j \in act /\ assigned'[j] # NoSocket)
  BY <1>0 DEF ScheduleResult
<1>3. \A j \in act : asg[j] # NoSocket => assigned'[j] = asg[j]
  BY <1>1
<1>4. QueueExact'
  <2>1. queue' = {j \in act : assigned'[j] = NoSocket}
    BY <1>1, <1>3 DEF Schedulable
  <2>2. timers' = queue'
    BY <1>1, <1>3 DEF Schedulable
  <2> QED BY <2>1, <2>2 DEF QueueExact
<1>5. AssignedToRegistered'
  <2> SUFFICES ASSUME NEW j \in act, assigned'[j] # NoSocket
               PROVE  registry'[assigned'[j]] # "absent"
    BY DEF AssignedToRegistered
  <2>1. CASE assigned'[j] = asg[j]
    BY <1>1, <2>1 DEF Schedulable
  <2>2. CASE assigned'[j] # asg[j]
    BY <1>1, <2>2
  <2> QED BY <2>1, <2>2
<1>6. UnassignedInv'
  BY <1>1 DEF UnassignedInv, Schedulable
<1> QED
  BY <1>2, <1>3, <1>4, <1>5, <1>6 DEF EngineInv

\* A job handed to a worker stays so: the row remembers it, and if it is still
\* active it is still assigned.
SentKept == \A j \in Job : Sent(j) => Sent(j)'

\* A worker is only ever given jobs that count as sent.
RunningSent == \A w \in Worker, j \in Job : j \in running'[w] => j \in running[w] \/ Sent(j)'

LEMMA EngineStutter ==
    ASSUME TypeOK, EngineInv, LedgerMove,
           UNCHANGED <<active, engineVars>>,
           \A s \in Socket : registry[s] # "absent" => registry'[s] # "absent"
    PROVE  EngineInv' /\ SentKept
<1>1. UNCHANGED <<active, assigned, queue, timers>>
  BY DEF engineVars
<1>2. EngineInv'
  BY <1>1 DEF TypeOK, EngineInv, QueueExact, AssignedToRegistered, UnassignedInv
<1>3. SentKept
  BY <1>1, StatusStays DEF SentKept, Sent
<1> QED BY <1>2, <1>3

\* The three calls of schedule() from the engine's own handlers share this argument.
LEMMA ScheduledStep ==
    ASSUME TypeOK, JobsInv, EngineInv, LedgerMove, JobsInv',
           NEW act \in SUBSET Job, NEW asg \in [Job -> Socket \cup {NoSocket}],
           NEW q \in SUBSET Job, NEW ahd \in [Job -> SUBSET Job],
           NEW reg \in [Socket -> {"absent", "idle", "busy"}], NEW tms \in SUBSET Job,
           Schedule(act, asg, q, ahd, reg, tms),
           Schedulable(act, asg, q, reg, tms),
           active' = act,
           \A j \in act : asg[j] = assigned[j] /\ (j \in active \/ row[j].status = "none")
    PROVE  EngineInv' /\ SentKept /\ RunningSent
<1>1. running \in [Worker -> SUBSET Job]
  BY DEF TypeOK
<1>2. /\ EngineInv'
      /\ \A j \in act : asg[j] # NoSocket => assigned'[j] # NoSocket
      /\ \A w \in Worker, j \in Job :
            j \in running'[w] => j \in running[w] \/ (j \in act /\ assigned'[j] # NoSocket)
  BY <1>1, ScheduleKeepsEngineInv
<1>3. SentKept
  <2> SUFFICES ASSUME NEW j \in Job, Sent(j) PROVE Sent(j)'
    BY DEF SentKept
  <2>1. row'[j].status # "none"
    BY StatusStays DEF Sent
  <2>2. j \in active' => assigned'[j] # NoSocket
    BY <1>2 DEF Sent
  <2> QED BY <2>1, <2>2 DEF Sent
<1>4. RunningSent
  <2> SUFFICES ASSUME NEW w \in Worker, NEW j \in Job, j \in running'[w], j \notin running[w]
               PROVE  Sent(j)'
    BY DEF RunningSent
  <2>1. j \in active' /\ assigned'[j] # NoSocket
    BY <1>2
  <2>2. Open(j)'
    BY <2>1 DEF JobsInv, Owned
  <2>3. row'[j].status # "none"
    BY <2>2 DEF Open
  <2> QED BY <2>1, <2>3 DEF Sent
<1> QED BY <1>2, <1>3, <1>4

LEMMA SubmitEngine ==
    ASSUME TypeOK, JobsInv, EngineInv, LedgerMove, JobsInv', NEW j \in Job, Submit(j)
    PROVE  EngineInv' /\ SentKept /\ RunningSent
<1>1. CASE Reject(j)
  <2>1. UNCHANGED <<active, engineVars, registry, running>>
    BY <1>1 DEF Reject, engineVars
  <2> QED BY <2>1, EngineStutter DEF RunningSent
<1>2. CASE ~Reject(j)
  <2> DEFINE act == active \cup {j}
  <2> DEFINE q == queue \cup {j}
  <2> DEFINE ahd == [ahead EXCEPT ![j] = queue]
  <2> DEFINE tms == timers \cup {j}
  <2>1. Unseen(j) /\ active' = act /\ Schedule(act, assigned, q, ahd, registry, tms)
    BY <1>2 DEF Submit
  <2>2. j \notin active
    BY <2>1, OpenRow DEF JobsInv, Unseen, Owned
  <2>3. /\ act \in SUBSET Job /\ q \in SUBSET Job /\ tms \in SUBSET Job
        /\ ahd \in [Job -> SUBSET Job]
        /\ assigned \in [Job -> Socket \cup {NoSocket}]
        /\ registry \in [Socket -> {"absent", "idle", "busy"}]
    BY DEF TypeOK
  <2>4. Schedulable(act, assigned, q, registry, tms)
    BY <2>2 DEF Schedulable, EngineInv, QueueExact, AssignedToRegistered, UnassignedInv, TypeOK
  <2>5. \A i \in act : assigned[i] = assigned[i] /\ (i \in active \/ row[i].status = "none")
    BY <2>1 DEF Unseen
  <2> HIDE DEF act, q, ahd, tms
  <2> QED BY <2>1, <2>3, <2>4, <2>5, ScheduledStep
<1> QED BY <1>1, <1>2

LEMMA FailQueuedEngine ==
    ASSUME TypeOK, JobsInv, EngineInv, LedgerMove, JobsInv', NEW j \in Job, FailQueued(j)
    PROVE  EngineInv' /\ SentKept /\ RunningSent
<1>1. /\ timers' = timers \ {j}
      /\ UNCHANGED <<assigned, registry, running>>
  BY DEF FailQueued
<1>2. j \in active /\ assigned[j] = NoSocket
  BY DEF FailQueued, EngineInv, QueueExact
<1>3. active' = active \ {j} /\ queue' = queue \ {j}
  BY <1>2 DEF FailQueued
<1>4. EngineInv'
  BY <1>1, <1>2, <1>3 DEF EngineInv, QueueExact, AssignedToRegistered, UnassignedInv
<1>5. SentKept
  BY <1>1, <1>3, StatusStays DEF SentKept, Sent
<1> QED BY <1>1, <1>4, <1>5 DEF RunningSent

\* A report in flight is about a job that is no longer waiting, so that taking
\* it out of `active` leaves the queue as it is.
LEMMA OnWorkerDoneEngine ==
    ASSUME TypeOK, JobsInv, EngineInv, LedgerMove, JobsInv',
           NEW s \in Socket, NEW j \in Job, Sent(j), OnWorkerDone(s, j)
    PROVE  EngineInv' /\ SentKept /\ RunningSent
<1>1. CASE j \in active
  <2> DEFINE act == active \ {j}
  <2> DEFINE asg == [assigned EXCEPT ![j] = NoSocket]
  <2>1. active' = act /\ Schedule(act, asg, queue, ahead, Freed(s), timers)
    BY <1>1 DEF OnWorkerDone
  <2>2. /\ act \in SUBSET Job /\ queue \in SUBSET Job /\ timers \in SUBSET Job
        /\ asg \in [Job -> Socket \cup {NoSocket}]
        /\ ahead \in [Job -> SUBSET Job]
        /\ Freed(s) \in [Socket -> {"absent", "idle", "busy"}]
    BY FreedType DEF TypeOK
  <2>3. assigned[j] # NoSocket
    BY <1>1 DEF Sent
  <2>4. Schedulable(act, asg, queue, Freed(s), timers)
    BY <1>1, <2>3, FreedType
       DEF Schedulable, EngineInv, QueueExact, AssignedToRegistered, UnassignedInv, TypeOK
  <2>5. \A i \in act : asg[i] = assigned[i] /\ (i \in active \/ row[i].status = "none")
    BY DEF TypeOK
  <2> HIDE DEF act, asg
  <2> QED BY <2>1, <2>2, <2>4, <2>5, ScheduledStep
<1>2. CASE j \notin active
  <2>1. UNCHANGED <<active, engineVars, registry, running>>
    BY <1>2 DEF OnWorkerDone, engineVars
  <2> QED BY <2>1, EngineStutter DEF RunningSent
<1> QED BY <1>1, <1>2

LEMMA OnWorkerErrorEngine ==
    ASSUME TypeOK, JobsInv, EngineInv, LedgerMove, JobsInv',
           NEW s \in Socket, NEW j \in Job, Sent(j), OnWorkerError(s, j)
    PROVE  EngineInv' /\ SentKept /\ RunningSent
<1> DEFINE act == active \ {j}
<1> DEFINE asg == [assigned EXCEPT ![j] = NoSocket]
<1>1. active' = act /\ Schedule(act, asg, queue, ahead, Freed(s), timers)
  BY DEF OnWorkerError
<1>2. /\ act \in SUBSET Job /\ queue \in SUBSET Job /\ timers \in SUBSET Job
      /\ asg \in [Job -> Socket \cup {NoSocket}]
      /\ ahead \in [Job -> SUBSET Job]
      /\ Freed(s) \in [Socket -> {"absent", "idle", "busy"}]
  BY FreedType DEF TypeOK
<1>3. j \in active => assigned[j] # NoSocket
  BY DEF Sent
<1>4. Schedulable(act, asg, queue, Freed(s), timers)
  BY <1>3, FreedType
     DEF Schedulable, EngineInv, QueueExact, AssignedToRegistered, UnassignedInv, TypeOK
<1>5. \A i \in act : asg[i] = assigned[i] /\ (i \in active \/ row[i].status = "none")
  BY DEF TypeOK
<1> HIDE DEF act, asg
<1> QED BY <1>1, <1>2, <1>4, <1>5, ScheduledStep

LEMMA OnWorkerGoneEngine ==
    ASSUME TypeOK, JobsInv, EngineInv, LedgerMove, JobsInv',
           NEW s \in Socket, OnWorkerGone(s)
    PROVE  EngineInv' /\ SentKept /\ RunningSent
<1> DEFINE lost == {j \in active : assigned[j] = s}
<1> DEFINE act == active \ lost
<1> DEFINE asg == [j \in Job |-> IF j \in lost THEN NoSocket ELSE assigned[j]]
<1> DEFINE reg == [registry EXCEPT ![s] = "absent"]
<1>1. active' = act /\ Schedule(act, asg, queue, ahead, reg, timers)
  BY DEF OnWorkerGone
<1>2. /\ act \in SUBSET Job /\ queue \in SUBSET Job /\ timers \in SUBSET Job
      /\ asg \in [Job -> Socket \cup {NoSocket}]
      /\ ahead \in [Job -> SUBSET Job]
      /\ reg \in [Socket -> {"absent", "idle", "busy"}]
  BY DEF TypeOK
<1>3. \A j \in act : asg[j] = assigned[j] /\ assigned[j] # s /\ j \in active
  BY DEF TypeOK
<1>4. {j \in act : asg[j] = NoSocket} = {j \in active : assigned[j] = NoSocket}
  BY <1>3, WorkerAssumption
<1>5. \A j \in act : asg[j] # NoSocket => reg[asg[j]] # "absent"
  BY <1>3 DEF EngineInv, AssignedToRegistered, TypeOK
<1>6. \A j \in Job \ act : asg[j] = NoSocket
  BY DEF EngineInv, UnassignedInv, TypeOK
<1>7. Schedulable(act, asg, queue, reg, timers)
  BY <1>4, <1>5, <1>6 DEF Schedulable, EngineInv, QueueExact
<1>8. \A j \in act : asg[j] = assigned[j] /\ (j \in active \/ row[j].status = "none")
  BY <1>3
<1> HIDE DEF act, asg, reg, lost
<1> QED BY <1>1, <1>2, <1>7, <1>8, ScheduledStep

LEMMA AgentEngineKept ==
    ASSUME TypeOK, EngineInv, LedgerMove, NEW j \in Job,
           \/ StartAgent(j) \/ AgentReply(j) \/ AgentTimeout(j) \/ AgentTools(j)
           \/ AnswerArithmetic(j) \/ StartAristotle(j) \/ AristotleReturns(j)
    PROVE  EngineInv' /\ SentKept /\ RunningSent /\ UNCHANGED netVars
<1>1. UNCHANGED <<active, engineVars, running, netVars>>
  BY DEF StartAgent, AgentReply, AgentTimeout, AgentTools, AnswerArithmetic, StartAristotle,
         AristotleReturns, Reject, FinishAgent, AbortAgent, engineVars
<1>2. \A s \in Socket : registry[s] # "absent" => registry'[s] # "absent"
  <2>1. \/ UNCHANGED registry
        \/ \E s \in Socket : registry' = [registry EXCEPT ![s] = "busy"]
        \/ registry' = Freed(agent[j].on)
    BY DEF StartAgent, AgentReply, AgentTimeout, AgentTools, AnswerArithmetic, StartAristotle,
           AristotleReturns, Reject, FinishAgent, AbortAgent, IdleFor
  <2>2. \A t : Freed(t) = registry \/ Freed(t) = [registry EXCEPT ![t] = "idle"]
    BY DEF Freed
  <2> QED BY <2>1, <2>2 DEF TypeOK
<1> QED BY <1>1, <1>2, EngineStutter DEF RunningSent

-----------------------------------------------------------------------------
(***************************************************************************)
(* What is in flight.                                                      *)
(***************************************************************************)
LEMMA ReportsOfAppend ==
    ASSUME NEW msgs \in Seq(Message), NEW msg \in Message, NEW j \in Reports(Append(msgs, msg))
    PROVE  j \in Reports(msgs) \/ (msg.type # "register" /\ j = msg.job)
<1>1. PICK k \in 1..Len(Append(msgs, msg)) :
         Append(msgs, msg)[k].type # "register" /\ j = Append(msgs, msg)[k].job
  BY DEF Reports
<1>2. /\ Len(Append(msgs, msg)) = Len(msgs) + 1 /\ Len(msgs) \in Nat
      /\ \A i \in 1..Len(msgs) : Append(msgs, msg)[i] = msgs[i]
      /\ Append(msgs, msg)[Len(msgs) + 1] = msg
  BY AppendProperties, LenProperties
<1>3. CASE k \in 1..Len(msgs)
  BY <1>1, <1>2, <1>3 DEF Reports
<1>4. CASE k = Len(msgs) + 1
  BY <1>1, <1>2, <1>4
<1> QED BY <1>1, <1>2, <1>3, <1>4

LEMMA ReportsOfTail ==
    ASSUME NEW msgs \in Seq(Message), msgs # <<>>
    PROVE  /\ Reports(Tail(msgs)) \subseteq Reports(msgs)
           /\ Head(msgs).type # "register" => Head(msgs).job \in Reports(msgs)
<1>1. /\ Len(msgs) \in Nat /\ Len(msgs) >= 1
      /\ Len(Tail(msgs)) = Len(msgs) - 1
      /\ \A i \in 1..Len(Tail(msgs)) : Tail(msgs)[i] = msgs[i + 1]
      /\ Head(msgs) = msgs[1]
  BY HeadTailProperties, EmptySeq, LenProperties
<1>2. Reports(Tail(msgs)) \subseteq Reports(msgs)
  <2> SUFFICES ASSUME NEW j \in Reports(Tail(msgs)) PROVE j \in Reports(msgs)
    OBVIOUS
  <2>1. PICK k \in 1..Len(Tail(msgs)) :
           Tail(msgs)[k].type # "register" /\ j = Tail(msgs)[k].job
    BY DEF Reports
  <2>2. k + 1 \in 1..Len(msgs) /\ msgs[k + 1] = Tail(msgs)[k]
    BY <1>1
  <2> QED BY <2>1, <2>2 DEF Reports
<1>3. Head(msgs).type # "register" => Head(msgs).job \in Reports(msgs)
  <2>1. 1 \in 1..Len(msgs)
    BY <1>1
  <2> QED BY <1>1, <2>1 DEF Reports
<1> QED BY <1>2, <1>3

LEMMA ReportsOfNothing == Reports(<<>>) = {}
BY DEF Reports

\* No step puts a job in flight that was not, but by handing it to a worker.
LEMMA ReportFrame ==
    ASSUME ReportInv, SentKept, RunningSent,
           \A w \in Worker, j \in Job : j \in Reports(sendBuffer'[w]) => j \in InFlight,
           \A s \in Socket, j \in Job : j \in Reports(up'[s]) => j \in InFlight
    PROVE  ReportInv'
<1> SUFFICES ASSUME NEW j \in InFlight' PROVE Sent(j)'
  BY DEF ReportInv
<1>1. j \in Job
  BY DEF InFlight
<1>2. j \in InFlight => Sent(j)'
  BY <1>1 DEF ReportInv, SentKept
<1>3. \/ \E w \in Worker : j \in running'[w] \/ j \in Reports(sendBuffer'[w])
      \/ \E s \in Socket : j \in Reports(up'[s])
  BY DEF InFlight, Reports
<1>4. ASSUME NEW w \in Worker, j \in running'[w] PROVE Sent(j)'
  BY <1>1, <1>2, <1>4 DEF RunningSent, InFlight
<1> QED BY <1>1, <1>2, <1>3, <1>4

LEMMA WorkerReports ==
    ASSUME TypeOK, EngineInv, ReportInv, LedgerMove, NEW w \in Worker, WorkerStep(w)
    PROVE  EngineInv' /\ ReportInv'
<1>1. UNCHANGED <<active, engineVars, registry>>
  BY DEF WorkerStep, Connect, Report, WorkerCrash, engineVars
<1>2. EngineInv' /\ SentKept
  BY <1>1, EngineStutter
<1>3. ASSUME NEW s \in Socket, Connect(w, s) PROVE ReportInv'
  <2>1. /\ up' = [up EXCEPT ![s] = Append(sendBuffer[w], RegisterMsg)]
        /\ sendBuffer' = [sendBuffer EXCEPT ![w] = <<>>]
        /\ UNCHANGED running
    BY <1>3 DEF Connect
  <2>2. \A j \in Reports(Append(sendBuffer[w], RegisterMsg)) : j \in Reports(sendBuffer[w])
    <3>1. RegisterMsg \in Message /\ RegisterMsg.type = "register"
      BY DEF Message, RegisterMsg
    <3>2. sendBuffer[w] \in Seq(Message)
      BY DEF TypeOK
    <3> QED BY <3>1, <3>2, ReportsOfAppend
  <2>3. \A t \in Socket, j \in Job : j \in Reports(up'[t]) => j \in InFlight
    BY <2>1, <2>2 DEF TypeOK, InFlight
  <2>4. \A v \in Worker, j \in Job : j \in Reports(sendBuffer'[v]) => j \in InFlight
    BY <2>1, ReportsOfNothing DEF TypeOK, InFlight
  <2> QED BY <1>2, <2>1, <2>3, <2>4, ReportFrame DEF RunningSent
<1>4. ASSUME NEW i \in Job, NEW type \in {"done", "error"}, Report(w, i, type) PROVE ReportInv'
  <2> DEFINE msg == [type |-> type, job |-> i]
  <2>1. msg \in Message /\ msg.job = i
    BY DEF Message
  <2>2. i \in InFlight
    BY <1>4 DEF Report, InFlight
  <2> HIDE DEF msg
  <2>3. \A t \in Socket, j \in Job : j \in Reports(up'[t]) => j \in InFlight
    <3>1. ASSUME NEW s \in Socket, up' = [up EXCEPT ![s] = Append(@, msg)],
                 NEW t \in Socket, NEW j \in Job, j \in Reports(up'[t])
          PROVE  j \in InFlight
      <4>1. CASE t = s
        <5>1. up'[t] = Append(up[s], msg) /\ up[s] \in Seq(Message)
          BY <3>1, <4>1 DEF TypeOK
        <5>2. j \in Reports(up[s]) \/ j = i
          BY <2>1, <3>1, <5>1, ReportsOfAppend
        <5> QED BY <2>2, <5>2 DEF InFlight
      <4>2. CASE t # s
        BY <3>1, <4>2 DEF TypeOK, InFlight
      <4> QED BY <4>1, <4>2
    <3>2. CASE UNCHANGED up
      BY <3>2 DEF InFlight
    <3> QED BY <1>4, <3>1, <3>2 DEF Report, msg
  <2>4. \A v \in Worker, j \in Job : j \in Reports(sendBuffer'[v]) => j \in InFlight
    <3>1. CASE UNCHANGED sendBuffer
      BY <3>1 DEF InFlight
    <3>2. ASSUME sendBuffer' = [sendBuffer EXCEPT ![w] = Append(@, msg)],
                 NEW v \in Worker, NEW j \in Job, j \in Reports(sendBuffer'[v])
          PROVE  j \in InFlight
      <4>1. CASE v = w
        <5>1. sendBuffer'[v] = Append(sendBuffer[w], msg) /\ sendBuffer[w] \in Seq(Message)
          BY <3>2, <4>1 DEF TypeOK
        <5>2. j \in Reports(sendBuffer[w]) \/ j = i
          BY <2>1, <3>2, <5>1, ReportsOfAppend
        <5> QED BY <2>2, <5>2 DEF InFlight
      <4>2. CASE v # w
        BY <3>2, <4>2 DEF TypeOK, InFlight
      <4> QED BY <4>1, <4>2
    <3> QED BY <1>4, <3>1, <3>2 DEF Report, msg
  <2>5. RunningSent
    BY <1>4 DEF RunningSent, Report, TypeOK
  <2> QED BY <1>2, <2>3, <2>4, <2>5, ReportFrame
<1>5. CASE WorkerCrash(w)
  <2>1. \A t \in Socket, j \in Job : j \in Reports(up'[t]) => j \in InFlight
    BY <1>5, ReportsOfNothing DEF WorkerCrash, InFlight
  <2>2. \A v \in Worker, j \in Job : j \in Reports(sendBuffer'[v]) => j \in InFlight
    BY <1>5, ReportsOfNothing DEF WorkerCrash, InFlight, TypeOK
  <2>3. RunningSent
    BY <1>5 DEF RunningSent, WorkerCrash, TypeOK
  <2> QED BY <1>2, <2>1, <2>2, <2>3, ReportFrame
<1> QED
  BY <1>2, <1>3, <1>4, <1>5 DEF WorkerStep

LEMMA SocketReports ==
    ASSUME TypeOK, JobsInv, EngineInv, ReportInv, LedgerMove, JobsInv',
           NEW s \in Socket, SocketStep(s)
    PROVE  EngineInv' /\ ReportInv'
<1>1. CASE LinkDrop(s)
  <2>1. UNCHANGED <<active, engineVars, registry, running, sendBuffer>>
    BY <1>1 DEF LinkDrop, engineVars
  <2>2. EngineInv' /\ SentKept
    BY <2>1, EngineStutter
  <2>3. \A t \in Socket, j \in Job : j \in Reports(up'[t]) => j \in InFlight
    BY <1>1, ReportsOfNothing DEF LinkDrop, InFlight, TypeOK
  <2>4. \A v \in Worker, j \in Job : j \in Reports(sendBuffer'[v]) => j \in InFlight
    BY <2>1 DEF InFlight
  <2> QED BY <2>1, <2>2, <2>3, <2>4, ReportFrame DEF RunningSent
<1>2. CASE Receive(s)
  <2>1. /\ up' = [up EXCEPT ![s] = Tail(@)] /\ UNCHANGED sendBuffer
        /\ up[s] # <<>> /\ up[s] \in Seq(Message)
    BY <1>2 DEF Receive, TypeOK
  <2>2. \A t \in Socket, j \in Job : j \in Reports(up'[t]) => j \in InFlight
    <3>1. Reports(Tail(up[s])) \subseteq Reports(up[s])
      BY <2>1, ReportsOfTail
    <3> QED BY <2>1, <3>1 DEF InFlight, TypeOK
  <2>3. \A v \in Worker, j \in Job : j \in Reports(sendBuffer'[v]) => j \in InFlight
    BY <2>1 DEF InFlight
  <2>4. EngineInv' /\ SentKept /\ RunningSent
    <3>1. CASE Register(s)
      <4>1. UNCHANGED <<active, engineVars, running>>
        BY <3>1 DEF Register, engineVars
      <4>2. \A t \in Socket : registry[t] # "absent" => registry'[t] # "absent"
        BY <3>1 DEF Register, TypeOK
      <4> QED BY <4>1, <4>2, EngineStutter DEF RunningSent
    <3>2. ASSUME NEW j \in Job, Head(up[s]).type # "register", Head(up[s]).job = j,
                 OnWorkerDone(s, j) \/ OnWorkerError(s, j)
          PROVE  EngineInv' /\ SentKept /\ RunningSent
      <4>1. Sent(j)
        <5>1. j \in Reports(up[s])
          BY <2>1, <3>2, ReportsOfTail
        <5> QED BY <5>1 DEF ReportInv, InFlight
      <4> QED BY <3>2, <4>1, OnWorkerDoneEngine, OnWorkerErrorEngine
    <3> QED BY <1>2, <3>1, <3>2, ReceiveCases
  <2> QED BY <2>2, <2>3, <2>4, ReportFrame
<1>3. CASE Disconnect(s)
  <2>1. OnWorkerGone(s) /\ UNCHANGED <<up, sendBuffer>>
    BY <1>3 DEF Disconnect
  <2>2. EngineInv' /\ SentKept /\ RunningSent
    BY <2>1, OnWorkerGoneEngine
  <2>3. /\ \A t \in Socket, j \in Job : j \in Reports(up'[t]) => j \in InFlight
        /\ \A v \in Worker, j \in Job : j \in Reports(sendBuffer'[v]) => j \in InFlight
    BY <2>1 DEF InFlight
  <2> QED BY <2>2, <2>3, ReportFrame
<1> QED BY <1>1, <1>2, <1>3 DEF SocketStep

LEMMA RestartReports ==
    ASSUME TypeOK, EngineInv, ReportInv, LedgerMove, Restart
    PROVE  EngineInv' /\ ReportInv'
<1>1. /\ active' = {} /\ queue' = {} /\ timers' = {}
      /\ assigned' = [j \in Job |-> NoSocket]
      /\ up' = [t \in Socket |-> <<>>]
      /\ UNCHANGED <<running, sendBuffer>>
  BY DEF Restart
<1>2. EngineInv'
  BY <1>1 DEF EngineInv, QueueExact, AssignedToRegistered, UnassignedInv
<1>3. SentKept
  BY <1>1, StatusStays DEF SentKept, Sent
<1>4. \A t \in Socket, j \in Job : j \in Reports(up'[t]) => j \in InFlight
  BY <1>1, ReportsOfNothing
<1>5. \A v \in Worker, j \in Job : j \in Reports(sendBuffer'[v]) => j \in InFlight
  BY <1>1 DEF InFlight
<1> QED BY <1>1, <1>2, <1>3, <1>4, <1>5, ReportFrame DEF RunningSent

-----------------------------------------------------------------------------
LEMMA InvInit == Init => Inv
<1> SUFFICES ASSUME Init PROVE Inv
  OBVIOUS
<1>1. EngineInv
  BY DEF Init, EngineInv, QueueExact, AssignedToRegistered, UnassignedInv
<1>2. ReportInv
  BY ReportsOfNothing DEF Init, ReportInv, InFlight
<1> QED BY <1>1, <1>2, TypeInit, JobsInit DEF Inv

LEMMA InvStep == Inv /\ [Next]_vars => Inv'
<1> SUFFICES ASSUME Inv, [Next]_vars PROVE Inv'
  OBVIOUS
<1>1. TypeOK /\ JobsInv /\ EngineInv /\ ReportInv
  BY DEF Inv
<1>2. TypeOK' /\ JobsInv' /\ LedgerMove
  BY <1>1, TypeStep, JobsStep
<1>3. ASSUME NEW j \in Job, JobStep(j) PROVE EngineInv' /\ ReportInv'
  <2>1. EngineInv' /\ SentKept /\ RunningSent
    BY <1>1, <1>2, <1>3, SubmitEngine, FailQueuedEngine, AgentEngineKept DEF JobStep
  <2>2. UNCHANGED <<up, sendBuffer>>
    BY <1>1, <1>2, <1>3, AgentEngineKept DEF JobStep, Submit, FailQueued, Reject, netVars
  <2>3. /\ \A t \in Socket, i \in Job : i \in Reports(up'[t]) => i \in InFlight
        /\ \A v \in Worker, i \in Job : i \in Reports(sendBuffer'[v]) => i \in InFlight
    BY <2>2 DEF InFlight
  <2> QED BY <1>1, <2>1, <2>3, ReportFrame
<1>4. ASSUME UNCHANGED vars PROVE EngineInv' /\ ReportInv'
  <2>1. UNCHANGED <<active, engineVars, registry, running, up, sendBuffer>>
    BY <1>4 DEF vars, engineVars, netVars
  <2>2. EngineInv' /\ SentKept
    BY <1>1, <1>2, <2>1, EngineStutter
  <2>3. /\ \A t \in Socket, i \in Job : i \in Reports(up'[t]) => i \in InFlight
        /\ \A v \in Worker, i \in Job : i \in Reports(sendBuffer'[v]) => i \in InFlight
    BY <2>1 DEF InFlight
  <2> QED BY <1>1, <2>1, <2>2, <2>3, ReportFrame DEF RunningSent
<1>5. EngineInv' /\ ReportInv'
  BY <1>1, <1>2, <1>3, <1>4, WorkerReports, SocketReports, RestartReports DEF Next
<1> QED BY <1>2, <1>5 DEF Inv

\* The queue holds exactly the active jobs without a worker, each with its
\* timeout armed, for every number of jobs, workers, reconnections and restarts.
THEOREM QueueAlwaysExact == Spec => []QueueExact
<1>1. Inv => QueueExact
  BY DEF Inv, EngineInv
<1> QED BY InvInit, InvStep, <1>1, PTL DEF Spec

\* No job stays assigned to a connection the registry has forgotten.
THEOREM AlwaysAssignedToRegistered == Spec => []AssignedToRegistered
<1>1. Inv => AssignedToRegistered
  BY DEF Inv, EngineInv
<1> QED BY InvInit, InvStep, <1>1, PTL DEF Spec

\* A report never settles or refunds a job that is still waiting in the queue.
THEOREM ReportsNeverHitTheQueue ==
    Spec => [](\A j \in InFlight : j \notin queue)
<1>1. Inv => \A j \in InFlight : j \notin queue
  BY DEF Inv, EngineInv, QueueExact, ReportInv, Sent
<1> QED BY InvInit, InvStep, <1>1, PTL DEF Spec

-----------------------------------------------------------------------------
(***************************************************************************)
(* What JobLedger promises therefore holds of the orchestrator.            *)
(***************************************************************************)
Promise == INSTANCE JobLedgerProofs WITH Amount <- Amounts

LEMMA SamePromise == LedgerPromise => Promise!Spec
<1>1. Ledger!Init => Promise!Init
  BY DEF Ledger!Init, Promise!Init, Ledger!NewRow, Promise!NewRow
<1>2. ASSUME [Ledger!Next]_Ledger!vars PROVE [Promise!Next]_Promise!vars
  <2>1. ASSUME NEW j \in Job PROVE
           /\ Ledger!Reject(j) => Promise!Reject(j)
           /\ Ledger!Admit(j) => Promise!Admit(j)
           /\ Ledger!Complete(j) => Promise!Complete(j)
           /\ Ledger!AdmitAndFail(j) => Promise!AdmitAndFail(j)
           /\ Ledger!AdmitAndComplete(j) => Promise!AdmitAndComplete(j)
    BY DEF Ledger!Reject, Promise!Reject, Ledger!Admit, Promise!Admit, Ledger!Complete,
           Promise!Complete, Ledger!AdmitAndFail, Promise!AdmitAndFail,
           Ledger!AdmitAndComplete, Promise!AdmitAndComplete, Ledger!Unseen, Promise!Unseen,
           Ledger!Failure, Promise!Failure
  <2>2. ASSUME NEW jobs \in SUBSET Job PROVE Ledger!Fail(jobs) => Promise!Fail(jobs)
    BY DEF Ledger!Fail, Promise!Fail, Ledger!Failure, Promise!Failure
  <2>3. UNCHANGED Ledger!vars => UNCHANGED Promise!vars
    BY DEF Ledger!vars, Promise!vars
  <2> QED BY <1>2, <2>1, <2>2, <2>3 DEF Ledger!Next, Promise!Next
<1> QED BY <1>1, <1>2, PTL DEF LedgerPromise, Ledger!Spec, Promise!Spec

\* In every state a job's ledger entries add up to what its row says: minus the
\* reservation while it is open, minus the charge once settled, zero once refunded.
THEOREM OrchestratorNetExact == Spec => []Promise!NetExact
<1>1. Promise!Spec => []Promise!NetExact
  BY AmountsType, Promise!LedgerNetExact
<1> QED BY <1>1, ImplementsLedger, SamePromise, PTL

\* A caller is told of a success exactly when charged and of a failure exactly
\* when refunded.
THEOREM OrchestratorToldTruth == Spec => []Promise!ToldTruth
<1>1. Promise!Spec => []Promise!ToldTruth
  BY AmountsType, Promise!LedgerToldTruth
<1> QED BY <1>1, ImplementsLedger, SamePromise, PTL

\* Once a caller has an outcome nothing about the job's money or verdict changes:
\* no second settlement, no refund after a charge, no second refund.
THEOREM OrchestratorOutcomeIsFinal == Spec => Promise!OutcomeIsFinal
<1>1. Promise!Spec => Promise!OutcomeIsFinal
  BY AmountsType, Promise!LedgerOutcomeIsFinal
<1> QED BY <1>1, ImplementsLedger, SamePromise, PTL

-----------------------------------------------------------------------------
(***************************************************************************)
(* What one pass over the queue hands out, and in which order.             *)
(***************************************************************************)
\* j is dispatched by a pass that starts from the assignment asg.
Started(asg, j) == asg[j] = NoSocket /\ assigned'[j] # NoSocket

\* Only waiting jobs are dispatched, each to an idle worker of its own, and the
\* worker receives it if its connection is open.
Handed(act, asg, q, reg) ==
    /\ \A j \in Job : ~Started(asg, j) => assigned'[j] = asg[j]
    /\ \A j \in Job : Started(asg, j) =>
          /\ j \in q /\ j \in act
          /\ assigned'[j] \in Socket
          /\ reg[assigned'[j]] = "idle" /\ registry'[assigned'[j]] = "busy"
    /\ \A i, j \in Job :
          Started(asg, i) /\ Started(asg, j) /\ assigned'[i] = assigned'[j] => i = j
    /\ \A s \in Socket : registry'[s] # reg[s] => \E j \in Job : Started(asg, j) /\ assigned'[j] = s
    /\ \A w \in Worker, j \in Job : j \in running'[w] =>
          j \in running[w] \/ (Started(asg, j) /\ owner[assigned'[j]] = w)

\* A job that stays behind has left every worker it could have had to the jobs
\* before it, and those before it that wait on are still before it.
InTurn(act, asg, q, ahd) ==
    /\ \A i, j \in q :
          /\ i \in act /\ asg[i] = NoSocket /\ Started(asg, j)
          /\ JobModel[i] = JobModel[j] /\ j \notin ahd[i]
          => assigned'[i] # NoSocket
    /\ \A j \in Job : ahead'[j] \subseteq ahd[j] \cap queue'
    /\ \A j \in Job : ahead'[j] # {} => j \in queue'

LEMMA ScheduleHands ==
    ASSUME NEW act \in SUBSET Job, NEW asg \in [Job -> Socket \cup {NoSocket}],
           NEW q \in SUBSET Job, NEW ahd \in [Job -> SUBSET Job],
           NEW reg \in [Socket -> {"absent", "idle", "busy"}], NEW tms \in SUBSET Job,
           running \in [Worker -> SUBSET Job],
           Schedule(act, asg, q, ahd, reg, tms)
    PROVE  Handed(act, asg, q, reg) /\ InTurn(act, asg, q, ahd)
<1> DEFINE waiting == {j \in q : j \in act /\ asg[j] = NoSocket}
<1>1. PICK m \in Matchings(waiting, ahd, reg) :
        LET started == {j \in waiting : m[j] # NoSocket}
            left    == waiting \ started
        IN  /\ assigned' = [j \in Job |-> IF j \in started THEN m[j] ELSE asg[j]]
            /\ registry' = [s \in Socket |->
                  IF \E j \in started : m[j] = s THEN "busy" ELSE reg[s]]
            /\ queue' = left
            /\ ahead' = [j \in Job |-> IF j \in left THEN ahd[j] \cap left ELSE {}]
            /\ timers' = tms \ started
            /\ running' = [w \in Worker |-> running[w] \cup
                  {j \in started : link[m[j]] = "open" /\ owner[m[j]] = w}]
  BY DEF Schedule
<1>2. /\ m \in [waiting -> Socket \cup {NoSocket}]
      /\ \A j \in waiting :
            /\ m[j] # NoSocket => /\ m[j] \in IdleFor(j, reg)
                                  /\ \A i \in waiting \ {j} : m[i] # m[j]
            /\ m[j] = NoSocket =>
                  \A s \in IdleFor(j, reg) : \E i \in ahd[j] \cap waiting : m[i] = s
  BY <1>1 DEF Matchings
<1> DEFINE started == {j \in waiting : m[j] # NoSocket}
<1> DEFINE left == waiting \ started
<1>3. assigned' = [j \in Job |-> IF j \in started THEN m[j] ELSE asg[j]]
  BY <1>1
<1>4. registry' = [s \in Socket |->
                  IF \E j \in started : m[j] = s THEN "busy" ELSE reg[s]]
  BY <1>1
<1>5. queue' = left
  BY <1>1
<1>6. ahead' = [j \in Job |-> IF j \in left THEN ahd[j] \cap left ELSE {}]
  BY <1>1
<1>7. running' = [w \in Worker |-> running[w] \cup
                  {j \in started : link[m[j]] = "open" /\ owner[m[j]] = w}]
  BY <1>1
<1>8. /\ started \subseteq Job /\ started \subseteq q /\ started \subseteq act
      /\ \A j \in started : /\ m[j] \in Socket /\ reg[m[j]] = "idle" /\ asg[j] = NoSocket
                            /\ \A i \in started : m[i] = m[j] => i = j
  BY <1>2 DEF IdleFor
<1>9. \A j \in Job : j \in started => assigned'[j] = m[j]
  BY <1>3
<1>10. \A j \in Job : j \notin started => assigned'[j] = asg[j]
  BY <1>3
<1>11. \A j \in Job : Started(asg, j) <=> j \in started
  BY <1>8, <1>9, <1>10 DEF Started
<1>12. \A s \in Socket : registry'[s] # reg[s] => \E j \in started : m[j] = s
  BY <1>4
<1>13. \A j \in started : registry'[m[j]] = "busy"
  BY <1>4, <1>8
<1>14. \A w \in Worker, j \in Job : j \in running'[w] =>
          j \in running[w] \/ (j \in started /\ owner[m[j]] = w)
  BY <1>7
<1>15. InTurn(act, asg, q, ahd)
  <2>1. \A j \in Job : /\ ahead'[j] \subseteq ahd[j] \cap queue'
                       /\ ahead'[j] # {} => j \in queue'
    BY <1>5, <1>6
  <2>2. ASSUME NEW i \in q, NEW j \in q, i \in act, asg[i] = NoSocket, Started(asg, j),
               JobModel[i] = JobModel[j], j \notin ahd[i], assigned'[i] = NoSocket
        PROVE  FALSE
    <3>1. i \in waiting /\ m[i] = NoSocket
      BY <1>8, <1>9, <2>2, WorkerAssumption
    <3>2. j \in waiting /\ m[j] # NoSocket /\ m[j] \in IdleFor(j, reg)
      BY <1>2, <1>11, <2>2
    <3>3. m[j] \in IdleFor(i, reg)
      BY <2>2, <3>2 DEF IdleFor
    <3>4. PICK h \in ahd[i] \cap waiting : m[h] = m[j]
      BY <1>2, <3>1, <3>3
    <3>5. h = j
      BY <1>2, <3>2, <3>4
    <3> QED BY <2>2, <3>4, <3>5
  <2> QED BY <2>1, <2>2 DEF InTurn
<1> HIDE DEF started, left, waiting
<1> QED
  BY <1>8, <1>9, <1>10, <1>11, <1>12, <1>13, <1>14, <1>15 DEF Handed

-----------------------------------------------------------------------------
(***************************************************************************)
(* Jobs for one model are dispatched in the order they were submitted.     *)
(***************************************************************************)
\* Jobs wait in a strict order, and only behind jobs that wait as well.
OrderInv ==
    \A j \in Job : \A i \in ahead[j] : i \in queue /\ j \in queue /\ j \notin ahead[i]

\* NoOvertaking, of one step.
InOrder ==
    \A i, j \in Job :
        /\ i \in ahead[j]
        /\ JobModel[i] = JobModel[j]
        /\ assigned[j] = NoSocket
        /\ assigned'[j] # NoSocket
        => assigned'[i] # NoSocket

LEMMA OrderPass ==
    ASSUME NEW act \in SUBSET Job, NEW asg \in [Job -> Socket \cup {NoSocket}],
           NEW q \in SUBSET Job, NEW ahd \in [Job -> SUBSET Job],
           NEW reg \in [Socket -> {"absent", "idle", "busy"}], NEW tms \in SUBSET Job,
           running \in [Worker -> SUBSET Job],
           Schedule(act, asg, q, ahd, reg, tms),
           \A j \in Job : \A i \in ahd[j] : i \in q /\ j \in q /\ j \notin ahd[i],
           \A j \in Job : \A i \in ahead[j] : i \in ahd[j] /\ i \in act /\ asg[i] = NoSocket,
           \A j \in Job : assigned[j] = NoSocket => asg[j] = NoSocket
    PROVE  OrderInv' /\ InOrder
<1>1. InTurn(act, asg, q, ahd)
  BY ScheduleHands
<1>2. OrderInv'
  <2> SUFFICES ASSUME NEW j \in Job, NEW i \in ahead'[j]
               PROVE  i \in queue' /\ j \in queue' /\ j \notin ahead'[i]
    BY DEF OrderInv
  <2>1. i \in ahd[j] /\ i \in queue' /\ j \in queue'
    BY <1>1 DEF InTurn
  <2>2. i \in Job /\ j \notin ahd[i]
    BY <2>1
  <2> QED BY <1>1, <2>1, <2>2 DEF InTurn
<1>3. InOrder
  <2> SUFFICES ASSUME NEW i \in Job, NEW j \in Job, i \in ahead[j], JobModel[i] = JobModel[j],
                      assigned[j] = NoSocket, assigned'[j] # NoSocket
               PROVE  assigned'[i] # NoSocket
    BY DEF InOrder
  <2>1. i \in ahd[j] /\ i \in act /\ asg[i] = NoSocket
    OBVIOUS
  <2>2. i \in q /\ j \in q /\ j \notin ahd[i] /\ Started(asg, j)
    BY <2>1 DEF Started
  <2> QED BY <1>1, <2>1, <2>2 DEF InTurn
<1> QED BY <1>2, <1>3

LEMMA OrderStutter ==
    ASSUME OrderInv, UNCHANGED <<queue, ahead>>, UNCHANGED assigned
    PROVE  OrderInv' /\ InOrder
BY DEF OrderInv, InOrder

LEMMA SubmitOrder ==
    ASSUME Inv, OrderInv, NEW j \in Job, Submit(j)
    PROVE  OrderInv' /\ InOrder
<1>1. CASE Reject(j)
  BY <1>1, OrderStutter DEF Reject, engineVars
<1>2. CASE ~Reject(j)
  <2> DEFINE ahd == [ahead EXCEPT ![j] = queue]
  <2>1. /\ TypeOK /\ QueueExact /\ UnassignedInv
        /\ j \notin active
    BY OpenRow DEF Inv, EngineInv, JobsInv, Owned, Submit, Unseen
  <2>2. Schedule(active \cup {j}, assigned, queue \cup {j}, ahd, registry, timers \cup {j})
    BY <1>2 DEF Submit
  <2>3. /\ active \cup {j} \in SUBSET Job /\ queue \cup {j} \in SUBSET Job
        /\ timers \cup {j} \in SUBSET Job
        /\ assigned \in [Job -> Socket \cup {NoSocket}]
        /\ registry \in [Socket -> {"absent", "idle", "busy"}]
        /\ running \in [Worker -> SUBSET Job]
        /\ ahead \in [Job -> SUBSET Job]
        /\ queue = {i \in active : assigned[i] = NoSocket}
        /\ assigned[j] = NoSocket
    BY <2>1 DEF TypeOK, QueueExact, UnassignedInv
  <2>4. /\ ahd \in [Job -> SUBSET Job]
        /\ ahd[j] = queue /\ \A i \in Job \ {j} : ahd[i] = ahead[i]
    BY <2>3
  <2> HIDE DEF ahd
  <2>5. j \notin queue /\ \A i \in Job : j \notin ahead[i] /\ i \notin ahead[j]
    BY <2>1, <2>3 DEF OrderInv
  <2>6. \A i \in Job : \A h \in ahd[i] :
           h \in queue \cup {j} /\ i \in queue \cup {j} /\ i \notin ahd[h]
    BY <2>3, <2>4, <2>5 DEF OrderInv
  <2>7. \A i \in Job : \A h \in ahead[i] :
           h \in ahd[i] /\ h \in active \cup {j} /\ assigned[h] = NoSocket
    BY <2>3, <2>4, <2>5 DEF OrderInv
  <2> QED BY <2>2, <2>3, <2>4, <2>6, <2>7, OrderPass
<1> QED BY <1>1, <1>2

LEMMA FailQueuedOrder ==
    ASSUME Inv, OrderInv, NEW j \in Job, FailQueued(j)
    PROVE  OrderInv' /\ InOrder
<1>1. UNCHANGED assigned
  BY DEF FailQueued
<1>2. CASE j \in active /\ assigned[j] = NoSocket
  <2>1. /\ queue' = queue \ {j}
        /\ ahead' = [i \in Job |-> IF i = j THEN {} ELSE ahead[i] \ {j}]
    BY <1>2 DEF FailQueued
  <2>2. \A i \in Job : ahead[i] \subseteq Job
    BY DEF Inv, TypeOK
  <2>3. \A i \in Job : \A h \in ahead'[i] : i # j /\ h # j /\ h \in ahead[i]
    BY <2>1
  <2>4. \A i \in Job : ahead'[i] \subseteq ahead[i]
    BY <2>1
  <2> QED BY <1>1, <2>1, <2>2, <2>3, <2>4 DEF OrderInv, InOrder
<1>3. CASE ~(j \in active /\ assigned[j] = NoSocket)
  BY <1>1, <1>3, OrderStutter DEF FailQueued
<1> QED BY <1>2, <1>3

\* A report, or a disconnection, passes the queue on as it is.
LEMMA OrderKept ==
    ASSUME Inv, OrderInv, NEW act \in SUBSET active,
           NEW asg \in [Job -> Socket \cup {NoSocket}],
           NEW reg \in [Socket -> {"absent", "idle", "busy"}],
           Schedule(act, asg, queue, ahead, reg, timers),
           \A j \in active \ act : assigned[j] # NoSocket,
           \A j \in Job : asg[j] = assigned[j] \/ asg[j] = NoSocket
    PROVE  OrderInv' /\ InOrder
<1>1. /\ act \in SUBSET Job /\ queue \in SUBSET Job /\ timers \in SUBSET Job
      /\ ahead \in [Job -> SUBSET Job] /\ running \in [Worker -> SUBSET Job]
      /\ queue = {i \in active : assigned[i] = NoSocket}
  BY DEF Inv, TypeOK, EngineInv, QueueExact
<1>2. \A j \in Job : \A i \in ahead[j] : i \in ahead[j] /\ i \in act /\ asg[i] = NoSocket
  BY <1>1 DEF OrderInv
<1>3. \A j \in Job : \A i \in ahead[j] : i \in queue /\ j \in queue /\ j \notin ahead[i]
  BY DEF OrderInv
<1>4. \A j \in Job : assigned[j] = NoSocket => asg[j] = NoSocket
  OBVIOUS
<1> QED BY <1>1, <1>2, <1>3, <1>4, OrderPass

\* A report on its way is about a job that has been dispatched.
LEMMA HeadIsSent ==
    ASSUME Inv, NEW s \in Socket, up[s] # <<>>, NEW j \in Job,
           Head(up[s]).type # "register", Head(up[s]).job = j
    PROVE  j \in Reports(up[s]) /\ Sent(j)
<1>1. up[s] \in Seq(Message) /\ 1 \in 1..Len(up[s]) /\ Head(up[s]) = up[s][1]
  BY DEF Inv, TypeOK
<1>2. j \in Reports(up[s])
  BY <1>1 DEF Reports
<1> QED BY <1>2 DEF Inv, ReportInv, InFlight

LEMMA SocketOrder ==
    ASSUME Inv, OrderInv, NEW s \in Socket, SocketStep(s)
    PROVE  OrderInv' /\ InOrder
<1>1. /\ TypeOK /\ registry \in [Socket -> {"absent", "idle", "busy"}]
      /\ assigned \in [Job -> Socket \cup {NoSocket}]
  BY DEF Inv, TypeOK
<1>2. ASSUME NEW j \in Job, OnWorkerDone(s, j) \/ OnWorkerError(s, j),
             j \in active => assigned[j] # NoSocket
      PROVE  OrderInv' /\ InOrder
  <2>1. CASE Schedule(active \ {j}, [assigned EXCEPT ![j] = NoSocket],
                      queue, ahead, Freed(s), timers)
    <3>1. Freed(s) \in [Socket -> {"absent", "idle", "busy"}]
      BY <1>1, FreedType
    <3> DEFINE act == active \ {j}
               asg == [assigned EXCEPT ![j] = NoSocket]
    <3>2. /\ act \in SUBSET active /\ asg \in [Job -> Socket \cup {NoSocket}]
          /\ \A i \in active \ act : assigned[i] # NoSocket
          /\ \A i \in Job : asg[i] = assigned[i] \/ asg[i] = NoSocket
      BY <1>1, <1>2
    <3> HIDE DEF act, asg
    <3>3. Schedule(act, asg, queue, ahead, Freed(s), timers)
      BY <2>1 DEF act, asg
    <3> QED BY <3>1, <3>2, <3>3, OrderKept
  <2>2. CASE UNCHANGED engineVars
    BY <2>2, OrderStutter DEF engineVars
  <2> QED BY <1>2, <2>1, <2>2 DEF OnWorkerDone, OnWorkerError
<1>3. CASE Receive(s)
  <2>1. CASE Register(s)
    BY <2>1, OrderStutter DEF Register, engineVars
  <2>2. CASE ~Register(s)
    <3>1. PICK j \in Job : /\ Head(up[s]).type # "register" /\ Head(up[s]).job = j
                           /\ OnWorkerDone(s, j) \/ OnWorkerError(s, j)
      BY <1>1, <1>3, <2>2, ReceiveCases
    <3>2. j \in active => assigned[j] # NoSocket
      BY <1>3, <3>1, HeadIsSent DEF Receive, Sent
    <3> QED BY <1>2, <3>1, <3>2
  <2> QED BY <2>1, <2>2
<1>4. CASE LinkDrop(s)
  BY <1>4, OrderStutter DEF LinkDrop, engineVars
<1>5. CASE Disconnect(s)
  <2> DEFINE lost == {j \in active : assigned[j] = s}
             act == active \ lost
             asg == [j \in Job |-> IF j \in lost THEN NoSocket ELSE assigned[j]]
             reg == [registry EXCEPT ![s] = "absent"]
  <2>1. Schedule(act, asg, queue, ahead, reg, timers)
    BY <1>5 DEF Disconnect, OnWorkerGone
  <2>2. /\ act \in SUBSET active /\ asg \in [Job -> Socket \cup {NoSocket}]
        /\ reg \in [Socket -> {"absent", "idle", "busy"}]
        /\ \A j \in active \ act : assigned[j] # NoSocket
        /\ \A j \in Job : asg[j] = assigned[j] \/ asg[j] = NoSocket
    BY <1>1, WorkerAssumption
  <2> HIDE DEF act, asg, reg
  <2> QED BY <2>1, <2>2, OrderKept
<1> QED BY <1>3, <1>4, <1>5 DEF SocketStep

LEMMA OrderStep ==
    ASSUME Inv, OrderInv, [Next]_vars
    PROVE  OrderInv' /\ InOrder
<1>1. ASSUME NEW j \in Job,
             \/ StartAgent(j) \/ AgentReply(j) \/ AgentTimeout(j) \/ AgentTools(j)
             \/ AnswerArithmetic(j) \/ StartAristotle(j) \/ AristotleReturns(j)
      PROVE  UNCHANGED engineVars
  BY <1>1 DEF StartAgent, AgentReply, AgentTimeout, AgentTools, FinishAgent, AbortAgent,
              AnswerArithmetic, StartAristotle, AristotleReturns, Reject
<1>2. ASSUME NEW j \in Job, JobStep(j) PROVE OrderInv' /\ InOrder
  <2>1. CASE UNCHANGED engineVars
    BY <2>1, OrderStutter DEF engineVars
  <2> QED BY <1>1, <1>2, <2>1, SubmitOrder, FailQueuedOrder DEF JobStep
<1>3. ASSUME NEW w \in Worker, WorkerStep(w) PROVE OrderInv' /\ InOrder
  BY <1>3, OrderStutter DEF WorkerStep, Connect, Report, WorkerCrash, engineVars
<1>4. CASE Restart
  BY <1>4 DEF Restart, OrderInv, InOrder
<1>5. CASE UNCHANGED vars
  BY <1>5, OrderStutter DEF vars, engineVars
<1> QED BY <1>2, <1>3, <1>4, <1>5, SocketOrder DEF Next

\* A worker that could have had the earlier of two waiting jobs is never given
\* the later one, however the queue and the fleet change between the two.
THEOREM JobsDoNotOvertake == Spec => NoOvertaking
<1>1. Init => OrderInv
  BY DEF Init, OrderInv
<1>2. Inv /\ OrderInv /\ [Next]_vars => OrderInv' /\ [InOrder]_vars
  BY OrderStep
<1>3. [InOrder]_vars =>
        [\A i, j \in Job :
          /\ i \in ahead[j]
          /\ JobModel[i] = JobModel[j]
          /\ assigned[j] = NoSocket
          /\ assigned'[j] # NoSocket
          => assigned'[i] # NoSocket]_vars
  BY DEF InOrder
<1> QED
  BY InvInit, InvStep, <1>1, <1>2, <1>3, PTL DEF Spec, NoOvertaking

-----------------------------------------------------------------------------
(***************************************************************************)
(* Workers, their connections, and what is on its way between them and the *)
(* orchestrator.                                                           *)
(***************************************************************************)
\* What w has been given and still has to report, or has reported without the
\* orchestrator having read it.
Holds(w, j) ==
    \/ j \in running[w]
    \/ j \in Reports(sendBuffer[w])
    \/ \E s \in Socket : owner[s] = w /\ j \in Reports(up[s])

\* An active job that a worker holds is assigned to a connection of that worker.
HolderInv ==
    \A w \in Worker, j \in active :
        Holds(w, j) => assigned[j] # NoSocket /\ owner[assigned[j]] = w

\* The life of a connection: it belongs to a worker once it is open, carries
\* messages only while it is open, and is known to the registry at most until
\* the orchestrator notices that it broke.
LinkInv ==
    \A s \in Socket :
        /\ (link[s] = "fresh") <=> (owner[s] = NoWorker)
        /\ up[s] # <<>> => link[s] = "open"
        /\ registry[s] # "absent" => link[s] \in {"open", "half"}

\* A run uses a connection that has been opened.
AgentInv ==
    \A j \in Job :
        /\ AgentRun(j) <=> (agent[j].on # NoSocket)
        /\ AgentRun(j) => (link[agent[j].on] # "fresh")

\* A worker has one open connection at a time, and sends what it buffered on it.
OpenInv ==
    \A s \in Socket : link[s] = "open" =>
        /\ sendBuffer[owner[s]] = <<>>
        /\ \A t \in Socket : link[t] = "open" /\ owner[t] = owner[s] => t = s

\* A worker has had a connection before it holds anything.
KnownInv ==
    \A w \in Worker : running[w] # {} \/ sendBuffer[w] # <<>> => \E s \in Socket : owner[s] = w

\* No job is reported twice, as long as nobody reads the reports ...
NoRepeats(msgs) ==
    \A k, l \in 1..Len(msgs) :
        /\ msgs[k].type # "register" /\ msgs[l].type # "register"
        /\ msgs[k].job = msgs[l].job
        => k = l

\* ... and no job that still runs has been reported.
OnceInv ==
    /\ \A w \in Worker : NoRepeats(sendBuffer[w])
    /\ \A s \in Socket : NoRepeats(up[s])
    /\ \A w \in Worker : \A j \in running[w] :
          /\ j \notin Reports(sendBuffer[w])
          /\ \A s \in Socket : owner[s] = w => j \notin Reports(up[s])

\* The worker of s never had another connection.
Only(s) == \A t \in Socket \ {s} : owner[t] # owner[s]

\* Nothing is assigned to s, nor run on it.
Unloaded(s) == (\A j \in active : assigned[j] # s) /\ (\A j \in Job : agent[j].on # s)

Registers(msgs) == {k \in 1..Len(msgs) : msgs[k].type = "register"}

\* A connection registers once, before it is given anything.
RegisterInv ==
    /\ \A w \in Worker : Registers(sendBuffer[w]) = {}
    /\ \A s \in Socket : Registers(up[s]) # {} =>
          /\ registry[s] = "absent" /\ Unloaded(s)
          /\ \A k, l \in Registers(up[s]) : k = l

\* On its only connection a worker only holds what is active, is idle only when it
\* has nothing to do, and never has two things to do.
OnlyInv ==
    \A s \in Socket : Only(s) =>
        /\ link[s] = "open" => \A j \in Job : Holds(owner[s], j) => j \in active
        /\ registry[s] = "idle" => Unloaded(s)
        /\ \A i, j \in Load(s) : i = j

NetInv ==
    /\ HolderInv /\ LinkInv /\ AgentInv /\ OpenInv /\ KnownInv
    /\ OnceInv /\ RegisterInv /\ OnlyInv /\ NoBusyLeak

-----------------------------------------------------------------------------
LEMMA AppendMail ==
    ASSUME NEW msgs \in Seq(Message), NEW msg \in Message, NoRepeats(msgs),
           msg.type # "register" => msg.job \notin Reports(msgs)
    PROVE  /\ NoRepeats(Append(msgs, msg))
           /\ Append(msgs, msg) # <<>>
           /\ \A k \in Registers(Append(msgs, msg)) :
                 k \in Registers(msgs) \/ (k = Len(msgs) + 1 /\ msg.type = "register")
<1> DEFINE new == Append(msgs, msg)
<1>1. /\ Len(new) = Len(msgs) + 1 /\ Len(msgs) \in Nat
      /\ \A i \in 1..Len(msgs) : new[i] = msgs[i]
      /\ new[Len(msgs) + 1] = msg
      /\ new # <<>>
  BY AppendProperties, LenProperties
<1> HIDE DEF new
<1>2. \A k \in 1..Len(new) : k \in 1..Len(msgs) \/ k = Len(msgs) + 1
  BY <1>1
<1>3. NoRepeats(new)
  <2> SUFFICES ASSUME NEW k \in 1..Len(new), NEW l \in 1..Len(new),
                      new[k].type # "register", new[l].type # "register",
                      new[k].job = new[l].job
               PROVE  k = l
    BY DEF NoRepeats
  <2>1. CASE k \in 1..Len(msgs) /\ l \in 1..Len(msgs)
    BY <1>1, <2>1 DEF NoRepeats
  <2>2. ASSUME NEW i \in 1..Len(msgs), new[i].type # "register", msg.type # "register"
        PROVE  new[i].job # msg.job
    BY <1>1, <2>2 DEF Reports
  <2> QED BY <1>1, <1>2, <2>1, <2>2
<1>4. \A k \in Registers(new) :
         k \in Registers(msgs) \/ (k = Len(msgs) + 1 /\ msg.type = "register")
  BY <1>1, <1>2 DEF Registers
<1> QED BY <1>1, <1>3, <1>4 DEF new

LEMMA TailMail ==
    ASSUME NEW msgs \in Seq(Message), msgs # <<>>, NoRepeats(msgs)
    PROVE  /\ NoRepeats(Tail(msgs))
           /\ \A k \in Registers(Tail(msgs)) : k \in Nat /\ k >= 1 /\ k + 1 \in Registers(msgs)
           /\ Head(msgs).type = "register" => 1 \in Registers(msgs)
           /\ Head(msgs).type # "register" => Head(msgs).job \notin Reports(Tail(msgs))
<1>1. /\ Len(msgs) \in Nat /\ Len(msgs) >= 1
      /\ Len(Tail(msgs)) = Len(msgs) - 1
      /\ \A i \in 1..Len(Tail(msgs)) : Tail(msgs)[i] = msgs[i + 1]
      /\ Head(msgs) = msgs[1]
  BY HeadTailProperties, EmptySeq, LenProperties
<1> DEFINE rest == Tail(msgs)
<1>2. \A k \in 1..Len(rest) : k \in Nat /\ k >= 1 /\ k + 1 \in 1..Len(msgs) /\ rest[k] = msgs[k + 1]
  BY <1>1
<1>3. 1 \in 1..Len(msgs)
  BY <1>1
<1> HIDE DEF rest
<1>4. NoRepeats(rest)
  <2> SUFFICES ASSUME NEW k \in 1..Len(rest), NEW l \in 1..Len(rest),
                      rest[k].type # "register", rest[l].type # "register",
                      rest[k].job = rest[l].job
               PROVE  k = l
    BY DEF NoRepeats
  <2>1. /\ k + 1 \in 1..Len(msgs) /\ l + 1 \in 1..Len(msgs)
        /\ msgs[k + 1] = rest[k] /\ msgs[l + 1] = rest[l]
    BY <1>2
  <2>2. \A i, n \in 1..Len(msgs) : msgs[i] = rest[k] /\ msgs[n] = rest[l] => i = n
    BY DEF NoRepeats
  <2>3. k + 1 = l + 1
    BY <2>1, <2>2
  <2> QED BY <1>2, <2>3
<1>5. \A k \in Registers(rest) : k \in Nat /\ k >= 1 /\ k + 1 \in Registers(msgs)
  BY <1>2 DEF Registers
<1>6. Head(msgs).type = "register" => 1 \in Registers(msgs)
  BY <1>1, <1>3 DEF Registers
<1>7. ASSUME Head(msgs).type # "register", Head(msgs).job \in Reports(rest) PROVE FALSE
  <2>1. PICK k \in 1..Len(rest) : rest[k].type # "register" /\ rest[k].job = Head(msgs).job
    BY <1>7 DEF Reports
  <2>2. k + 1 = 1
    BY <1>1, <1>2, <1>3, <1>7, <2>1 DEF NoRepeats
  <2> QED BY <1>2, <2>2
<1> QED BY <1>4, <1>5, <1>6, <1>7 DEF rest

LEMMA NoMail == NoRepeats(<<>>) /\ Registers(<<>>) = {} /\ Reports(<<>>) = {}
BY DEF NoRepeats, Registers, Reports

\* Reading a message, or losing them all, adds nothing to what is on its way.
LEMMA LessMail ==
    ASSUME NEW msgs \in Seq(Message), NoRepeats(msgs), NEW rest,
           rest = msgs \/ rest = <<>> \/ (msgs # <<>> /\ rest = Tail(msgs))
    PROVE  /\ Reports(rest) \subseteq Reports(msgs) /\ NoRepeats(rest)
           /\ rest # <<>> => msgs # <<>>
           /\ Registers(rest) # {} => Registers(msgs) # {}
           /\ (\A k, l \in Registers(msgs) : k = l) => \A k, l \in Registers(rest) : k = l
<1>1. CASE rest = msgs
  BY <1>1
<1>2. CASE rest = <<>>
  BY <1>2, NoMail
<1>3. CASE msgs # <<>> /\ rest = Tail(msgs)
  <2>1. \A k \in Registers(rest) : k \in Nat /\ k + 1 \in Registers(msgs)
    BY <1>3, TailMail
  <2>2. Registers(rest) # {} => Registers(msgs) # {}
    BY <2>1
  <2>3. (\A k, l \in Registers(msgs) : k = l) => \A k, l \in Registers(rest) : k = l
    BY <2>1
  <2> QED BY <1>3, <2>2, <2>3, ReportsOfTail, TailMail
<1> QED BY <1>1, <1>2, <1>3

-----------------------------------------------------------------------------
(***************************************************************************)
(* What holds of the values handed to schedule(), and of the messages and  *)
(* connections the same handler has dealt with, in every one of its calls. *)
(***************************************************************************)
Passed(act, asg, reg) ==
    /\ \A j \in act : \/ j \in active /\ asg[j] = assigned[j]
                      \/ asg[j] = NoSocket /\ ~Sent(j)
    /\ \A j \in Job \ act : asg[j] = NoSocket
    /\ \A s \in Socket :
          /\ registry[s] = "absent" => reg[s] = "absent"
          /\ reg[s] = "busy" => registry[s] = "busy"
          /\ Only(s) /\ reg[s] = "idle" =>
                (\A j \in act : asg[j] # s) /\ (\A j \in Job : agent[j].on # s)
          /\ up'[s] = up[s] \/ (up[s] # <<>> /\ up'[s] = Tail(up[s]))
          /\ \/ link'[s] = link[s]
             \/ link[s] = "half" /\ link'[s] = "gone" /\ reg[s] = "absent"
    \* A job that is dropped leaves no busy worker, and no trace of its dispatch.
    /\ \A j \in active \ act : \A s \in Socket : link'[s] = "open" =>
          /\ assigned[j] = s => reg[s] # "busy"
          /\ Only(s) => /\ j \notin running[owner[s]]
                        /\ j \notin Reports(sendBuffer[owner[s]])
                        /\ \A t \in Socket : owner[t] = owner[s] => j \notin Reports(up'[t])

LEMMA HoldsSent ==
    ASSUME Inv, NEW w \in Worker, NEW j \in Job, Holds(w, j)
    PROVE  Sent(j)
BY DEF Inv, ReportInv, InFlight, Holds

LEMMA Pass ==
    ASSUME Inv, Inv', NetInv, NEW act \in SUBSET Job,
           NEW asg \in [Job -> Socket \cup {NoSocket}],
           NEW q \in SUBSET Job, NEW ahd \in [Job -> SUBSET Job],
           NEW reg \in [Socket -> {"absent", "idle", "busy"}], NEW tms \in SUBSET Job,
           Schedule(act, asg, q, ahd, reg, tms),
           Passed(act, asg, reg), active' = act,
           UNCHANGED <<agent, owner, sendBuffer>>
    PROVE  NetInv'
<1>1. TypeOK /\ TypeOK' /\ JobsInv
  BY DEF Inv
<1>2. Handed(act, asg, q, reg)
  <2>1. running \in [Worker -> SUBSET Job]
    BY <1>1 DEF TypeOK
  <2> QED BY <2>1, ScheduleHands
<1>3. \A j \in Job : Started(asg, j) => j \in act /\ ~Sent(j)
  BY <1>2 DEF Handed, Started, Passed, Sent
<1>4. \A j \in act : assigned'[j] # NoSocket =>
         Started(asg, j) \/ (j \in active /\ assigned'[j] = assigned[j])
  BY <1>2 DEF Handed, Started, Passed
<1>5. \A j \in act : j \in active /\ assigned[j] # NoSocket =>
         ~Started(asg, j) /\ assigned'[j] = assigned[j]
  <2> SUFFICES ASSUME NEW j \in act, j \in active, assigned[j] # NoSocket
               PROVE  ~Started(asg, j) /\ assigned'[j] = assigned[j]
    OBVIOUS
  <2>1. Sent(j)
    BY <1>1, OpenRow DEF JobsInv, Owned, Sent
  <2>2. asg[j] = assigned[j]
    BY <2>1 DEF Passed
  <2> QED BY <1>2, <2>2 DEF Handed, Started
<1>6. \A s \in Socket :
         \/ registry'[s] = reg[s]
         \/ /\ reg[s] = "idle" /\ registry'[s] = "busy"
            /\ \E j \in act : Started(asg, j) /\ assigned'[j] = s
  BY <1>2 DEF Handed
<1>7. \A j \in act : Started(asg, j) => reg[assigned'[j]] = "idle" /\ assigned'[j] \in Socket
  BY <1>2 DEF Handed
<1>8. \A s \in Socket :
         /\ Reports(up'[s]) \subseteq Reports(up[s]) /\ NoRepeats(up'[s])
         /\ up'[s] # <<>> => up[s] # <<>>
         /\ Registers(up'[s]) # {} => Registers(up[s]) # {}
         /\ (\A k, l \in Registers(up[s]) : k = l) => \A k, l \in Registers(up'[s]) : k = l
  <2>1. \A s \in Socket : up[s] \in Seq(Message) /\ NoRepeats(up[s])
    BY <1>1 DEF TypeOK, NetInv, OnceInv
  <2>2. \A s \in Socket : up'[s] = up[s] \/ (up[s] # <<>> /\ up'[s] = Tail(up[s]))
    BY DEF Passed
  <2> SUFFICES ASSUME NEW s \in Socket
               PROVE  /\ Reports(up'[s]) \subseteq Reports(up[s]) /\ NoRepeats(up'[s])
                      /\ up'[s] # <<>> => up[s] # <<>>
                      /\ Registers(up'[s]) # {} => Registers(up[s]) # {}
                      /\ (\A k, l \in Registers(up[s]) : k = l)
                            => \A k, l \in Registers(up'[s]) : k = l
    OBVIOUS
  <2>3. up[s] \in Seq(Message) /\ NoRepeats(up[s])
    BY <2>1
  <2>4. up'[s] = up[s] \/ (up[s] # <<>> /\ up'[s] = Tail(up[s]))
    BY <2>2
  <2>5. CASE up'[s] = up[s]
    BY <2>3, <2>5
  <2>6. CASE up[s] # <<>> /\ up'[s] = Tail(up[s])
    BY <2>3, <2>6, LessMail
  <2> QED BY <2>4, <2>5, <2>6
<1>9. \A w \in Worker, j \in Job : Holds(w, j)' =>
         \/ j \in running'[w]
         \/ j \in Reports(sendBuffer[w])
         \/ \E s \in Socket : owner[s] = w /\ j \in Reports(up'[s])
  BY DEF Holds, Reports
<1>10. \A w \in Worker, j \in Job : j \in running'[w] =>
          j \in running[w] \/ (Started(asg, j) /\ owner[assigned'[j]] = w)
  BY <1>2 DEF Handed
<1>11. \A w \in Worker, j \in Job : Holds(w, j)' =>
          Holds(w, j) \/ (Started(asg, j) /\ owner[assigned'[j]] = w)
  BY <1>8, <1>9, <1>10 DEF Holds
<1>12. HolderInv'
  <2> SUFFICES ASSUME NEW w \in Worker, NEW j \in act, Holds(w, j)'
               PROVE  assigned'[j] # NoSocket /\ owner[assigned'[j]] = w
    BY DEF HolderInv
  <2>1. CASE Started(asg, j)
    <3>1. ~Holds(w, j)
      BY <1>3, <2>1, HoldsSent
    <3> QED BY <1>11, <2>1, <3>1 DEF Started
  <2>2. CASE ~Started(asg, j)
    <3>1. Holds(w, j)
      BY <1>11, <2>2
    <3>2. Sent(j)
      BY <3>1, HoldsSent
    <3>3. j \in active
      BY <3>2 DEF Passed
    <3> QED BY <1>5, <3>1, <3>3 DEF NetInv, HolderInv
  <2> QED BY <2>1, <2>2
<1>13. LinkInv'
  <2> SUFFICES ASSUME NEW s \in Socket
               PROVE  /\ (link'[s] = "fresh") <=> (owner[s] = NoWorker)
                      /\ up'[s] # <<>> => link'[s] = "open"
                      /\ registry'[s] # "absent" => link'[s] \in {"open", "half"}
    BY DEF LinkInv
  <2>1. /\ (link[s] = "fresh") <=> (owner[s] = NoWorker)
        /\ up[s] # <<>> => link[s] = "open"
        /\ registry[s] # "absent" => link[s] \in {"open", "half"}
    BY DEF NetInv, LinkInv
  <2>2. registry'[s] # "absent" => reg[s] # "absent" /\ registry[s] # "absent"
    BY <1>6 DEF Passed
  <2>3. \/ link'[s] = link[s]
        \/ link[s] = "half" /\ link'[s] = "gone" /\ reg[s] = "absent"
    BY DEF Passed
  <2>4. up'[s] # <<>> => up[s] # <<>>
    BY <1>8
  <2> QED BY <2>1, <2>2, <2>3, <2>4
<1>14. AgentInv'
  <2>1. \A j \in Job : AgentRun(j)' = AgentRun(j)
    BY DEF AgentRun
  <2>2. \A j \in Job : agent[j].on \in Socket \cup {NoSocket}
    BY <1>1 DEF TypeOK, AgentState
  <2>3. \A s \in Socket : link'[s] = "fresh" => link[s] = "fresh"
    BY DEF Passed
  <2> QED BY <2>1, <2>2, <2>3 DEF NetInv, AgentInv
<1>15. OpenInv'
  <2>1. \A s \in Socket : link'[s] = "open" => link[s] = "open"
    BY DEF Passed
  <2> QED BY <2>1 DEF NetInv, OpenInv
<1>16. KnownInv'
  <2> SUFFICES ASSUME NEW w \in Worker, running'[w] # {} \/ sendBuffer[w] # <<>>
               PROVE  \E s \in Socket : owner[s] = w
    BY DEF KnownInv
  <2>1. CASE running[w] # {} \/ sendBuffer[w] # <<>>
    BY <2>1 DEF NetInv, KnownInv
  <2>2. CASE ~(running[w] # {} \/ sendBuffer[w] # <<>>)
    <3>1. PICK j \in Job : j \in running'[w]
      BY <1>1, <2>2 DEF TypeOK
    <3> QED BY <1>3, <1>7, <1>10, <2>2, <3>1
  <2> QED BY <2>1, <2>2
<1>17. OnceInv'
  <2>1. \A w \in Worker : NoRepeats(sendBuffer'[w])
    BY DEF NetInv, OnceInv
  <2>2. \A s \in Socket : NoRepeats(up'[s])
    BY <1>8 DEF NetInv, OnceInv
  <2>3. ASSUME NEW w \in Worker, NEW j \in running'[w]
        PROVE  /\ j \notin Reports(sendBuffer[w])
               /\ \A s \in Socket : owner[s] = w => j \notin Reports(up'[s])
    <3>1. j \in Job
      BY <1>1, <2>3 DEF TypeOK
    <3>2. CASE j \in running[w]
      BY <1>8, <3>2 DEF NetInv, OnceInv
    <3>3. CASE j \notin running[w]
      <4>1. ~Holds(w, j)
        BY <1>3, <1>10, <2>3, <3>1, <3>3, HoldsSent
      <4> QED BY <1>8, <4>1 DEF Holds
    <3> QED BY <3>2, <3>3
  <2>4. \A w \in Worker : \A j \in running'[w] :
           /\ j \notin Reports(sendBuffer'[w])
           /\ \A s \in Socket : owner'[s] = w => j \notin Reports(up'[s])
    BY <2>3
  <2> QED BY <2>1, <2>2, <2>4 DEF OnceInv, NoRepeats, Reports
<1>18. RegisterInv'
  <2>1. \A w \in Worker : Registers(sendBuffer'[w]) = {}
    BY DEF NetInv, RegisterInv
  <2>2. ASSUME NEW s \in Socket, Registers(up'[s]) # {}
        PROVE  /\ registry'[s] = "absent" /\ Unloaded(s)'
               /\ \A k, l \in Registers(up'[s]) : k = l
    <3>1. /\ registry[s] = "absent" /\ Unloaded(s)
          /\ \A k, l \in Registers(up[s]) : k = l
      BY <1>8, <2>2 DEF NetInv, RegisterInv
    <3>2. reg[s] = "absent"
      BY <3>1 DEF Passed
    <3>3. \A j \in act : assigned'[j] # s
      BY <1>4, <1>7, <3>1, <3>2, WorkerAssumption DEF Unloaded
    <3> QED BY <1>6, <1>8, <2>2, <3>1, <3>2, <3>3 DEF Unloaded
  <2> QED BY <2>1, <2>2 DEF RegisterInv, Registers
<1>19. OnlyInv'
  <2> SUFFICES ASSUME NEW s \in Socket, Only(s)
               PROVE  /\ link'[s] = "open" => \A j \in Job : Holds(owner[s], j)' => j \in act
                      /\ registry'[s] = "idle" => Unloaded(s)'
                      /\ \A i, j \in Load(s)' : i = j
    BY DEF OnlyInv, Only
  <2>1. /\ link[s] = "open" => \A j \in Job : Holds(owner[s], j) => j \in active
        /\ \A i, j \in Load(s) : i = j
    BY DEF NetInv, OnlyInv
  <2>2. ASSUME link'[s] = "open", NEW j \in Job, Holds(owner[s], j)', j \notin act PROVE FALSE
    <3>1. link[s] = "open"
      BY <2>2 DEF Passed
    <3>2. PICK w \in Worker : w = owner[s]
      BY <1>1, <3>1 DEF TypeOK, NetInv, LinkInv
    <3>3. Holds(w, j)'
      BY <2>2, <3>2 DEF Holds
    <3>4. ~Started(asg, j)
      BY <1>3, <2>2
    <3>5. j \in active
      BY <1>11, <2>1, <3>1, <3>2, <3>3, <3>4
    <3>6. /\ j \notin running[w] /\ j \notin Reports(sendBuffer[w])
          /\ \A t \in Socket : owner[t] = w => j \notin Reports(up'[t])
      BY <2>2, <3>2, <3>5 DEF Passed
    <3> QED BY <1>9, <1>10, <3>3, <3>4, <3>6
  <2>3. reg[s] = "idle" => (\A j \in act : asg[j] # s) /\ (\A j \in Job : agent[j].on # s)
    BY DEF Passed
  <2>4. \A j \in act : assigned'[j] = s => Started(asg, j) \/ asg[j] = s
    BY <1>2 DEF Handed
  <2>5. ASSUME registry'[s] = "idle" PROVE Unloaded(s)'
    <3>1. reg[s] = "idle"
      BY <1>6, <2>5
    <3>2. \A j \in act : ~(Started(asg, j) /\ assigned'[j] = s)
      BY <1>2, <2>5 DEF Handed
    <3> QED BY <2>3, <2>4, <3>1, <3>2 DEF Unloaded
  <2>6. Load(s)' = {j \in act : assigned'[j] = s} \cup {j \in Job : agent[j].on = s}
    BY DEF Load
  <2>7. CASE \E k \in act : Started(asg, k) /\ assigned'[k] = s
    <3>1. reg[s] = "idle"
      BY <1>7, <2>7
    <3>2. \A j \in Load(s)' : j \in act /\ Started(asg, j) /\ assigned'[j] = s
      BY <2>3, <2>4, <2>6, <3>1
    <3>3. \A i, j \in Load(s)' : i = j
      BY <1>2, <3>2 DEF Handed
    <3> QED BY <2>2, <2>5, <3>3
  <2>8. CASE ~\E k \in act : Started(asg, k) /\ assigned'[k] = s
    <3>1. \A j \in Load(s)' : j \in Load(s)
      BY <1>4, <2>6, <2>8, WorkerAssumption DEF Load
    <3> QED BY <2>1, <2>2, <2>5, <3>1
  <2> QED BY <2>7, <2>8
<1>20. NoBusyLeak'
  <2> SUFFICES ASSUME NEW s \in Socket, registry'[s] = "busy", link'[s] = "open"
               PROVE  \/ \E j \in act : assigned'[j] = s
                      \/ \E j \in Job : AgentRun(j)' /\ agent[j].on = s
    BY DEF NoBusyLeak
  <2>1. CASE registry'[s] # reg[s]
    BY <1>6, <2>1
  <2>2. CASE registry'[s] = reg[s]
    <3>1. registry[s] = "busy" /\ link[s] = "open"
      BY <2>2 DEF Passed
    <3>2. CASE \E j \in Job : AgentRun(j) /\ agent[j].on = s
      BY <3>2 DEF AgentRun
    <3>3. ASSUME NEW j \in active, assigned[j] = s PROVE j \in act /\ assigned'[j] = s
      <4>1. j \in act
        BY <2>2, <3>3 DEF Passed
      <4> QED BY <1>5, <3>3, <4>1, WorkerAssumption
    <3> QED BY <3>1, <3>2, <3>3 DEF NetInv, NoBusyLeak
  <2> QED BY <2>1, <2>2
<1> QED
  BY <1>12, <1>13, <1>14, <1>15, <1>16, <1>17, <1>18, <1>19, <1>20 DEF NetInv

LEMMA SubmitNet ==
    ASSUME Inv, Inv', NetInv, NEW j \in Job, Submit(j), ~Reject(j)
    PROVE  NetInv'
<1> DEFINE act == active \cup {j}
           ahd == [ahead EXCEPT ![j] = queue]
<1>1. /\ TypeOK /\ UnassignedInv
      /\ j \notin active /\ row[j].status = "none"
  BY OpenRow DEF Inv, EngineInv, JobsInv, Owned, Submit, Unseen
<1>2. Schedule(act, assigned, queue \cup {j}, ahd, registry, timers \cup {j})
  BY DEF Submit
<1>3. /\ active' = act /\ UNCHANGED <<agent, link, owner, up, sendBuffer>>
  BY DEF Submit, asyncVars, netVars
<1>4. /\ act \in SUBSET Job /\ queue \cup {j} \in SUBSET Job /\ timers \cup {j} \in SUBSET Job
      /\ assigned \in [Job -> Socket \cup {NoSocket}]
      /\ ahd \in [Job -> SUBSET Job]
      /\ registry \in [Socket -> {"absent", "idle", "busy"}]
  BY <1>1 DEF TypeOK
<1>5. assigned[j] = NoSocket /\ ~Sent(j)
  BY <1>1 DEF UnassignedInv, Sent
<1>6. \A s \in Socket : Only(s) /\ registry[s] = "idle" =>
         (\A i \in act : assigned[i] # s) /\ (\A i \in Job : agent[i].on # s)
  BY <1>5, WorkerAssumption DEF NetInv, OnlyInv, Unloaded
<1>7. Passed(act, assigned, registry)
  BY <1>1, <1>3, <1>5, <1>6 DEF Passed, UnassignedInv
<1> HIDE DEF act, ahd
<1> QED BY <1>2, <1>3, <1>4, <1>7, Pass

\* The head of the queue of s is a report about j: its worker holds j, and will
\* not have it any more once the report is read.
LEMMA ReportRead ==
    ASSUME Inv, NetInv, NEW s \in Socket, NEW j \in Job, link[s] = "open", up[s] # <<>>,
           up' = [up EXCEPT ![s] = Tail(@)],
           Head(up[s]).type # "register", Head(up[s]).job = j
    PROVE  /\ owner[s] \in Worker /\ Holds(owner[s], j)
           /\ \A t \in Socket : Reports(up'[t]) \subseteq Reports(up[t])
           /\ j \notin running[owner[s]] /\ j \notin Reports(sendBuffer[owner[s]])
           /\ j \notin Reports(up'[s])
<1>1. TypeOK /\ up[s] \in Seq(Message)
  BY DEF Inv, TypeOK
<1>2. owner[s] \in Worker
  BY <1>1 DEF TypeOK, NetInv, LinkInv
<1>3. j \in Reports(up[s]) /\ Reports(Tail(up[s])) \subseteq Reports(up[s])
  BY <1>1, ReportsOfTail
<1>4. j \notin Reports(Tail(up[s]))
  BY <1>1, TailMail DEF NetInv, OnceInv
<1>5. up'[s] = Tail(up[s]) /\ \A t \in Socket \ {s} : up'[t] = up[t]
  BY <1>1 DEF TypeOK
<1>6. sendBuffer[owner[s]] = <<>>
  BY DEF NetInv, OpenInv
<1> QED
  BY <1>2, <1>3, <1>4, <1>5, <1>6, NoMail DEF Holds, NetInv, OnceInv

LEMMA ReportNet ==
    ASSUME Inv, Inv', NetInv, NEW s \in Socket, NEW j \in Job, link[s] = "open", up[s] # <<>>,
           up' = [up EXCEPT ![s] = Tail(@)], UNCHANGED <<agent, link, owner, sendBuffer>>,
           Head(up[s]).type # "register", Head(up[s]).job = j, active' = active \ {j},
           Schedule(active \ {j}, [assigned EXCEPT ![j] = NoSocket],
                    queue, ahead, Freed(s), timers)
    PROVE  NetInv'
<1> DEFINE act == active \ {j}
           asg == [assigned EXCEPT ![j] = NoSocket]
           w == owner[s]
<1>1. TypeOK /\ JobsInv /\ UnassignedInv
  BY DEF Inv, TypeOK, EngineInv
<1>2. /\ w \in Worker /\ Holds(w, j)
      /\ \A t \in Socket : Reports(up'[t]) \subseteq Reports(up[t])
      /\ j \notin running[w] /\ j \notin Reports(sendBuffer[w])
      /\ j \notin Reports(up'[s])
  BY <1>1, ReportRead
<1>3. j \in active => assigned[j] # NoSocket /\ owner[assigned[j]] = w /\ assigned[j] \in Socket
  BY <1>1, <1>2 DEF NetInv, HolderInv, TypeOK
<1>4. /\ act \in SUBSET Job /\ queue \in SUBSET Job /\ timers \in SUBSET Job
      /\ asg \in [Job -> Socket \cup {NoSocket}]
      /\ ahead \in [Job -> SUBSET Job]
      /\ Freed(s) \in [Socket -> {"absent", "idle", "busy"}]
  BY <1>1, FreedType DEF TypeOK
<1>5. /\ asg[j] = NoSocket /\ \A i \in Job \ {j} : asg[i] = assigned[i]
  BY <1>1 DEF TypeOK
<1>6. /\ \A t \in Socket : registry[t] = "absent" => Freed(s)[t] = "absent"
      /\ \A t \in Socket : Freed(s)[t] = "busy" => registry[t] = "busy" /\ t # s
      /\ \A t \in Socket \ {s} : Freed(s)[t] = registry[t]
  BY <1>1 DEF Freed, TypeOK
<1>7. \A t \in Socket : up'[t] = up[t] \/ (up[t] # <<>> /\ up'[t] = Tail(up[t]))
  BY <1>1 DEF TypeOK
<1>8. \A t \in Socket : link[t] = "open" /\ owner[t] = w => t = s
  BY DEF NetInv, OpenInv
<1>9. ASSUME NEW t \in Socket, Only(t), Freed(s)[t] = "idle"
      PROVE  (\A i \in act : asg[i] # t) /\ (\A i \in Job : agent[i].on # t)
  <2>1. CASE t # s
    BY <1>1, <1>5, <1>6, <1>9, <2>1 DEF NetInv, OnlyInv, Unloaded, TypeOK
  <2>2. CASE t = s
    <3>0. j \in active
      BY <1>2, <1>9, <2>2 DEF NetInv, OnlyInv
    <3>1. assigned[j] = s
      BY <1>3, <1>9, <2>2, <3>0 DEF Only
    <3>2. \A i \in Load(s) : i = j
      BY <1>9, <2>2, <3>0, <3>1 DEF NetInv, OnlyInv, Load
    <3>3. \A i \in act : asg[i] # s
      BY <1>1, <1>5, <3>2 DEF Load, TypeOK
    <3>4. \A i \in Job : agent[i].on # s
      <4>1. \A i \in Job : agent[i].on = s => i = j /\ AgentRun(i)
        BY <3>2, WorkerAssumption DEF Load, NetInv, AgentInv
      <4> QED BY <1>1, <3>0, <4>1 DEF JobsInv
    <3> QED BY <2>2, <3>3, <3>4
  <2> QED BY <2>1, <2>2
<1>10. ASSUME j \in active, NEW t \in Socket, link[t] = "open"
       PROVE  /\ assigned[j] = t => Freed(s)[t] # "busy"
              /\ Only(t) => /\ j \notin running[owner[t]]
                            /\ j \notin Reports(sendBuffer[owner[t]])
                            /\ \A u \in Socket : owner[u] = owner[t] => j \notin Reports(up'[u])
  <2>1. assigned[j] = t => Freed(s)[t] # "busy"
    BY <1>3, <1>6, <1>8, <1>10
  <2>2. CASE owner[t] = w
    BY <1>2, <1>8, <1>10, <2>1, <2>2 DEF Only
  <2>3. CASE owner[t] # w
    <3>1. owner[t] \in Worker
      BY <1>1, <1>10 DEF TypeOK, NetInv, LinkInv
    <3>2. ~Holds(owner[t], j)
      BY <1>3, <1>10, <2>3, <3>1 DEF NetInv, HolderInv
    <3> QED BY <1>2, <2>1, <3>2 DEF Holds
  <2> QED BY <2>2, <2>3
<1>11. Passed(act, asg, Freed(s))
  <2>1. /\ \A i \in act : i \in active /\ asg[i] = assigned[i]
        /\ \A i \in Job \ act : asg[i] = NoSocket
        /\ \A i \in active \ act : i = j
    BY <1>1, <1>5 DEF UnassignedInv, TypeOK
  <2> HIDE DEF act, asg, w
  <2> QED BY <1>6, <1>7, <1>9, <1>10, <2>1 DEF Passed
<1> HIDE DEF asg
<1> QED BY <1>4, <1>11, Pass DEF asg

LEMMA DisconnectNet ==
    ASSUME Inv, Inv', NetInv, NEW s \in Socket, Disconnect(s)
    PROVE  NetInv'
<1> DEFINE lost == {j \in active : assigned[j] = s}
           act == active \ lost
           asg == [j \in Job |-> IF j \in lost THEN NoSocket ELSE assigned[j]]
           reg == [registry EXCEPT ![s] = "absent"]
<1>1. TypeOK /\ UnassignedInv
  BY DEF Inv, EngineInv
<1>2. /\ Schedule(act, asg, queue, ahead, reg, timers) /\ active' = act
      /\ link[s] = "half" /\ link' = [link EXCEPT ![s] = "gone"]
      /\ UNCHANGED <<agent, owner, up, sendBuffer>>
  BY DEF Disconnect, OnWorkerGone, asyncVars
<1>3. /\ act \in SUBSET Job /\ queue \in SUBSET Job /\ timers \in SUBSET Job
      /\ asg \in [Job -> Socket \cup {NoSocket}]
      /\ ahead \in [Job -> SUBSET Job]
      /\ reg \in [Socket -> {"absent", "idle", "busy"}]
  BY <1>1 DEF TypeOK
<1>4. /\ \A j \in act : j \in active /\ asg[j] = assigned[j]
      /\ \A j \in Job \ act : asg[j] = NoSocket
      /\ \A j \in active \ act : assigned[j] = s
  BY <1>1 DEF UnassignedInv, TypeOK
<1>5. /\ reg[s] = "absent" /\ link'[s] = "gone"
      /\ \A t \in Socket \ {s} : reg[t] = registry[t] /\ link'[t] = link[t]
  BY <1>1, <1>2 DEF TypeOK
<1> HIDE DEF lost, act, asg, reg
<1>6. \A t \in Socket : Only(t) /\ reg[t] = "idle" =>
         (\A j \in act : asg[j] # t) /\ (\A j \in Job : agent[j].on # t)
  BY <1>4, <1>5 DEF NetInv, OnlyInv, Unloaded
<1>7. ASSUME NEW j \in active \ act, NEW t \in Socket, link'[t] = "open", Only(t)
      PROVE  ~Holds(owner[t], j)
  <2>1. t # s /\ owner[t] # owner[s] /\ link[t] = "open"
    BY <1>5, <1>7 DEF Only
  <2>2. owner[t] \in Worker
    BY <1>1, <2>1 DEF TypeOK, NetInv, LinkInv
  <2> QED BY <1>4, <2>1, <2>2 DEF NetInv, HolderInv
<1>8. \A j \in active \ act : \A t \in Socket : link'[t] = "open" => assigned[j] # t
  BY <1>4, <1>5
<1>9. Passed(act, asg, reg)
  BY <1>2, <1>4, <1>5, <1>6, <1>7, <1>8 DEF Passed, Holds
<1> QED BY <1>2, <1>3, <1>9, Pass

-----------------------------------------------------------------------------
(***************************************************************************)
(* The other actions.                                                      *)
(***************************************************************************)
\* The parts of NetInv that neither runs nor the registry can disturb.
LEMMA NetFrame ==
    ASSUME NetInv, active' \subseteq active,
           UNCHANGED <<assigned, link, owner, up, sendBuffer, running>>
    PROVE  HolderInv' /\ OpenInv' /\ KnownInv' /\ OnceInv'
<1>1. \A w \in Worker, j \in Job : Holds(w, j)' = Holds(w, j)
  BY DEF Holds, Reports
<1>2. HolderInv'
  BY DEF NetInv, HolderInv, Holds, Reports
<1>3. OpenInv' /\ KnownInv'
  BY DEF NetInv, OpenInv, KnownInv
<1>4. OnceInv'
  BY DEF NetInv, OnceInv, NoRepeats, Reports
<1> QED BY <1>2, <1>3, <1>4

LEMMA NetStutter ==
    ASSUME NetInv,
           UNCHANGED <<active, assigned, registry, agent, link, owner, up, sendBuffer, running>>
    PROVE  NetInv'
<1>1. HolderInv' /\ OpenInv' /\ KnownInv' /\ OnceInv'
  BY NetFrame
<1>2. LinkInv' /\ AgentInv'
  BY DEF NetInv, LinkInv, AgentInv, AgentRun
<1>3. RegisterInv'
  BY DEF NetInv, RegisterInv, Registers, Unloaded
<1>4. OnlyInv'
  BY DEF NetInv, OnlyInv, Only, Holds, Reports, Unloaded, Load
<1>5. NoBusyLeak'
  BY DEF NetInv, NoBusyLeak, AgentRun
<1> QED BY <1>1, <1>2, <1>3, <1>4, <1>5 DEF NetInv

LEMMA FailQueuedNet ==
    ASSUME Inv, NetInv, NEW j \in Job, FailQueued(j)
    PROVE  NetInv'
<1>1. UNCHANGED <<assigned, registry, agent, link, owner, up, sendBuffer, running>>
  BY DEF FailQueued, asyncVars, netVars
<1>2. CASE UNCHANGED active
  BY <1>1, <1>2, NetStutter
<1>3. CASE active' = active \ {j} /\ j \in active /\ assigned[j] = NoSocket
  <2>1. HolderInv' /\ OpenInv' /\ KnownInv' /\ OnceInv'
    BY <1>1, <1>3, NetFrame
  <2>2. LinkInv' /\ AgentInv'
    BY <1>1 DEF NetInv, LinkInv, AgentInv, AgentRun
  <2>3. RegisterInv'
    BY <1>1, <1>3 DEF NetInv, RegisterInv, Registers, Unloaded
  <2>4. OnlyInv'
    <3> SUFFICES ASSUME NEW s \in Socket, Only(s)
                 PROVE  /\ link[s] = "open" => \A i \in Job : Holds(owner[s], i)' => i \in active'
                        /\ registry[s] = "idle" => Unloaded(s)'
                        /\ \A h, i \in Load(s)' : h = i
      BY <1>1 DEF OnlyInv, Only
    <3>1. /\ link[s] = "open" => \A i \in Job : Holds(owner[s], i) => i \in active
          /\ registry[s] = "idle" => Unloaded(s)
          /\ \A h, i \in Load(s) : h = i
      BY DEF NetInv, OnlyInv
    <3>2. ASSUME link[s] = "open" PROVE ~Holds(owner[s], j)
      <4>1. owner[s] \in Worker
        BY <3>2 DEF NetInv, LinkInv, Inv, TypeOK
      <4> QED BY <1>3, <4>1, HoldsSent DEF Sent
    <3>3. \A i \in Job : Holds(owner[s], i)' = Holds(owner[s], i)
      BY <1>1 DEF Holds, Reports
    <3>4. \A i \in Load(s)' : i \in Load(s)
      BY <1>1, <1>3 DEF Load
    <3>5. Unloaded(s) => Unloaded(s)'
      BY <1>1, <1>3 DEF Unloaded
    <3> QED BY <1>3, <3>1, <3>2, <3>3, <3>4, <3>5
  <2>5. NoBusyLeak'
    <3>1. \A i \in active : \A s \in Socket : assigned[i] = s => i \in active'
      BY <1>3, WorkerAssumption
    <3> QED BY <1>1, <3>1 DEF NetInv, NoBusyLeak, AgentRun
  <2> QED BY <2>1, <2>2, <2>3, <2>4, <2>5 DEF NetInv
<1> QED BY <1>2, <1>3 DEF FailQueued

\* A run starts on an idle connection, goes on, or ends and frees it.
LEMMA RunNet ==
    ASSUME Inv, NetInv, NEW j \in Job,
           UNCHANGED <<active, assigned, link, owner, up, sendBuffer, running>>,
           \A i \in Job \ {j} : agent'[i] = agent[i],
           \/ \E s \in Socket : /\ registry[s] = "idle" /\ ~AgentRun(j)
                                /\ registry' = [registry EXCEPT ![s] = "busy"]
                                /\ agent'[j].on = s /\ AgentRun(j)'
           \/ /\ UNCHANGED registry
              /\ agent'[j].on = agent[j].on /\ AgentRun(j)' = AgentRun(j)
           \/ /\ agent[j].on \in Socket /\ registry' = Freed(agent[j].on)
              /\ agent'[j] = AgentOff
    PROVE  NetInv'
<1>1. TypeOK /\ registry \in [Socket -> {"absent", "idle", "busy"}]
  BY DEF Inv, TypeOK
<1>2. HolderInv' /\ OpenInv' /\ KnownInv' /\ OnceInv'
  BY NetFrame
<1>3. \A i \in Job \ {j} : AgentRun(i)' = AgentRun(i)
  BY DEF AgentRun
<1>4. /\ \A w \in Worker : Registers(sendBuffer'[w]) = Registers(sendBuffer[w])
      /\ \A t \in Socket : Registers(up'[t]) = Registers(up[t])
      /\ \A t \in Socket : Only(t)' = Only(t)
      /\ \A t \in Socket, i \in Job : Holds(owner[t], i)' = Holds(owner[t], i)
  BY DEF Only, Holds, Reports
<1>5. \A t \in Socket : Load(t)' = {i \in active : assigned[i] = t} \cup {i \in Job : agent'[i].on = t}
  BY DEF Load
<1>6. AgentOff.on = NoSocket
  BY DEF AgentOff
<1>7. ASSUME NEW s \in Socket, registry[s] = "idle", ~AgentRun(j),
             registry' = [registry EXCEPT ![s] = "busy"],
             agent'[j].on = s, AgentRun(j)'
      PROVE  NetInv'
  <2>1. agent[j].on = NoSocket
    BY <1>7 DEF NetInv, AgentInv
  <2>2. registry'[s] = "busy" /\ \A t \in Socket \ {s} : registry'[t] = registry[t]
    BY <1>1, <1>7
  <2>3. link[s] # "fresh"
    BY <1>7 DEF NetInv, LinkInv
  <2>4. LinkInv'
    BY <1>7, <2>2 DEF NetInv, LinkInv
  <2>5. AgentInv'
    <3> SUFFICES ASSUME NEW i \in Job
                 PROVE  /\ AgentRun(i)' <=> (agent'[i].on # NoSocket)
                        /\ AgentRun(i)' => (link[agent'[i].on] # "fresh")
      BY DEF AgentInv
    <3>1. CASE i = j
      BY <1>7, <2>3, <3>1, WorkerAssumption
    <3>2. CASE i # j
      BY <1>3, <3>2 DEF NetInv, AgentInv
    <3> QED BY <3>1, <3>2
  <2>6. RegisterInv'
    <3>1. ASSUME NEW t \in Socket, Registers(up[t]) # {}
          PROVE  registry'[t] = "absent" /\ Unloaded(t)'
      <4>1. registry[t] = "absent" /\ Unloaded(t) /\ t # s
        BY <1>7, <3>1 DEF NetInv, RegisterInv
      <4> QED BY <1>7, <2>2, <4>1 DEF Unloaded
    <3> QED BY <1>4, <3>1 DEF NetInv, RegisterInv, Registers
  <2>7. OnlyInv'
    <3> SUFFICES ASSUME NEW t \in Socket, Only(t)
                 PROVE  /\ link[t] = "open" => \A i \in Job : Holds(owner[t], i) => i \in active
                        /\ registry'[t] = "idle" => Unloaded(t)'
                        /\ \A h, i \in Load(t)' : h = i
      BY <1>4 DEF OnlyInv, Holds, Reports
    <3>1. /\ link[t] = "open" => \A i \in Job : Holds(owner[t], i) => i \in active
          /\ registry[t] = "idle" => Unloaded(t)
          /\ \A h, i \in Load(t) : h = i
      BY DEF NetInv, OnlyInv
    <3>2. CASE t = s
      <4>1. \A i \in Load(t)' : i = j
        BY <1>5, <1>7, <3>1, <3>2 DEF Unloaded
      <4> QED BY <2>2, <3>1, <3>2, <4>1
    <3>3. CASE t # s
      <4>1. \A i \in Load(t)' : i \in Load(t)
        BY <1>5, <1>7, <3>3 DEF Load
      <4>2. Unloaded(t) => Unloaded(t)'
        BY <1>7, <3>3 DEF Unloaded
      <4> QED BY <2>2, <3>1, <3>3, <4>1, <4>2
    <3> QED BY <3>2, <3>3
  <2>8. NoBusyLeak'
    <3>1. \A i \in Job : AgentRun(i) => AgentRun(i)' /\ agent'[i].on = agent[i].on
      BY <1>3, <1>7
    <3> QED BY <1>7, <2>2, <3>1 DEF NetInv, NoBusyLeak
  <2> QED BY <1>2, <2>4, <2>5, <2>6, <2>7, <2>8 DEF NetInv
<1>8. CASE /\ UNCHANGED registry
           /\ agent'[j].on = agent[j].on /\ AgentRun(j)' = AgentRun(j)
  <2>1. \A i \in Job : agent'[i].on = agent[i].on /\ AgentRun(i)' = AgentRun(i)
    BY <1>3, <1>8
  <2>2. LinkInv' /\ AgentInv'
    BY <1>8, <2>1 DEF NetInv, LinkInv, AgentInv
  <2>3. \A t \in Socket : Unloaded(t)' = Unloaded(t) /\ Load(t)' = Load(t)
    BY <1>8, <2>1 DEF Unloaded, Load
  <2>4. RegisterInv'
    BY <1>4, <1>8, <2>3 DEF NetInv, RegisterInv, Registers
  <2>5. OnlyInv'
    <3>1. \A t \in Socket : Only(t) =>
             /\ link[t] = "open" => \A i \in Job : Holds(owner[t], i)' => i \in active
             /\ registry[t] = "idle" => Unloaded(t)'
             /\ \A h, i \in Load(t)' : h = i
      BY <1>4, <2>3 DEF NetInv, OnlyInv
    <3> QED BY <1>4, <1>8, <3>1 DEF OnlyInv, Holds, Reports
  <2>6. NoBusyLeak'
    BY <1>8, <2>1 DEF NetInv, NoBusyLeak
  <2> QED BY <1>2, <2>2, <2>4, <2>5, <2>6 DEF NetInv
<1>9. ASSUME NEW s \in Socket, s = agent[j].on, registry' = Freed(s), agent'[j] = AgentOff
      PROVE  NetInv'
  <2>1. /\ \A t \in Socket : registry[t] = "absent" <=> registry'[t] = "absent"
        /\ \A t \in Socket : registry'[t] = "busy" => registry[t] = "busy" /\ t # s
        /\ \A t \in Socket \ {s} : registry'[t] = registry[t]
    BY <1>1, <1>9 DEF Freed
  <2>2. agent'[j].on = NoSocket
    BY <1>6, <1>9
  <2>3. LinkInv' /\ AgentInv'
    <3>1. LinkInv'
      BY <1>9, <2>1 DEF NetInv, LinkInv
    <3>2. ~AgentRun(j)'
      BY <1>9 DEF AgentRun, AgentOff
    <3>3. ASSUME NEW i \in Job
          PROVE  /\ AgentRun(i)' <=> (agent'[i].on # NoSocket)
                 /\ AgentRun(i)' => (link[agent'[i].on] # "fresh")
      <4>1. CASE i = j
        BY <2>2, <3>2, <4>1
      <4>2. CASE i # j
        BY <1>3, <4>2 DEF NetInv, AgentInv
      <4> QED BY <4>1, <4>2
    <3> QED BY <3>1, <3>3 DEF AgentInv
  <2>4. \A t \in Socket : Unloaded(t) => Unloaded(t)'
    BY <2>2, WorkerAssumption DEF Unloaded
  <2>5. \A t \in Socket : \A i \in Load(t)' : i \in Load(t)
    BY <1>5, <2>2, WorkerAssumption DEF Load
  <2>6. RegisterInv'
    BY <1>4, <2>1, <2>4 DEF NetInv, RegisterInv, Registers
  <2>7. OnlyInv'
    <3>1. ASSUME NEW t \in Socket, Only(t)
          PROVE  /\ link[t] = "open" => \A i \in Job : Holds(owner[t], i)' => i \in active
                 /\ registry'[t] = "idle" => Unloaded(t)'
                 /\ \A h, i \in Load(t)' : h = i
      <4>1. /\ link[t] = "open" => \A i \in Job : Holds(owner[t], i)' => i \in active
            /\ registry[t] = "idle" => Unloaded(t)
            /\ \A h, i \in Load(t) : h = i
        BY <1>4, <3>1 DEF NetInv, OnlyInv
      <4>2. CASE t = s
        <5>1. \A i \in Load(t) : i = j
          BY <1>9, <4>1, <4>2 DEF Load
        <5>2. j \notin active
          BY <1>9, WorkerAssumption DEF NetInv, AgentInv, Inv, JobsInv
        <5>3. Unloaded(t)'
          BY <1>5, <2>2, <2>5, <5>1, <5>2, <4>2, WorkerAssumption DEF Unloaded
        <5> QED BY <2>5, <4>1, <5>3
      <4>3. CASE t # s
        BY <2>1, <2>4, <2>5, <4>1, <4>3
      <4> QED BY <4>2, <4>3
    <3> QED BY <1>4, <3>1 DEF OnlyInv, Holds, Reports
  <2>8. NoBusyLeak'
    <3>1. ASSUME NEW t \in Socket, registry'[t] = "busy", link'[t] = "open"
          PROVE  \/ \E i \in active' : assigned'[i] = t
                 \/ \E i \in Job : AgentRun(i)' /\ agent'[i].on = t
      <4>1. registry[t] = "busy" /\ t # s /\ link[t] = "open"
        BY <2>1, <3>1
      <4>2. ASSUME NEW i \in Job, AgentRun(i), agent[i].on = t
            PROVE  AgentRun(i)' /\ agent'[i].on = t
        BY <1>3, <1>9, <4>1, <4>2
      <4> QED BY <4>1, <4>2 DEF NetInv, NoBusyLeak
    <3> QED BY <3>1 DEF NoBusyLeak
  <2> QED BY <1>2, <2>3, <2>6, <2>7, <2>8 DEF NetInv
<1> QED BY <1>7, <1>8, <1>9

\* A message is read and dropped, or connections break, with their worker or
\* without it, and what they carried is lost.
LEMMA CutNet ==
    ASSUME Inv, NetInv, UNCHANGED <<active, assigned, registry, agent, owner>>,
           \A w \in Worker : running'[w] \subseteq running[w],
           \A w \in Worker : sendBuffer'[w] = sendBuffer[w] \/ sendBuffer'[w] = <<>>,
           \A s \in Socket : \/ up'[s] = up[s] /\ link'[s] = link[s]
                             \/ up[s] # <<>> /\ up'[s] = Tail(up[s]) /\ link'[s] = link[s]
                             \/ up'[s] = <<>> /\ link'[s] = "half" /\ link[s] = "open"
    PROVE  NetInv'
<1>1. /\ \A w \in Worker, j \in Job : Holds(w, j)' =>
            \/ j \in running'[w]
            \/ j \in Reports(sendBuffer'[w])
            \/ \E s \in Socket : owner[s] = w /\ j \in Reports(up'[s])
  BY DEF Holds, Reports
<1>2. \A w \in Worker : Reports(sendBuffer'[w]) \subseteq Reports(sendBuffer[w])
  BY NoMail
<1>3. \A s \in Socket :
         /\ Reports(up'[s]) \subseteq Reports(up[s]) /\ NoRepeats(up'[s])
         /\ up'[s] # <<>> => up[s] # <<>>
         /\ Registers(up'[s]) # {} => Registers(up[s]) # {}
         /\ (\A k, l \in Registers(up[s]) : k = l) => \A k, l \in Registers(up'[s]) : k = l
  <2>1. \A s \in Socket : up[s] \in Seq(Message) /\ NoRepeats(up[s])
    BY DEF Inv, TypeOK, NetInv, OnceInv
  <2>2. \A s \in Socket : \/ up'[s] = up[s] \/ up'[s] = <<>>
                           \/ (up[s] # <<>> /\ up'[s] = Tail(up[s]))
    OBVIOUS
  <2> QED BY <2>1, <2>2, LessMail
<1>4. \A w \in Worker, j \in Job : Holds(w, j)' => Holds(w, j)
  BY <1>1, <1>2, <1>3 DEF Holds
<1>5. HolderInv'
  <2>1. \A w \in Worker, j \in active : Holds(w, j)' => assigned[j] # NoSocket /\ owner[assigned[j]] = w
    BY <1>4 DEF NetInv, HolderInv, Inv, TypeOK
  <2> QED BY <2>1 DEF HolderInv, Holds, Reports
<1>6. LinkInv' /\ AgentInv'
  <2>1. /\ \A s \in Socket : (link'[s] = "fresh") <=> (link[s] = "fresh")
        /\ \A s \in Socket : up'[s] # <<>> => up[s] # <<>> /\ link'[s] = link[s]
        /\ \A s \in Socket : link[s] \in {"open", "half"} => link'[s] \in {"open", "half"}
    BY <1>3
  <2>2. \A j \in Job : agent[j].on \in Socket \cup {NoSocket}
    BY DEF Inv, TypeOK, AgentState
  <2> QED BY <2>1, <2>2 DEF NetInv, LinkInv, AgentInv, AgentRun
<1>7. OpenInv'
  <2>1. \A s \in Socket : link'[s] = "open" => link[s] = "open"
    OBVIOUS
  <2>2. \A s \in Socket : link[s] = "open" => owner[s] \in Worker
    BY DEF NetInv, LinkInv, Inv, TypeOK
  <2> QED BY <2>1, <2>2 DEF NetInv, OpenInv
<1>8. KnownInv'
  BY DEF NetInv, KnownInv
<1>9. OnceInv'
  <2>1. \A w \in Worker : NoRepeats(sendBuffer'[w])
    BY NoMail DEF NetInv, OnceInv
  <2>2. \A s \in Socket : NoRepeats(up'[s])
    BY <1>3
  <2>3. \A w \in Worker : \A j \in running'[w] :
           /\ j \notin Reports(sendBuffer'[w])
           /\ \A s \in Socket : owner[s] = w => j \notin Reports(up'[s])
    BY <1>2, <1>3 DEF NetInv, OnceInv
  <2> QED BY <2>1, <2>2, <2>3 DEF OnceInv, NoRepeats, Reports
<1>10. RegisterInv'
  <2>1. \A w \in Worker : Registers(sendBuffer'[w]) = {}
    BY NoMail DEF NetInv, RegisterInv
  <2>2. \A s \in Socket : Registers(up'[s]) # {} =>
           registry[s] = "absent" /\ Unloaded(s) /\ \A k, l \in Registers(up'[s]) : k = l
    BY <1>3 DEF NetInv, RegisterInv
  <2> QED BY <2>1, <2>2 DEF RegisterInv, Registers, Unloaded
<1>11. OnlyInv'
  <2>1. \A s \in Socket : link'[s] = "open" => link[s] = "open" /\ owner[s] \in Worker
    BY DEF NetInv, LinkInv, Inv, TypeOK
  <2>2. ASSUME NEW s \in Socket, Only(s)
        PROVE  /\ link'[s] = "open" => \A j \in Job : Holds(owner[s], j)' => j \in active
               /\ registry[s] = "idle" => Unloaded(s)
               /\ \A i, j \in Load(s) : i = j
    <3>1. /\ link[s] = "open" => \A j \in Job : Holds(owner[s], j) => j \in active
          /\ registry[s] = "idle" => Unloaded(s)
          /\ \A i, j \in Load(s) : i = j
      BY <2>2 DEF NetInv, OnlyInv
    <3>2. ASSUME link'[s] = "open", NEW j \in Job, Holds(owner[s], j)' PROVE j \in active
      <4>1. PICK w \in Worker : w = owner[s]
        BY <2>1, <3>2
      <4>2. Holds(w, j)'
        BY <3>2, <4>1 DEF Holds
      <4> QED BY <1>4, <2>1, <3>1, <3>2, <4>1, <4>2
    <3> QED BY <3>1, <3>2
  <2>3. \A s \in Socket : Only(s)' = Only(s) /\ Unloaded(s)' = Unloaded(s) /\ Load(s)' = Load(s)
    BY DEF Only, Unloaded, Load
  <2> QED BY <2>2, <2>3 DEF OnlyInv, Holds, Reports
<1>12. NoBusyLeak'
  BY DEF NetInv, NoBusyLeak, AgentRun
<1> QED
  BY <1>5, <1>6, <1>7, <1>8, <1>9, <1>10, <1>11, <1>12 DEF NetInv

\* What registration and reports put on a connection is well formed.
LEMMA ConnectNet ==
    ASSUME Inv, NetInv, NEW w \in Worker, NEW s \in Socket, Connect(w, s)
    PROVE  NetInv'
<1> DEFINE msgs == Append(sendBuffer[w], RegisterMsg)
<1>1. /\ TypeOK /\ AssignedToRegistered /\ sendBuffer[w] \in Seq(Message)
      /\ RegisterMsg \in Message /\ RegisterMsg.type = "register"
  BY DEF Inv, EngineInv, TypeOK, Message, RegisterMsg
<1>2. /\ link' = [link EXCEPT ![s] = "open"] /\ owner' = [owner EXCEPT ![s] = w]
      /\ up' = [up EXCEPT ![s] = msgs]
      /\ sendBuffer' = [sendBuffer EXCEPT ![w] = <<>>]
      /\ UNCHANGED <<active, assigned, registry, agent, running>>
  BY DEF Connect, engineVars, asyncVars
<1>3. /\ NoRepeats(msgs) /\ msgs # <<>>
      /\ \A k \in Registers(msgs) : k = Len(sendBuffer[w]) + 1
      /\ Reports(msgs) \subseteq Reports(sendBuffer[w])
  <2>1. \A k \in Registers(msgs) : k \in Registers(sendBuffer[w]) \/ k = Len(sendBuffer[w]) + 1
    BY <1>1, AppendMail DEF NetInv, OnceInv
  <2>2. NoRepeats(msgs) /\ msgs # <<>>
    BY <1>1, AppendMail DEF NetInv, OnceInv
  <2>3. Registers(sendBuffer[w]) = {}
    BY DEF NetInv, RegisterInv
  <2>4. Reports(msgs) \subseteq Reports(sendBuffer[w])
    BY <1>1, ReportsOfAppend
  <2> QED BY <2>1, <2>2, <2>3, <2>4
<1> HIDE DEF msgs
<1>4. /\ link'[s] = "open" /\ \A t \in Socket \ {s} : link'[t] = link[t]
      /\ owner'[s] = w /\ \A t \in Socket \ {s} : owner'[t] = owner[t]
      /\ up'[s] = msgs /\ \A t \in Socket \ {s} : up'[t] = up[t]
      /\ sendBuffer'[w] = <<>> /\ \A v \in Worker \ {w} : sendBuffer'[v] = sendBuffer[v]
  BY <1>1, <1>2 DEF TypeOK
<1>5. link[s] = "fresh" /\ owner[s] = NoWorker /\ registry[s] = "absent" /\ up[s] = <<>>
  BY <1>1 DEF Connect, NetInv, LinkInv, TypeOK
<1>6. \A t \in Socket : link[t] = "open" => owner[t] # w
  BY DEF Connect, Connected
<1>7. \A t \in Socket : registry[t] = "absent" /\ link[t] = "fresh" => Unloaded(t)
  BY <1>1, WorkerAssumption DEF AssignedToRegistered, NetInv, AgentInv, Unloaded
<1>8. \A v \in Worker, j \in Job : Holds(v, j)' =>
         \/ j \in running[v]
         \/ j \in Reports(sendBuffer'[v])
         \/ \E t \in Socket : owner'[t] = v /\ j \in Reports(up'[t])
  BY <1>2 DEF Holds, Reports
<1>9. \A v \in Worker : Reports(sendBuffer'[v]) \subseteq Reports(sendBuffer[v])
  BY <1>4, NoMail
<1>10. \A v \in Worker, j \in Job : Holds(v, j)' => Holds(v, j)
  BY <1>3, <1>4, <1>8, <1>9 DEF Holds
<1>11. HolderInv'
  <2>1. ASSUME NEW v \in Worker, NEW j \in active, Holds(v, j)'
        PROVE  assigned[j] # NoSocket /\ owner'[assigned[j]] = v
    <3>1. j \in Job /\ assigned[j] \in Socket \cup {NoSocket}
      BY <1>1 DEF TypeOK
    <3>2. assigned[j] # NoSocket /\ owner[assigned[j]] = v
      BY <1>10, <2>1, <3>1 DEF NetInv, HolderInv
    <3> QED BY <1>4, <1>5, <3>1, <3>2, WorkerAssumption
  <2> QED BY <1>2, <2>1 DEF HolderInv, Holds, Reports
<1>12. LinkInv' /\ AgentInv'
  <2>1. \A t \in Socket : link'[t] = "fresh" => link[t] = "fresh"
    BY <1>4
  <2>2. LinkInv'
    BY <1>2, <1>4, <1>5, WorkerAssumption DEF NetInv, LinkInv
  <2>3. \A j \in Job : agent[j].on \in Socket \cup {NoSocket}
    BY <1>1 DEF TypeOK, AgentState
  <2> QED BY <1>2, <2>1, <2>2, <2>3 DEF NetInv, AgentInv, AgentRun
<1>13. OpenInv'
  <2> SUFFICES ASSUME NEW t \in Socket, link'[t] = "open"
               PROVE  /\ sendBuffer'[owner'[t]] = <<>>
                      /\ \A u \in Socket : link'[u] = "open" /\ owner'[u] = owner'[t] => u = t
    BY DEF OpenInv
  <2>1. CASE t = s
    BY <1>4, <1>6, <2>1
  <2>2. CASE t # s
    <3>1. link[t] = "open" /\ owner'[t] = owner[t] /\ owner[t] # w /\ owner[t] \in Worker
      BY <1>1, <1>4, <1>6, <2>2 DEF NetInv, LinkInv, TypeOK
    <3> QED BY <1>4, <3>1 DEF NetInv, OpenInv
  <2> QED BY <2>1, <2>2
<1>14. KnownInv'
  <2>1. ASSUME NEW v \in Worker, running[v] # {} \/ sendBuffer'[v] # <<>>
        PROVE  \E t \in Socket : owner'[t] = v
    <3>1. PICK t \in Socket : owner[t] = v
      BY <1>4, <2>1 DEF NetInv, KnownInv
    <3> QED BY <1>4, <1>5, <3>1, WorkerAssumption
  <2> QED BY <1>2, <2>1 DEF KnownInv
<1>15. OnceInv'
  <2>1. \A v \in Worker : NoRepeats(sendBuffer'[v])
    BY <1>4, NoMail DEF NetInv, OnceInv
  <2>2. \A t \in Socket : NoRepeats(up'[t])
    BY <1>3, <1>4 DEF NetInv, OnceInv
  <2>3. \A v \in Worker : \A j \in running[v] :
           /\ j \notin Reports(sendBuffer'[v])
           /\ \A t \in Socket : owner'[t] = v => j \notin Reports(up'[t])
    BY <1>3, <1>4, <1>9 DEF NetInv, OnceInv
  <2> QED BY <1>2, <2>1, <2>2, <2>3 DEF OnceInv, NoRepeats, Reports
<1>16. RegisterInv'
  <2>1. \A v \in Worker : Registers(sendBuffer'[v]) = {}
    BY <1>4, NoMail DEF NetInv, RegisterInv
  <2>2. \A t \in Socket : Registers(up'[t]) # {} =>
           registry[t] = "absent" /\ Unloaded(t) /\ \A k, l \in Registers(up'[t]) : k = l
    <3> SUFFICES ASSUME NEW t \in Socket, Registers(up'[t]) # {}
                 PROVE  registry[t] = "absent" /\ Unloaded(t) /\ \A k, l \in Registers(up'[t]) : k = l
      OBVIOUS
    <3>1. CASE t = s
      BY <1>3, <1>4, <1>5, <1>7, <3>1
    <3>2. CASE t # s
      <4>1. Registers(up'[t]) = Registers(up[t])
        BY <1>4, <3>2
      <4> QED BY <4>1 DEF NetInv, RegisterInv
    <3> QED BY <3>1, <3>2
  <2> QED BY <1>2, <2>1, <2>2 DEF RegisterInv, Registers, Unloaded
<1>17. OnlyInv'
  <2> SUFFICES ASSUME NEW t \in Socket, Only(t)'
               PROVE  /\ link'[t] = "open" => \A j \in Job : Holds(owner[t], j)' => j \in active
                      /\ registry[t] = "idle" => Unloaded(t)
                      /\ \A i, j \in Load(t) : i = j
    BY <1>2 DEF OnlyInv, Holds, Reports, Unloaded, Load
  <2>1. Unloaded(t) => \A i, j \in Load(t) : i = j
    BY DEF Unloaded, Load
  <2>2. CASE t = s
    <3>1. \A u \in Socket : owner[u] # w
      BY <1>4, <1>5, <2>2, WorkerAssumption DEF Only
    <3>2. \A j \in Job : ~Holds(w, j)
      BY <3>1, NoMail DEF Holds, NetInv, KnownInv
    <3>3. \A j \in Job : Holds(owner[t], j)' => Holds(w, j)'
      BY <1>4, <2>2 DEF Holds, Reports
    <3> QED BY <1>5, <1>7, <1>10, <2>1, <2>2, <3>2, <3>3
  <2>3. CASE t # s /\ ~Only(t)
    <3>1. owner[t] = NoWorker
      BY <1>4, <1>5, <2>3 DEF Only
    <3>2. link'[t] = "fresh" /\ link[t] = "fresh" /\ registry[t] = "absent"
      BY <1>1, <1>4, <2>3, <3>1 DEF NetInv, LinkInv, TypeOK
    <3> QED BY <1>7, <2>1, <3>2
  <2>4. CASE t # s /\ Only(t)
    <3>1. /\ link[t] = "open" => \A j \in Job : Holds(owner[t], j) => j \in active
          /\ registry[t] = "idle" => Unloaded(t)
          /\ \A i, j \in Load(t) : i = j
      BY <2>4 DEF NetInv, OnlyInv
    <3>2. ASSUME link'[t] = "open", NEW j \in Job, Holds(owner[t], j)' PROVE j \in active
      <4>1. link[t] = "open"
        BY <1>4, <2>4, <3>2
      <4>2. PICK v \in Worker : v = owner[t]
        BY <1>1, <4>1 DEF TypeOK, NetInv, LinkInv
      <4>3. Holds(v, j)'
        BY <1>4, <2>4, <3>2, <4>2 DEF Holds, Reports
      <4> QED BY <1>10, <3>1, <4>1, <4>2, <4>3
    <3> QED BY <3>1, <3>2
  <2> QED BY <2>2, <2>3, <2>4
<1>18. NoBusyLeak'
  BY <1>2, <1>4, <1>5 DEF NetInv, NoBusyLeak, AgentRun
<1> QED
  BY <1>11, <1>12, <1>13, <1>14, <1>15, <1>16, <1>17, <1>18 DEF NetInv

LEMMA ReportSentNet ==
    ASSUME Inv, NetInv, NEW w \in Worker, NEW j \in Job, NEW type \in {"done", "error"},
           Report(w, j, type)
    PROVE  NetInv'
<1> DEFINE msg == [type |-> type, job |-> j]
<1>1. TypeOK /\ msg \in Message /\ msg.job = j /\ msg.type # "register"
  BY DEF Inv, Message
<1> HIDE DEF msg
<1>2. /\ j \in running[w] /\ running' = [running EXCEPT ![w] = @ \ {j}]
      /\ UNCHANGED <<active, assigned, registry, agent, link, owner>>
  BY DEF Report, engineVars, asyncVars
<1>3. /\ running'[w] = running[w] \ {j} /\ \A v \in Worker \ {w} : running'[v] = running[v]
      /\ \A v \in Worker : running'[v] \subseteq running[v]
  BY <1>1, <1>2 DEF TypeOK
<1>4. \/ /\ UNCHANGED sendBuffer
         /\ \E s \in Socket : Connected(w, s) /\ up' = [up EXCEPT ![s] = Append(@, msg)]
      \/ /\ UNCHANGED up /\ ~\E s \in Socket : Connected(w, s)
         /\ sendBuffer' = [sendBuffer EXCEPT ![w] = Append(@, msg)]
  BY DEF Report, msg
<1>5. /\ j \notin Reports(sendBuffer[w])
      /\ \A s \in Socket : owner[s] = w => j \notin Reports(up[s])
  BY <1>2 DEF NetInv, OnceInv
<1>6. \A s \in Socket :
         \/ up'[s] = up[s]
         \/ up'[s] = Append(up[s], msg) /\ Connected(w, s)
  BY <1>1, <1>4 DEF TypeOK
<1>7. \A v \in Worker :
         \/ sendBuffer'[v] = sendBuffer[v]
         \/ /\ v = w /\ sendBuffer'[v] = Append(sendBuffer[v], msg)
            /\ \A s \in Socket : ~Connected(w, s)
  BY <1>1, <1>4 DEF TypeOK
<1>8. \A s \in Socket :
         /\ NoRepeats(up'[s]) /\ Registers(up'[s]) \subseteq Registers(up[s])
         /\ up'[s] # <<>> => up[s] # <<>> \/ link[s] = "open"
         /\ \A i \in Reports(up'[s]) : i \in Reports(up[s]) \/ (i = j /\ owner[s] = w)
  <2> SUFFICES ASSUME NEW s \in Socket
               PROVE  /\ NoRepeats(up'[s]) /\ Registers(up'[s]) \subseteq Registers(up[s])
                      /\ up'[s] # <<>> => up[s] # <<>> \/ link[s] = "open"
                      /\ \A i \in Reports(up'[s]) : i \in Reports(up[s]) \/ (i = j /\ owner[s] = w)
    OBVIOUS
  <2>1. NoRepeats(up[s]) /\ up[s] \in Seq(Message)
    BY <1>1 DEF NetInv, OnceInv, TypeOK
  <2>2. CASE up'[s] = Append(up[s], msg) /\ Connected(w, s)
    BY <1>1, <1>5, <2>1, <2>2, AppendMail, ReportsOfAppend DEF Connected
  <2> QED BY <1>6, <2>1, <2>2
<1>9. \A v \in Worker :
         /\ NoRepeats(sendBuffer'[v]) /\ Registers(sendBuffer'[v]) \subseteq Registers(sendBuffer[v])
         /\ \A i \in Reports(sendBuffer'[v]) : i \in Reports(sendBuffer[v]) \/ (i = j /\ v = w)
  <2> SUFFICES ASSUME NEW v \in Worker
               PROVE  /\ NoRepeats(sendBuffer'[v])
                      /\ Registers(sendBuffer'[v]) \subseteq Registers(sendBuffer[v])
                      /\ \A i \in Reports(sendBuffer'[v]) :
                            i \in Reports(sendBuffer[v]) \/ (i = j /\ v = w)
    OBVIOUS
  <2>1. NoRepeats(sendBuffer[v]) /\ sendBuffer[v] \in Seq(Message)
    BY <1>1 DEF NetInv, OnceInv, TypeOK
  <2>2. CASE v = w /\ sendBuffer'[v] = Append(sendBuffer[v], msg)
    BY <1>1, <1>5, <2>1, <2>2, AppendMail, ReportsOfAppend
  <2> QED BY <1>7, <2>1, <2>2
<1>10. \A v \in Worker, i \in Job : Holds(v, i)' => Holds(v, i)
  <2>1. \A v \in Worker, i \in Job : Holds(v, i)' =>
           \/ i \in running'[v]
           \/ i \in Reports(sendBuffer'[v])
           \/ \E t \in Socket : owner[t] = v /\ i \in Reports(up'[t])
    BY <1>2 DEF Holds, Reports
  <2> QED BY <1>2, <1>3, <1>8, <1>9, <2>1 DEF Holds
<1>11. HolderInv'
  <2>1. \A v \in Worker, i \in active :
           Holds(v, i)' => assigned[i] # NoSocket /\ owner[assigned[i]] = v
    BY <1>1, <1>10 DEF NetInv, HolderInv, TypeOK
  <2> QED BY <1>2, <2>1 DEF HolderInv, Holds, Reports
<1>12. LinkInv' /\ AgentInv'
  BY <1>2, <1>8 DEF NetInv, LinkInv, AgentInv, AgentRun
<1>13. OpenInv'
  <2>1. \A s \in Socket : link[s] = "open" => sendBuffer'[owner[s]] = <<>>
    <3> SUFFICES ASSUME NEW s \in Socket, link[s] = "open" PROVE sendBuffer'[owner[s]] = <<>>
      OBVIOUS
    <3>1. owner[s] \in Worker /\ sendBuffer[owner[s]] = <<>>
      BY <1>1 DEF NetInv, LinkInv, OpenInv, TypeOK
    <3>2. Connected(owner[s], s)
      BY DEF Connected
    <3> QED BY <1>7, <3>1, <3>2
  <2> QED BY <1>2, <2>1 DEF NetInv, OpenInv
<1>14. KnownInv'
  BY <1>2, <1>3, <1>7 DEF NetInv, KnownInv
<1>15. OnceInv'
  <2>1. ASSUME NEW v \in Worker, NEW i \in running'[v]
        PROVE  /\ i \notin Reports(sendBuffer'[v])
               /\ \A s \in Socket : owner[s] = v => i \notin Reports(up'[s])
    <3>1. i \in running[v] /\ ~(v = w /\ i = j)
      BY <1>3, <2>1
    <3> QED BY <1>8, <1>9, <3>1 DEF NetInv, OnceInv
  <2> QED BY <1>2, <1>8, <1>9, <2>1 DEF OnceInv, NoRepeats, Reports
<1>16. RegisterInv'
  <2>1. \A v \in Worker : Registers(sendBuffer'[v]) = {}
    BY <1>9 DEF NetInv, RegisterInv
  <2>2. \A s \in Socket : Registers(up'[s]) # {} =>
           registry[s] = "absent" /\ Unloaded(s) /\ \A k, l \in Registers(up'[s]) : k = l
    <3> SUFFICES ASSUME NEW s \in Socket, Registers(up'[s]) # {}
                 PROVE  registry[s] = "absent" /\ Unloaded(s) /\ \A k, l \in Registers(up'[s]) : k = l
      OBVIOUS
    <3>1. Registers(up'[s]) \subseteq Registers(up[s])
      BY <1>8
    <3>2. Registers(up[s]) # {}
      BY <3>1
    <3> QED BY <3>1, <3>2 DEF NetInv, RegisterInv
  <2> QED BY <1>2, <2>1, <2>2 DEF RegisterInv, Registers, Unloaded
<1>17. OnlyInv'
  <2>1. ASSUME NEW s \in Socket, Only(s), link[s] = "open", NEW i \in Job, Holds(owner[s], i)'
        PROVE  i \in active
    <3>1. PICK v \in Worker : v = owner[s]
      BY <1>1, <2>1 DEF TypeOK, NetInv, LinkInv
    <3>2. Holds(v, i)'
      BY <1>2, <2>1, <3>1 DEF Holds, Reports
    <3> QED BY <1>10, <2>1, <3>1, <3>2 DEF NetInv, OnlyInv
  <2>2. \A s \in Socket : Only(s)' = Only(s) /\ Unloaded(s)' = Unloaded(s) /\ Load(s)' = Load(s)
    BY <1>2 DEF Only, Unloaded, Load
  <2>3. \A s \in Socket : Only(s) =>
           /\ link[s] = "open" => \A i \in Job : Holds(owner[s], i)' => i \in active
           /\ registry[s] = "idle" => Unloaded(s)
           /\ \A h, i \in Load(s) : h = i
    BY <2>1 DEF NetInv, OnlyInv
  <2> QED BY <1>2, <2>2, <2>3 DEF OnlyInv, Holds, Reports
<1>18. NoBusyLeak'
  BY <1>2 DEF NetInv, NoBusyLeak, AgentRun
<1> QED
  BY <1>11, <1>12, <1>13, <1>14, <1>15, <1>16, <1>17, <1>18 DEF NetInv

\* A registration is read: the connection was unknown and had nothing to do.
LEMMA RegisterNet ==
    ASSUME Inv, NetInv, NEW s \in Socket, link[s] = "open", up[s] # <<>>,
           Head(up[s]).type = "register", up' = [up EXCEPT ![s] = Tail(@)],
           registry' = [registry EXCEPT ![s] = "idle"],
           UNCHANGED <<active, assigned, agent, link, owner, sendBuffer, running>>
    PROVE  NetInv'
<1>1. TypeOK /\ up[s] \in Seq(Message) /\ NoRepeats(up[s])
  BY DEF Inv, TypeOK, NetInv, OnceInv
<1>2. /\ registry'[s] = "idle" /\ \A t \in Socket \ {s} : registry'[t] = registry[t]
      /\ up'[s] = Tail(up[s]) /\ \A t \in Socket \ {s} : up'[t] = up[t]
  BY <1>1 DEF TypeOK
<1>3. /\ NoRepeats(up'[s]) /\ 1 \in Registers(up[s])
      /\ \A k \in Registers(up'[s]) : k \in Nat /\ k >= 1 /\ k + 1 \in Registers(up[s])
      /\ Reports(up'[s]) \subseteq Reports(up[s])
  <2>1. up[s] # <<>> /\ up[s] \in Seq(Message) /\ NoRepeats(up[s])
    BY <1>1
  <2>2. /\ NoRepeats(Tail(up[s]))
        /\ \A k \in Registers(Tail(up[s])) : k \in Nat /\ k >= 1 /\ k + 1 \in Registers(up[s])
        /\ Head(up[s]).type = "register" => 1 \in Registers(up[s])
    BY <2>1, TailMail
  <2>3. Reports(Tail(up[s])) \subseteq Reports(up[s])
    BY <2>1, ReportsOfTail
  <2> QED BY <1>2, <2>2, <2>3
<1>4. Unloaded(s) /\ registry[s] = "absent" /\ \A k \in Registers(up[s]) : k = 1
  BY <1>3 DEF NetInv, RegisterInv
<1>5. Registers(up'[s]) = {}
  BY <1>3, <1>4
<1>6. \A t \in Socket : Reports(up'[t]) \subseteq Reports(up[t]) /\ NoRepeats(up'[t])
  BY <1>2, <1>3 DEF NetInv, OnceInv
<1>7. \A w \in Worker, j \in Job : Holds(w, j)' => Holds(w, j)
  <2>1. \A w \in Worker, j \in Job : Holds(w, j)' =>
           \/ j \in running[w]
           \/ j \in Reports(sendBuffer[w])
           \/ \E t \in Socket : owner[t] = w /\ j \in Reports(up'[t])
    BY DEF Holds, Reports
  <2> QED BY <1>6, <2>1 DEF Holds
<1>8. HolderInv'
  <2>1. \A w \in Worker, j \in active :
           Holds(w, j)' => assigned[j] # NoSocket /\ owner[assigned[j]] = w
    BY <1>1, <1>7 DEF NetInv, HolderInv, TypeOK
  <2> QED BY <2>1 DEF HolderInv, Holds, Reports
<1>9. LinkInv' /\ AgentInv'
  BY <1>2 DEF NetInv, LinkInv, AgentInv, AgentRun
<1>10. OpenInv' /\ KnownInv'
  BY DEF NetInv, OpenInv, KnownInv
<1>11. OnceInv'
  <2>1. \A w \in Worker : \A j \in running'[w] :
           /\ j \notin Reports(sendBuffer'[w])
           /\ \A t \in Socket : owner'[t] = w => j \notin Reports(up'[t])
    BY <1>6 DEF NetInv, OnceInv
  <2>2. \A w \in Worker : NoRepeats(sendBuffer'[w])
    BY DEF NetInv, OnceInv
  <2> QED BY <1>6, <2>1, <2>2 DEF OnceInv, NoRepeats, Reports
<1>12. \A t \in Socket : Only(t)' = Only(t) /\ Unloaded(t)' = Unloaded(t) /\ Load(t)' = Load(t)
  BY DEF Only, Unloaded, Load
<1>13. RegisterInv'
  <2>1. \A t \in Socket : Registers(up'[t]) # {} =>
           registry'[t] = "absent" /\ Unloaded(t) /\ \A k, l \in Registers(up'[t]) : k = l
    <3> SUFFICES ASSUME NEW t \in Socket \ {s}, Registers(up'[t]) # {}
                 PROVE  registry'[t] = "absent" /\ Unloaded(t) /\ \A k, l \in Registers(up'[t]) : k = l
      BY <1>5
    <3>1. Registers(up'[t]) = Registers(up[t]) /\ registry'[t] = registry[t]
      BY <1>2
    <3> QED BY <3>1 DEF NetInv, RegisterInv
  <2>2. \A w \in Worker : Registers(sendBuffer[w]) = {}
    BY DEF NetInv, RegisterInv
  <2> QED BY <1>12, <2>1, <2>2 DEF RegisterInv, Registers
<1>14. OnlyInv'
  <2>1. ASSUME NEW t \in Socket, Only(t), link[t] = "open", NEW j \in Job, Holds(owner[t], j)'
        PROVE  j \in active
    <3>1. PICK w \in Worker : w = owner[t]
      BY <1>1, <2>1 DEF TypeOK, NetInv, LinkInv
    <3>2. Holds(w, j)'
      BY <2>1, <3>1 DEF Holds, Reports
    <3> QED BY <1>7, <2>1, <3>1, <3>2 DEF NetInv, OnlyInv
  <2>2. \A t \in Socket : Only(t) =>
           /\ link[t] = "open" => \A j \in Job : Holds(owner[t], j)' => j \in active
           /\ registry'[t] = "idle" => Unloaded(t)
           /\ \A i, j \in Load(t) : i = j
    BY <1>2, <1>4, <2>1 DEF NetInv, OnlyInv
  <2> QED BY <1>12, <2>2 DEF OnlyInv, Holds, Reports
<1>15. NoBusyLeak'
  BY <1>2 DEF NetInv, NoBusyLeak, AgentRun
<1> QED
  BY <1>8, <1>9, <1>10, <1>11, <1>13, <1>14, <1>15 DEF NetInv

LEMMA RestartNet ==
    ASSUME Inv, NetInv, Restart
    PROVE  NetInv'
<1>1. /\ active' = {} /\ assigned' = [j \in Job |-> NoSocket]
      /\ registry' = [s \in Socket |-> "absent"]
      /\ agent' = [j \in Job |-> AgentOff]
      /\ link' = [s \in Socket |-> IF link[s] = "fresh" THEN "fresh" ELSE "gone"]
      /\ up' = [s \in Socket |-> <<>>]
      /\ UNCHANGED <<owner, sendBuffer, running>>
  BY DEF Restart
<1>2. /\ \A s \in Socket : up'[s] = <<>> /\ registry'[s] = "absent" /\ link'[s] # "open"
      /\ \A s \in Socket : link'[s] = "fresh" <=> link[s] = "fresh"
      /\ \A j \in Job : agent'[j].on = NoSocket /\ ~AgentRun(j)'
  BY <1>1 DEF AgentOff, AgentRun
<1>3. HolderInv' /\ LinkInv' /\ AgentInv' /\ OpenInv' /\ KnownInv'
  <2>1. LinkInv'
    BY <1>1, <1>2 DEF NetInv, LinkInv
  <2>2. AgentInv'
    BY <1>2 DEF AgentInv
  <2>3. HolderInv' /\ OpenInv' /\ KnownInv'
    BY <1>1, <1>2 DEF NetInv, HolderInv, OpenInv, KnownInv
  <2> QED BY <2>1, <2>2, <2>3
<1>4. OnceInv'
  <2>1. \A s \in Socket : NoRepeats(up'[s]) /\ Reports(up'[s]) = {}
    BY <1>2, NoMail
  <2>2. /\ \A w \in Worker : NoRepeats(sendBuffer'[w])
        /\ \A w \in Worker : \A j \in running'[w] : j \notin Reports(sendBuffer'[w])
    BY <1>1 DEF NetInv, OnceInv
  <2> QED BY <2>1, <2>2 DEF OnceInv, NoRepeats, Reports
<1>5. RegisterInv'
  <2>1. \A s \in Socket : Registers(up'[s]) = {}
    BY <1>2, NoMail
  <2>2. \A w \in Worker : Registers(sendBuffer'[w]) = {}
    BY <1>1 DEF NetInv, RegisterInv
  <2> QED BY <2>1, <2>2 DEF RegisterInv, Registers
<1>6. OnlyInv'
  <2>1. \A s \in Socket : Load(s)' = {}
    BY <1>1, <1>2, WorkerAssumption DEF Load
  <2> QED BY <1>2, <2>1 DEF OnlyInv
<1>7. NoBusyLeak'
  BY <1>2 DEF NoBusyLeak
<1> QED BY <1>3, <1>4, <1>5, <1>6, <1>7 DEF NetInv

LEMMA AgentNet ==
    ASSUME Inv, NetInv, NEW j \in Job,
           StartAgent(j) \/ AgentReply(j) \/ AgentTimeout(j) \/ AgentTools(j)
    PROVE  NetInv'
<1>1. TypeOK /\ agent \in [Job -> AgentState]
  BY DEF Inv, TypeOK
<1>2. CASE UNCHANGED <<active, assigned, registry, agent, link, owner, up, sendBuffer, running>>
  BY <1>2, NetStutter
<1>3. CASE AgentRun(j) /\ (FinishAgent(j) \/ AbortAgent(j))
  <2>1. /\ registry' = Freed(agent[j].on) /\ agent' = [agent EXCEPT ![j] = AgentOff]
        /\ UNCHANGED <<active, assigned, link, owner, up, sendBuffer, running>>
    BY <1>3 DEF FinishAgent, AbortAgent, engineVars, netVars
  <2>2. agent'[j] = AgentOff /\ \A i \in Job \ {j} : agent'[i] = agent[i]
    BY <1>1, <2>1
  <2>3. agent[j].on \in Socket
    BY <1>1, <1>3 DEF NetInv, AgentInv, AgentState
  <2> QED BY <1>3, <2>1, <2>2, <2>3, RunNet
<1>4. CASE /\ agent[j].phase \in {"turn", "tools"}
           /\ \E r \in {"turn", "tools"} : \E n :
                 agent' = [agent EXCEPT ![j] = [phase |-> r, on |-> agent[j].on, turns |-> n]]
           /\ UNCHANGED <<engineVars, registry, netVars, running>>
  <2>0. PICK r \in {"turn", "tools"} : \E n :
           agent' = [agent EXCEPT ![j] = [phase |-> r, on |-> agent[j].on, turns |-> n]]
    BY <1>4
  <2>1. PICK n : agent' = [agent EXCEPT ![j] = [phase |-> r, on |-> agent[j].on, turns |-> n]]
    BY <2>0
  <2>2. /\ agent'[j].on = agent[j].on /\ agent'[j].phase # "off"
        /\ \A i \in Job \ {j} : agent'[i] = agent[i]
    BY <1>1, <2>1
  <2>3. AgentRun(j)' = AgentRun(j)
    BY <1>4, <2>2 DEF AgentRun
  <2>4. UNCHANGED <<active, assigned, registry, link, owner, up, sendBuffer, running>>
    BY <1>4 DEF engineVars, netVars
  <2> QED BY <2>2, <2>3, <2>4, RunNet
<1>5. CASE StartAgent(j)
  <2>1. ~AgentRun(j)
    BY <1>5, OpenRow DEF StartAgent, Inv, JobsInv, Owned, Unseen
  <2>2. ASSUME NEW s \in Socket, registry[s] = "idle",
               registry' = [registry EXCEPT ![s] = "busy"],
               agent' = [agent EXCEPT ![j] = [phase |-> "turn", on |-> s, turns |-> 0]],
               UNCHANGED <<engineVars, netVars, running>>
        PROVE  NetInv'
    <3>1. /\ agent'[j].on = s /\ agent'[j].phase = "turn"
          /\ \A i \in Job \ {j} : agent'[i] = agent[i]
      BY <1>1, <2>2
    <3>2. AgentRun(j)'
      BY <3>1 DEF AgentRun
    <3>3. UNCHANGED <<active, assigned, link, owner, up, sendBuffer, running>>
      BY <2>2 DEF engineVars, netVars
    <3> QED BY <2>1, <2>2, <3>1, <3>2, <3>3, RunNet
  <2> QED
    BY <1>2, <1>5, <2>2 DEF StartAgent, Reject, IdleFor, engineVars, asyncVars, netVars
<1>6. CASE AgentReply(j) /\ ~(FinishAgent(j) \/ AbortAgent(j))
  <2>1. agent' = [agent EXCEPT ![j] = [phase |-> "tools", on |-> agent[j].on, turns |-> agent[j].turns]]
    <3>1. agent[j] = [phase |-> agent[j].phase, on |-> agent[j].on, turns |-> agent[j].turns]
      BY <1>1 DEF AgentState
    <3>2. [agent[j] EXCEPT !.phase = "tools"]
             = [phase |-> "tools", on |-> agent[j].on, turns |-> agent[j].turns]
      BY <3>1
    <3> QED BY <1>6, <3>2 DEF AgentReply
  <2> QED BY <1>4, <1>6, <2>1 DEF AgentReply
<1>7. CASE AgentTools(j) /\ ~(FinishAgent(j) \/ AbortAgent(j))
  BY <1>4, <1>7 DEF AgentTools
<1>8. AgentReply(j) \/ AgentTimeout(j) \/ AgentTools(j) => AgentRun(j)
  BY DEF AgentReply, AgentTimeout, AgentTools, AgentRun
<1> QED BY <1>3, <1>5, <1>6, <1>7, <1>8 DEF AgentTimeout

LEMMA ReceiveNet ==
    ASSUME Inv, Inv', NetInv, NEW s \in Socket, Receive(s)
    PROVE  NetInv'
<1>1. TypeOK /\ JobsInv
  BY DEF Inv
<1>2. /\ link[s] = "open" /\ up[s] # <<>> /\ up' = [up EXCEPT ![s] = Tail(@)]
      /\ UNCHANGED <<link, owner, sendBuffer>>
  BY DEF Receive
<1>3. CASE Head(up[s]).type = "register" /\ Register(s)
  <2>1. /\ registry' = [registry EXCEPT ![s] = "idle"]
        /\ UNCHANGED <<active, assigned, agent, running>>
    BY <1>3 DEF Register, engineVars, asyncVars
  <2> QED BY <1>2, <1>3, <2>1, RegisterNet
<1>4. ASSUME NEW j \in Job, Head(up[s]).type # "register", Head(up[s]).job = j,
             OnWorkerDone(s, j) \/ OnWorkerError(s, j)
      PROVE  NetInv'
  <2>1. UNCHANGED agent
    BY <1>4 DEF OnWorkerDone, OnWorkerError, asyncVars
  <2>2. CASE j \in active \/ OnWorkerError(s, j)
    <3>1. /\ active' = active \ {j}
          /\ Schedule(active \ {j}, [assigned EXCEPT ![j] = NoSocket],
                      queue, ahead, Freed(s), timers)
      BY <1>4, <2>2 DEF OnWorkerDone, OnWorkerError
    <3> QED BY <1>2, <1>4, <2>1, <3>1, ReportNet
  <2>3. CASE j \notin active /\ OnWorkerDone(s, j)
    <3>1. UNCHANGED <<active, assigned, registry, running>>
      BY <2>3 DEF OnWorkerDone, engineVars
    <3>2. up'[s] = Tail(up[s]) /\ \A t \in Socket \ {s} : up'[t] = up[t]
      BY <1>1, <1>2 DEF TypeOK
    <3> QED BY <1>2, <2>1, <3>1, <3>2, CutNet
  <2> QED BY <1>4, <2>2, <2>3
<1> QED BY <1>1, <1>3, <1>4, ReceiveCases

LEMMA NetInit == Init => NetInv
<1> SUFFICES ASSUME Init PROVE NetInv
  OBVIOUS
<1>1. /\ \A w \in Worker : running[w] = {} /\ sendBuffer[w] = <<>>
      /\ \A s \in Socket : /\ up[s] = <<>> /\ link[s] = "fresh" /\ owner[s] = NoWorker
                           /\ registry[s] = "absent"
      /\ active = {} /\ \A j \in Job : agent[j].phase = "off" /\ agent[j].on = NoSocket
  BY DEF Init, AgentOff
<1>2. HolderInv /\ LinkInv /\ AgentInv /\ OpenInv /\ KnownInv
  BY <1>1 DEF HolderInv, LinkInv, AgentInv, AgentRun, OpenInv, KnownInv
<1>3. OnceInv /\ RegisterInv
  BY <1>1, NoMail DEF OnceInv, RegisterInv
<1>4. OnlyInv /\ NoBusyLeak
  BY <1>1, WorkerAssumption DEF OnlyInv, Load, NoBusyLeak
<1> QED BY <1>2, <1>3, <1>4 DEF NetInv

LEMMA NetStep ==
    ASSUME Inv, Inv', NetInv, [Next]_vars
    PROVE  NetInv'
<1>1. ASSUME NEW j \in Job, JobStep(j) PROVE NetInv'
  <2>1. CASE UNCHANGED <<engineVars, registry, agent, netVars, running>>
    BY <2>1, NetStutter DEF engineVars, netVars
  <2>2. CASE Reject(j) \/ AnswerArithmetic(j) \/ StartAristotle(j) \/ AristotleReturns(j)
    BY <2>1, <2>2 DEF Reject, AnswerArithmetic, StartAristotle, AristotleReturns, asyncVars
  <2> QED BY <1>1, <2>2, SubmitNet, FailQueuedNet, AgentNet DEF JobStep
<1>2. ASSUME NEW w \in Worker, WorkerStep(w) PROVE NetInv'
  <2>1. CASE WorkerCrash(w)
    <3>1. /\ running' = [running EXCEPT ![w] = {}]
          /\ sendBuffer' = [sendBuffer EXCEPT ![w] = <<>>]
          /\ link' = [s \in Socket |-> IF Connected(w, s) THEN "half" ELSE link[s]]
          /\ up' = [s \in Socket |-> IF Connected(w, s) THEN <<>> ELSE up[s]]
          /\ UNCHANGED <<active, assigned, registry, agent, owner>>
      BY <2>1 DEF WorkerCrash, engineVars, asyncVars
    <3>2. /\ \A v \in Worker : running'[v] \subseteq running[v]
          /\ \A v \in Worker : sendBuffer'[v] = sendBuffer[v] \/ sendBuffer'[v] = <<>>
      BY <3>1 DEF Inv, TypeOK
    <3>3. \A s \in Socket : \/ up'[s] = up[s] /\ link'[s] = link[s]
                            \/ up'[s] = <<>> /\ link'[s] = "half" /\ link[s] = "open"
      BY <3>1 DEF Connected
    <3> QED BY <3>1, <3>2, <3>3, CutNet
  <2> QED BY <1>2, <2>1, ConnectNet, ReportSentNet DEF WorkerStep
<1>3. ASSUME NEW s \in Socket, SocketStep(s) PROVE NetInv'
  <2>1. CASE LinkDrop(s)
    <3>1. /\ link[s] = "open" /\ link' = [link EXCEPT ![s] = "half"]
          /\ up' = [up EXCEPT ![s] = <<>>]
          /\ UNCHANGED <<active, assigned, registry, agent, owner, sendBuffer, running>>
      BY <2>1 DEF LinkDrop, engineVars, asyncVars
    <3>2. /\ up'[s] = <<>> /\ link'[s] = "half"
          /\ \A t \in Socket \ {s} : up'[t] = up[t] /\ link'[t] = link[t]
      BY <3>1 DEF Inv, TypeOK
    <3> QED BY <3>1, <3>2, CutNet
  <2> QED BY <1>3, <2>1, ReceiveNet, DisconnectNet DEF SocketStep
<1>4. CASE UNCHANGED vars
  BY <1>4, NetStutter DEF vars, engineVars, asyncVars, netVars
<1> QED BY <1>1, <1>2, <1>3, <1>4, RestartNet DEF Next

\* A connected worker that is busy has a job or a run: whatever drops, refunds or
\* settles either also frees it, unless the worker has moved to another connection.
THEOREM BusyWorkersHaveWork == Spec => []NoBusyLeak
<1>1. Inv /\ NetInv /\ [Next]_vars => Inv' /\ NetInv'
  BY InvStep, NetStep
<1>2. NetInv => NoBusyLeak
  BY DEF NetInv
<1> QED BY InvInit, NetInit, <1>1, <1>2, PTL DEF Spec

\* A worker that has had one connection only is never given two things at once:
\* the reports that free it are about what it was given on that connection.
THEOREM OneJobAtATime == Spec => []OneJobUntilReconnect
<1>1. Inv /\ NetInv /\ [Next]_vars => Inv' /\ NetInv'
  BY InvStep, NetStep
<1>2. ASSUME NetInv PROVE OneJobUntilReconnect
  <2> SUFFICES ASSUME NEW s \in Socket, Only(s) PROVE Cardinality(Load(s)) <= 1
    BY DEF OneJobUntilReconnect, Only
  <2>1. \A i, j \in Load(s) : i = j
    BY <1>2 DEF NetInv, OnlyInv
  <2>2. CASE Load(s) = {}
    BY <2>2, FS_EmptySet
  <2>3. ASSUME NEW j \in Load(s) PROVE Cardinality(Load(s)) <= 1
    <3>1. Load(s) = {j}
      BY <2>1
    <3> QED BY <3>1, FS_Singleton
  <2> QED BY <2>2, <2>3
<1> QED BY InvInit, NetInit, <1>1, <1>2, PTL DEF Spec

-----------------------------------------------------------------------------
(***************************************************************************)
(* The books: what one step does to them.                                  *)
(***************************************************************************)
\* What settling j can cost.
Charges(j) == {ReserveFor(j)} \cup {ChargeFor(j, t) : t \in Usage}

\* One job takes at most its reservation, which its owner could afford.
Takes(j) ==
    /\ CanReserve(j, ReserveFor(j))
    /\ row'[j].net >= row[j].net - ReserveFor(j)
    /\ \A i \in Job \ {j} : row'[i] = row[i]

\* One job is settled for c, and p and the stakers are paid out of it: a job that
\* was reserved, or one that its owner can afford on the spot.
Settles(j, c, p) ==
    /\ row[j].charge = 0 /\ row'[j].charge = c /\ row'[j].net = -c
    /\ row[j].net = -ReserveFor(j) \/ (row[j].net = 0 /\ c = ReserveFor(j) /\ Takes(j))
    /\ \A i \in Job \ {j} : row'[i] = row[i]
    /\ PayOut(c, p)

StoreMove ==
    /\ \A j \in Job : row'[j] = row[j] \/ row'[j].charge <= -row'[j].net
    /\ \/ /\ NoPayOut
          /\ \A j \in Job : row'[j].charge = row[j].charge
          /\ (\A j \in Job : row'[j].net >= row[j].net) \/ (\E j \in Job : Takes(j))
       \/ \E j \in Job, p \in Provider : \E c \in Charges(j) : Settles(j, c, p)

\* No reservation loses its owner.
OwnerKept ==
    \A j \in Job :
        row'[j].status = "reserved" =>
            Owned(j)' \/ (row[j].status = "reserved" /\ ~Owned(j))

LEMMA ChargesType == \A j \in Job : Charges(j) \subseteq Nat /\ Charges(j) \subseteq Amounts
BY ReserveForType, ChargeForType DEF Charges, Amounts

LEMMA BooksStutter ==
    ASSUME TypeOK, UNCHANGED storeVars
    PROVE  StoreMove
BY DEF StoreMove, NoPayOut, storeVars, TypeOK, Row

LEMMA MoveAdmit ==
    ASSUME TypeOK, JobsInv, NEW j \in Job, Unseen(j), CanReserve(j, ReserveFor(j)),
           \/ row' = [row EXCEPT ![j] = Reserved(@, ReserveFor(j))]
           \/ row' = [row EXCEPT ![j] = Refunded(Reserved(@, ReserveFor(j)))],
           NoPayOut
    PROVE  StoreMove
<1>1. /\ row[j] = NewRow /\ ReserveFor(j) \in Nat
      /\ \A i \in Job : row[i].net \in Int /\ row[i].charge \in Nat
  BY ReserveForType DEF Unseen, JobsInv, TypeOK, Row
<1>2. \A i \in Job \ {j} : row'[i] = row[i]
  BY DEF TypeOK
<1>3. /\ row'[j].charge = 0 /\ row[j].charge = 0
      /\ row'[j].net \in Int /\ row'[j].net <= 0 /\ row'[j].net >= row[j].net - ReserveFor(j)
  <2>1. row[j].net = 0 /\ row[j].charge = 0
    BY <1>1 DEF NewRow
  <2>2. CASE row' = [row EXCEPT ![j] = Reserved(@, ReserveFor(j))]
    <3>1. row'[j] = Reserved(row[j], ReserveFor(j))
      BY <2>2 DEF TypeOK
    <3> QED BY <1>1, <2>1, <3>1 DEF Reserved
  <2>3. CASE row' = [row EXCEPT ![j] = Refunded(Reserved(@, ReserveFor(j)))]
    <3>1. row'[j] = Refunded(Reserved(row[j], ReserveFor(j)))
      BY <2>3 DEF TypeOK
    <3> QED BY <1>1, <2>1, <3>1 DEF Reserved, Refunded
  <2> QED BY <2>1, <2>2, <2>3
<1>4. Takes(j)
  BY <1>2, <1>3 DEF Takes
<1>5. \A i \in Job : row'[i] = row[i] \/ row'[i].charge <= -row'[i].net
  BY <1>2, <1>3
<1>6. \A i \in Job : row'[i].charge = row[i].charge
  BY <1>2, <1>3
<1> QED
  BY <1>4, <1>5, <1>6 DEF StoreMove

LEMMA MoveSettle ==
    ASSUME TypeOK, NEW j \in Job, Open(j), NEW c \in Charges(j), NEW p \in Provider,
           row' = [row EXCEPT ![j] = Settled(@, c)], PayOut(c, p)
    PROVE  StoreMove
<1>1. c \in Nat /\ ReserveFor(j) \in Nat
  BY ChargesType, ReserveForType
<1>2. row'[j] = Settled(row[j], c) /\ \A i \in Job \ {j} : row'[i] = row[i]
  BY DEF TypeOK
<1>3. row[j].net = -ReserveFor(j) /\ row[j].reserve = ReserveFor(j) /\ row[j].charge = 0
  BY DEF Open
<1>4. row'[j].charge = c /\ row'[j].net = -c
  BY <1>1, <1>2, <1>3 DEF Settled
<1>5. Settles(j, c, p)
  BY <1>2, <1>3, <1>4 DEF Settles
<1> QED
  BY <1>1, <1>2, <1>4, <1>5 DEF StoreMove

LEMMA MoveAnswer ==
    ASSUME TypeOK, JobsInv, NEW j \in Job, Unseen(j), CanReserve(j, ReserveFor(j)),
           row' = [row EXCEPT ![j] = Settled(Reserved(@, ReserveFor(j)), ReserveFor(j))],
           PayOut(ReserveFor(j), Local)
    PROVE  StoreMove
<1>1. row[j] = NewRow /\ ReserveFor(j) \in Nat /\ ReserveFor(j) \in Charges(j) /\ Local \in Provider
  BY ReserveForType DEF Unseen, JobsInv, Charges, Provider
<1>2. /\ row'[j] = Settled(Reserved(row[j], ReserveFor(j)), ReserveFor(j))
      /\ \A i \in Job \ {j} : row'[i] = row[i]
  BY DEF TypeOK
<1>3. row[j].net = 0 /\ row[j].charge = 0
  BY <1>1 DEF NewRow
<1>4. row'[j].charge = ReserveFor(j) /\ row'[j].net = -ReserveFor(j)
  BY <1>1, <1>2, <1>3 DEF Settled, Reserved
<1>5. Takes(j)
  BY <1>1, <1>2, <1>3, <1>4 DEF Takes
<1>6. Settles(j, ReserveFor(j), Local)
  BY <1>2, <1>3, <1>4, <1>5 DEF Settles
<1> QED
  BY <1>1, <1>2, <1>4, <1>6 DEF StoreMove

LEMMA MoveRefund ==
    ASSUME TypeOK, NEW jobs \in SUBSET Job, \A j \in jobs : Open(j), NoPayOut,
           row' = [j \in Job |-> IF j \in jobs THEN Refunded(row[j]) ELSE row[j]]
    PROVE  StoreMove
<1>1. ASSUME NEW j \in jobs
      PROVE  /\ row'[j].charge = 0 /\ row[j].charge = 0
             /\ row'[j].net = 0 /\ row[j].net <= 0
  <2>1. ReserveFor(j) \in Nat
    BY ReserveForType
  <2>2. row[j].net = -ReserveFor(j) /\ row[j].reserve = ReserveFor(j) /\ row[j].charge = 0
    <3>1. Open(j)
      BY <1>1
    <3> QED BY <3>1 DEF Open
  <2>3. row'[j] = Refunded(row[j])
    OBVIOUS
  <2> QED BY <2>1, <2>2, <2>3 DEF Refunded
<1>2. \A j \in Job \ jobs : row'[j] = row[j] /\ row[j].net \in Int
  BY DEF TypeOK, Row
<1>3. \A j \in Job : row'[j].charge = row[j].charge /\ row'[j].net >= row[j].net
  <2> SUFFICES ASSUME NEW j \in Job
               PROVE  row'[j].charge = row[j].charge /\ row'[j].net >= row[j].net
    OBVIOUS
  <2>1. CASE j \in jobs
    <3>1. row[j].net \in Int
      BY DEF TypeOK, Row
    <3> QED BY <1>1, <2>1, <3>1
  <2>2. CASE j \notin jobs
    BY <1>2, <2>2
  <2> QED BY <2>1, <2>2
<1>4. \A j \in Job : row'[j] = row[j] \/ row'[j].charge <= -row'[j].net
  BY <1>1, <1>2
<1> QED
  BY <1>3, <1>4 DEF StoreMove

LEMMA MoveRefundOne ==
    ASSUME TypeOK, NEW j \in Job, Open(j), NoPayOut, row' = [row EXCEPT ![j] = Refunded(@)]
    PROVE  StoreMove
<1> DEFINE jobs == {j}
<1>1. row' = [i \in Job |-> IF i \in jobs THEN Refunded(row[i]) ELSE row[i]]
  BY DEF TypeOK
<1>2. jobs \in SUBSET Job /\ \A i \in jobs : Open(i)
  OBVIOUS
<1> HIDE DEF jobs
<1> QED BY <1>1, <1>2, MoveRefund

\* The owners of the jobs a step does not close are still there after it.
LEMMA OwnerFrame ==
    ASSUME NEW jobs \in SUBSET Job,
           \A j \in Job \ jobs :
              /\ row'[j] = row[j]
              /\ j \in active => j \in active'
              /\ AgentRun(j) => AgentRun(j)'
              /\ j \in solving => j \in solving',
           \A j \in jobs : row'[j].status # "reserved" \/ Owned(j)'
    PROVE  OwnerKept
<1> SUFFICES ASSUME NEW j \in Job, row'[j].status = "reserved"
             PROVE  Owned(j)' \/ (row[j].status = "reserved" /\ ~Owned(j))
  BY DEF OwnerKept
<1>1. CASE j \in jobs
  BY <1>1
<1>2. CASE j \notin jobs
  BY <1>2 DEF Owned
<1> QED BY <1>1, <1>2

LEMMA OwnerFrameOne ==
    ASSUME TypeOK, NEW j \in Job, NEW r, row' = [row EXCEPT ![j] = r],
           r.status # "reserved" \/ Owned(j)',
           active \ {j} \subseteq active', solving \ {j} \subseteq solving',
           \A i \in Job \ {j} : agent'[i] = agent[i]
    PROVE  OwnerKept
<1> DEFINE jobs == {j}
<1>1. \A i \in Job \ jobs :
              /\ row'[i] = row[i]
              /\ i \in active => i \in active'
              /\ AgentRun(i) => AgentRun(i)'
              /\ i \in solving => i \in solving'
  BY DEF TypeOK, AgentRun
<1>2. \A i \in jobs : row'[i].status # "reserved" \/ Owned(i)'
  BY DEF TypeOK
<1>3. jobs \in SUBSET Job
  OBVIOUS
<1> HIDE DEF jobs
<1> QED BY <1>1, <1>2, <1>3, OwnerFrame

LEMMA OwnerStutter ==
    ASSUME UNCHANGED <<row, active, agent, solving>>
    PROVE  OwnerKept
BY DEF OwnerKept, Owned, AgentRun

-----------------------------------------------------------------------------
\* A connection that serves a job belongs to a worker.
LEMMA Served ==
    ASSUME Inv, NetInv, NEW j \in Job
    PROVE  /\ j \in active /\ assigned[j] # NoSocket => owner[assigned[j]] \in Provider
           /\ AgentRun(j) => owner[agent[j].on] \in Provider
<1>1. /\ owner \in [Socket -> Worker \cup {NoWorker}]
      /\ assigned \in [Job -> Socket \cup {NoSocket}] /\ agent \in [Job -> AgentState]
  BY DEF Inv, TypeOK
<1>2. ASSUME j \in active, assigned[j] # NoSocket PROVE owner[assigned[j]] \in Provider
  BY <1>1, <1>2 DEF Inv, EngineInv, AssignedToRegistered, NetInv, LinkInv, Provider
<1>3. ASSUME AgentRun(j) PROVE owner[agent[j].on] \in Provider
  <2>1. agent[j].on \in Socket /\ link[agent[j].on] # "fresh"
    BY <1>1, <1>3 DEF NetInv, AgentInv, AgentState
  <2> QED BY <1>1, <2>1 DEF NetInv, LinkInv, Provider
<1> QED BY <1>2, <1>3

LEMMA StatusClosed ==
    ASSUME NEW r, NEW n
    PROVE  Settled(r, n).status # "reserved" /\ Refunded(r).status # "reserved"
BY DEF Settled, Refunded

LEMMA RejectBooks ==
    ASSUME TypeOK, NEW j \in Job, Reject(j)
    PROVE  StoreMove /\ OwnerKept
BY BooksStutter, OwnerStutter DEF Reject, storeVars, engineVars, asyncVars

LEMMA EngineBooks ==
    ASSUME Inv, NEW j \in Job, Submit(j) \/ FailQueued(j)
    PROVE  StoreMove /\ OwnerKept
<1>1. TypeOK /\ JobsInv
  BY DEF Inv
<1>2. UNCHANGED <<agent, solving>>
  BY DEF Submit, Reject, FailQueued, asyncVars
<1>3. CASE Submit(j) /\ ~Reject(j)
  <2>1. /\ row' = [row EXCEPT ![j] = Reserved(@, ReserveFor(j))]
        /\ active' = active \cup {j} /\ NoPayOut
        /\ Unseen(j) /\ CanReserve(j, ReserveFor(j))
    BY <1>3 DEF Submit
  <2>2. Owned(j)'
    BY <2>1 DEF Owned
  <2> QED BY <1>1, <1>2, <2>1, <2>2, MoveAdmit, OwnerFrameOne
<1>4. CASE FailQueued(j) /\ j \in active /\ assigned[j] = NoSocket
  <2>1. /\ row' = [row EXCEPT ![j] = Refunded(@)]
        /\ active' = active \ {j} /\ NoPayOut
    BY <1>4 DEF FailQueued
  <2>2. Open(j)
    BY <1>1, <1>4 DEF JobsInv, Owned
  <2>3. Refunded(row[j]).status # "reserved"
    BY StatusClosed
  <2> QED BY <1>1, <1>2, <2>1, <2>2, <2>3, MoveRefundOne, OwnerFrameOne
<1>5. CASE FailQueued(j) /\ ~(j \in active /\ assigned[j] = NoSocket)
  <2>1. UNCHANGED <<row, active>> /\ NoPayOut
    BY <1>5 DEF FailQueued
  <2> QED BY <1>1, <1>2, <2>1, BooksStutter, OwnerStutter DEF NoPayOut, storeVars
<1> QED BY <1>1, <1>3, <1>4, <1>5, RejectBooks

LEMMA ReportBooks ==
    ASSUME Inv, NetInv, NEW s \in Socket, NEW j \in Job, Sent(j),
           OnWorkerDone(s, j) \/ OnWorkerError(s, j)
    PROVE  StoreMove /\ OwnerKept
<1>1. TypeOK /\ JobsInv
  BY DEF Inv
<1>2. UNCHANGED <<agent, solving>>
  BY DEF OnWorkerDone, OnWorkerError, asyncVars
<1>3. CASE j \in active
  <2>1. Open(j) /\ active' = active \ {j}
    BY <1>1, <1>3 DEF JobsInv, Owned, OnWorkerDone, OnWorkerError
  <2>2. CASE OnWorkerDone(s, j)
    <3>1. PICK t \in Usage : /\ row' = [row EXCEPT ![j] = Settled(@, ChargeFor(j, t))]
                             /\ PayOut(ChargeFor(j, t), owner[assigned[j]])
      BY <1>3, <2>2 DEF OnWorkerDone
    <3>2. ChargeFor(j, t) \in Charges(j)
      BY DEF Charges
    <3>3. owner[assigned[j]] \in Provider
      BY <1>3, Served DEF Sent
    <3>4. StoreMove
      BY <1>1, <2>1, <3>1, <3>2, <3>3, MoveSettle
    <3>5. Settled(row[j], ChargeFor(j, t)).status # "reserved"
      BY StatusClosed
    <3> QED BY <1>1, <1>2, <2>1, <3>1, <3>4, <3>5, OwnerFrameOne
  <2>3. CASE OnWorkerError(s, j)
    <3>1. row' = [row EXCEPT ![j] = Refunded(@)] /\ NoPayOut
      BY <1>3, <2>3 DEF OnWorkerError
    <3>2. Refunded(row[j]).status # "reserved"
      BY StatusClosed
    <3> QED BY <1>1, <1>2, <2>1, <3>1, <3>2, MoveRefundOne, OwnerFrameOne
  <2> QED BY <2>2, <2>3
<1>4. CASE j \notin active
  <2>1. UNCHANGED <<storeVars, active>>
    BY <1>4 DEF OnWorkerDone, OnWorkerError, NoPayOut, storeVars, engineVars
  <2> QED BY <1>1, <1>2, <2>1, BooksStutter, OwnerStutter DEF storeVars
<1> QED BY <1>3, <1>4

LEMMA GoneBooks ==
    ASSUME Inv, NEW s \in Socket, OnWorkerGone(s)
    PROVE  StoreMove /\ OwnerKept
<1> DEFINE lost == {j \in active : assigned[j] = s}
<1>1. /\ row' = [j \in Job |-> IF j \in lost THEN Refunded(row[j]) ELSE row[j]]
      /\ active' = active \ lost /\ NoPayOut
      /\ UNCHANGED <<agent, solving>>
  BY DEF OnWorkerGone, asyncVars
<1>2. TypeOK /\ lost \in SUBSET Job /\ lost \subseteq active
  BY DEF Inv, TypeOK
<1> HIDE DEF lost
<1>3. \A j \in lost : Open(j)
  BY <1>2 DEF Inv, JobsInv, Owned
<1>4. StoreMove
  BY <1>1, <1>2, <1>3, MoveRefund
<1>5. /\ \A j \in Job \ lost : row'[j] = row[j] /\ (j \in active => j \in active')
      /\ \A j \in Job : AgentRun(j)' = AgentRun(j)
      /\ \A j \in lost : row'[j].status # "reserved"
  BY <1>1, <1>2, StatusClosed DEF TypeOK, AgentRun
<1> QED BY <1>1, <1>2, <1>4, <1>5, OwnerFrame

LEMMA AgentBooks ==
    ASSUME Inv, NetInv, NEW j \in Job,
           StartAgent(j) \/ AgentReply(j) \/ AgentTimeout(j) \/ AgentTools(j)
    PROVE  StoreMove /\ OwnerKept
<1>1. TypeOK /\ JobsInv
  BY DEF Inv
<1>2. ReserveFor(j) \in Charges(j)
  BY DEF Charges
<1>3. CASE AgentRun(j) /\ (FinishAgent(j) \/ AbortAgent(j))
  <2>1. Open(j) /\ owner[agent[j].on] \in Provider
    BY <1>1, <1>3, Served DEF JobsInv, Owned
  <2>2. /\ UNCHANGED <<active, solving>>
        /\ \A i \in Job \ {j} : agent'[i] = agent[i]
    BY <1>1, <1>3 DEF FinishAgent, AbortAgent, engineVars, TypeOK
  <2>3. CASE FinishAgent(j)
    <3>1. /\ row' = [row EXCEPT ![j] = Settled(@, ReserveFor(j))]
          /\ PayOut(ReserveFor(j), owner[agent[j].on])
      BY <2>3 DEF FinishAgent
    <3>2. Settled(row[j], ReserveFor(j)).status # "reserved"
      BY StatusClosed
    <3> QED BY <1>1, <1>2, <2>1, <2>2, <3>1, <3>2, MoveSettle, OwnerFrameOne
  <2>4. CASE AbortAgent(j)
    <3>1. row' = [row EXCEPT ![j] = Refunded(@)] /\ NoPayOut
      BY <2>4 DEF AbortAgent
    <3>2. Refunded(row[j]).status # "reserved"
      BY StatusClosed
    <3> QED BY <1>1, <2>1, <2>2, <3>1, <3>2, MoveRefundOne, OwnerFrameOne
  <2> QED BY <1>3, <2>3, <2>4
<1>4. CASE AgentReply(j) /\ ~(FinishAgent(j) \/ AbortAgent(j))
  <2>1. /\ agent[j].phase = "turn" /\ agent' = [agent EXCEPT ![j].phase = "tools"]
        /\ UNCHANGED <<storeVars, active, solving>>
    BY <1>4 DEF AgentReply, engineVars
  <2>2. \A i \in Job : AgentRun(i)' = AgentRun(i)
    BY <1>1, <2>1 DEF TypeOK, AgentRun, AgentState
  <2>3. OwnerKept
    BY <2>1, <2>2 DEF OwnerKept, Owned, storeVars
  <2> QED BY <1>1, <2>1, <2>3, BooksStutter
<1>5. CASE AgentTools(j) /\ ~(FinishAgent(j) \/ AbortAgent(j))
  <2>1. /\ agent[j].phase = "tools"
        /\ agent' = [agent EXCEPT ![j] = [phase |-> "turn", on |-> @.on, turns |-> @.turns + 1]]
        /\ UNCHANGED <<storeVars, active, solving>>
    BY <1>5 DEF AgentTools, engineVars
  <2>2. \A i \in Job : AgentRun(i)' = AgentRun(i)
    BY <1>1, <2>1 DEF TypeOK, AgentRun
  <2>3. OwnerKept
    BY <2>1, <2>2 DEF OwnerKept, Owned, storeVars
  <2> QED BY <1>1, <2>1, <2>3, BooksStutter
<1>6. CASE StartAgent(j) /\ ~Reject(j)
  <2>1. Unseen(j) /\ CanReserve(j, ReserveFor(j)) /\ NoPayOut
    BY <1>6 DEF StartAgent
  <2>2. CASE /\ row' = [row EXCEPT ![j] = Refunded(Reserved(@, ReserveFor(j)))]
             /\ UNCHANGED <<engineVars, asyncVars>>
    <3>1. Refunded(Reserved(row[j], ReserveFor(j))).status # "reserved"
      BY StatusClosed
    <3>2. UNCHANGED <<active, solving, agent>>
      BY <2>2 DEF engineVars, asyncVars
    <3> QED BY <1>1, <2>1, <2>2, <3>1, <3>2, MoveAdmit, OwnerFrameOne
  <2>3. CASE /\ row' = [row EXCEPT ![j] = Reserved(@, ReserveFor(j))]
             /\ \E s : agent' = [agent EXCEPT ![j] = [phase |-> "turn", on |-> s, turns |-> 0]]
             /\ UNCHANGED <<engineVars, solving>>
    <3>1. agent'[j].phase = "turn" /\ \A i \in Job \ {j} : agent'[i] = agent[i]
      BY <1>1, <2>3 DEF TypeOK
    <3>2. Owned(j)'
      BY <3>1 DEF Owned, AgentRun
    <3>3. UNCHANGED <<active, solving>>
      BY <2>3 DEF engineVars
    <3> QED BY <1>1, <2>1, <2>3, <3>1, <3>2, <3>3, MoveAdmit, OwnerFrameOne
  <2> QED BY <1>6, <2>2, <2>3 DEF StartAgent
<1>7. AgentReply(j) \/ AgentTimeout(j) \/ AgentTools(j) => AgentRun(j)
  BY DEF AgentReply, AgentTimeout, AgentTools, AgentRun
<1> QED BY <1>1, <1>3, <1>4, <1>5, <1>6, <1>7, RejectBooks DEF AgentTimeout

LEMMA AristotleBooks ==
    ASSUME Inv, NEW j \in Job, AnswerArithmetic(j) \/ StartAristotle(j) \/ AristotleReturns(j)
    PROVE  StoreMove /\ OwnerKept
<1>1. TypeOK /\ JobsInv
  BY DEF Inv
<1>2. ReserveFor(j) \in Charges(j) /\ Harmonic \in Provider
  BY DEF Charges, Provider
<1>3. CASE AnswerArithmetic(j) /\ ~Reject(j)
  <2>1. /\ Unseen(j) /\ CanReserve(j, ReserveFor(j))
        /\ row' = [row EXCEPT ![j] = Settled(Reserved(@, ReserveFor(j)), ReserveFor(j))]
        /\ PayOut(ReserveFor(j), Local)
        /\ UNCHANGED <<active, agent, solving>>
    BY <1>3 DEF AnswerArithmetic, engineVars, asyncVars
  <2>2. Settled(Reserved(row[j], ReserveFor(j)), ReserveFor(j)).status # "reserved"
    BY StatusClosed
  <2> QED BY <1>1, <2>1, <2>2, MoveAnswer, OwnerFrameOne
<1>4. CASE StartAristotle(j) /\ ~Reject(j)
  <2>1. /\ Unseen(j) /\ CanReserve(j, ReserveFor(j))
        /\ row' = [row EXCEPT ![j] = Reserved(@, ReserveFor(j))]
        /\ solving' = solving \cup {j} /\ NoPayOut
        /\ UNCHANGED <<active, agent>>
    BY <1>4 DEF StartAristotle, engineVars
  <2>2. Owned(j)'
    BY <2>1 DEF Owned
  <2> QED BY <1>1, <2>1, <2>2, MoveAdmit, OwnerFrameOne
<1>5. CASE AristotleReturns(j)
  <2>1. /\ Open(j) /\ solving' = solving \ {j} /\ UNCHANGED <<active, agent>>
    BY <1>1, <1>5 DEF AristotleReturns, engineVars, JobsInv, Owned
  <2>2. CASE /\ row' = [row EXCEPT ![j] = Settled(@, ReserveFor(j))]
             /\ PayOut(ReserveFor(j), Harmonic)
    <3>1. Settled(row[j], ReserveFor(j)).status # "reserved"
      BY StatusClosed
    <3> QED BY <1>1, <1>2, <2>1, <2>2, <3>1, MoveSettle, OwnerFrameOne
  <2>3. CASE row' = [row EXCEPT ![j] = Refunded(@)] /\ NoPayOut
    <3>1. Refunded(row[j]).status # "reserved"
      BY StatusClosed
    <3> QED BY <1>1, <2>1, <2>3, <3>1, MoveRefundOne, OwnerFrameOne
  <2> QED BY <1>5, <2>2, <2>3 DEF AristotleReturns
<1> QED BY <1>1, <1>3, <1>4, <1>5, RejectBooks DEF AnswerArithmetic, StartAristotle

\* Every step moves the books in one of these ways, and none but a restart takes
\* a reservation from its owner.
LEMMA BooksStep ==
    ASSUME Inv, NetInv, [Next]_vars
    PROVE  StoreMove /\ (OwnerKept \/ restarts' # 0)
<1>1. TypeOK
  BY DEF Inv
<1>2. ASSUME NEW j \in Job, JobStep(j) PROVE StoreMove /\ OwnerKept
  BY <1>2, EngineBooks, AgentBooks, AristotleBooks DEF JobStep
<1>3. ASSUME NEW w \in Worker, WorkerStep(w) PROVE StoreMove /\ OwnerKept
  <2>1. UNCHANGED <<storeVars, active, agent, solving>>
    BY <1>3 DEF WorkerStep, Connect, Report, WorkerCrash, engineVars, asyncVars
  <2> QED BY <1>1, <2>1, BooksStutter, OwnerStutter DEF storeVars
<1>4. ASSUME NEW s \in Socket, SocketStep(s) PROVE StoreMove /\ OwnerKept
  <2>1. CASE LinkDrop(s) \/ Register(s)
    <3>1. UNCHANGED <<storeVars, active, agent, solving>>
      BY <2>1 DEF LinkDrop, Register, engineVars, asyncVars
    <3> QED BY <1>1, <3>1, BooksStutter, OwnerStutter DEF storeVars
  <2>2. CASE Disconnect(s)
    BY <2>2, GoneBooks DEF Disconnect
  <2>3. CASE Receive(s) /\ ~Register(s)
    <3>1. PICK j \in Job : /\ Head(up[s]).type # "register" /\ Head(up[s]).job = j
                           /\ OnWorkerDone(s, j) \/ OnWorkerError(s, j)
      BY <1>1, <2>3, ReceiveCases
    <3>2. Sent(j)
      BY <2>3, <3>1, HeadIsSent DEF Receive
    <3> QED BY <3>1, <3>2, ReportBooks
  <2> QED BY <1>4, <2>1, <2>2, <2>3 DEF SocketStep
<1>5. CASE Restart
  <2>1. restarts' # 0 /\ UNCHANGED storeVars
    BY <1>1, <1>5, WorkerAssumption DEF Restart, TypeOK
  <2> QED BY <1>1, <2>1, BooksStutter
<1>6. CASE UNCHANGED vars
  <2>1. UNCHANGED <<storeVars, active, agent, solving>>
    BY <1>6 DEF vars, engineVars, asyncVars
  <2> QED BY <1>1, <2>1, BooksStutter, OwnerStutter DEF storeVars
<1> QED BY <1>2, <1>3, <1>4, <1>5, <1>6 DEF Next

-----------------------------------------------------------------------------
\* Until the orchestrator restarts, whoever reserved a job's credits is there to
\* settle or refund it: the engine, the agent run or the Aristotle call.
THEOREM ReservationsKeepTheirOwner == Spec => [](restarts = 0 => ReservationHasOwner)
<1> DEFINE I == restarts = 0 => ReservationHasOwner
<1>1. Init => I
  BY DEF Init, ReservationHasOwner, NewRow
<1>2. ASSUME Inv, NetInv, I, [Next]_vars PROVE I'
  <2> SUFFICES ASSUME restarts' = 0 PROVE ReservationHasOwner'
    OBVIOUS
  <2>1. OwnerKept
    BY <1>2, BooksStep
  <2>2. restarts = 0
    <3>1. restarts' = restarts \/ Restart
      BY <1>2 DEF Next, vars, JobStep, Submit, Reject, FailQueued, StartAgent, AgentReply,
                  AgentTimeout, AgentTools, FinishAgent, AbortAgent, AnswerArithmetic,
                  StartAristotle, AristotleReturns, WorkerStep, Connect, Report, WorkerCrash,
                  SocketStep, LinkDrop, Receive, Register, OnWorkerDone, OnWorkerError,
                  Disconnect, OnWorkerGone
    <3>2. ~Restart
      BY <1>2 DEF Restart, Inv, TypeOK
    <3> QED BY <3>1, <3>2
  <2>3. \A j \in Job : row[j].status = "reserved" => Owned(j)
    BY <1>2, <2>2 DEF ReservationHasOwner, Owned
  <2>4. \A j \in Job : row'[j].status = "reserved" => Owned(j)'
    BY <2>1, <2>3 DEF OwnerKept
  <2> QED BY <2>4 DEF ReservationHasOwner, Owned, AgentRun
<1>3. Inv /\ NetInv /\ I /\ [Next]_vars => Inv' /\ NetInv' /\ I'
  BY <1>2, InvStep, NetStep
<1> QED BY InvInit, NetInit, <1>1, <1>3, PTL DEF Spec

-----------------------------------------------------------------------------
\* What settling a charge gives the stakers.
FeeOf(charge) == IF TotalStaked > 0 THEN StakingFee(charge) ELSE 0

Earnings == [j \in Job |-> WorkerEarn(row[j].charge)]
Fees == [j \in Job |-> FeeOf(row[j].charge)]

\* Everything providers and stakers have was paid out of the charge of some job,
\* and no job is charged more than its owner's entries for it take.
PaidInv ==
    /\ \A j \in Job : row[j].charge <= -row[j].net
    /\ Total(earned) = Total(Earnings)
    /\ lifetimeRewards = Total(Fees)

LEMMA ShareTypes ==
    ASSUME NEW c \in Nat
    PROVE  /\ WorkerEarn(c) \in Nat /\ FeeOf(c) \in Nat /\ WorkerEarn(c) + FeeOf(c) <= c
           /\ WorkerEarn(0) = 0 /\ FeeOf(0) = 0
<1>1. WorkerEarn(c) \in Nat /\ StakingFee(c) \in Nat /\ WorkerEarn(c) + StakingFee(c) <= c
  BY WorkerEarnType, StakingFeeType, PayOutWithinCharge
<1>2. WorkerEarn(0) = 0 /\ StakingFee(0) = 0
  <2>1. 0 \notin EarnRoundsShort
    BY EarnRoundsShortAssumption
  <2>2. 7 * 0 = 0 /\ 0 \div 10 = 0
    OBVIOUS
  <2>3. (7 * 0) \div 10 = 0
    BY <2>2
  <2>4. WorkerEarn(0) = (7 * 0) \div 10 - 0
    BY <2>1 DEF WorkerEarn
  <2>5. WorkerEarn(0) = 0
    <3>1. (7 * 0) \div 10 - 0 = 0
      BY <2>3
    <3> QED BY <2>4, <3>1
  <2> QED BY <2>2, <2>5 DEF StakingFee
<1> QED BY <1>1, <1>2 DEF FeeOf

LEMMA ProviderFinite == IsFiniteSet(Provider)
<1>1. IsFiniteSet({Harmonic, Local}) /\ IsFiniteSet(Worker)
  <2>1. {Harmonic, Local} = {Harmonic} \cup {Local}
    OBVIOUS
  <2>2. IsFiniteSet({Harmonic}) /\ IsFiniteSet({Local})
    BY FS_Singleton
  <2>3. IsFiniteSet({Harmonic} \cup {Local})
    BY <2>2, FS_Union
  <2> QED BY <2>1, <2>3, WorkerAssumption
<1>2. Provider = Worker \cup {Harmonic, Local}
  BY DEF Provider
<1> QED BY <1>1, <1>2, FS_Union

LEMMA PaidInit == Init => PaidInv
<1> SUFFICES ASSUME Init PROVE PaidInv
  OBVIOUS
<1>1. \A j \in Job : row[j].charge = 0 /\ row[j].net = 0
  BY DEF Init, NewRow
<1>2. /\ earned \in [Provider -> Int] /\ \A p \in Provider : earned[p] = 0
      /\ lifetimeRewards = 0
  BY DEF Init
<1>3. /\ Earnings \in [Job -> Int] /\ Fees \in [Job -> Int]
      /\ \A j \in Job : Earnings[j] = 0 /\ Fees[j] = 0
  <2>1. WorkerEarn(0) = 0 /\ FeeOf(0) = 0
    BY ShareTypes
  <2> QED BY <1>1, <2>1 DEF Earnings, Fees
<1>4. Total(earned) = 0
  BY <1>2, ProviderFinite, TotalZero
<1>5. Total(Earnings) = 0 /\ Total(Fees) = 0
  BY <1>3, JobStoreAssumption, TotalZero
<1> QED BY <1>1, <1>2, <1>4, <1>5 DEF PaidInv

LEMMA PaidStep ==
    ASSUME TypeOK, TypeOK', PaidInv, StoreMove
    PROVE  PaidInv'
<1>1. /\ earned \in [Provider -> Int] /\ lifetimeRewards \in Int
      /\ \A j \in Job : row[j].charge \in Nat /\ row'[j].charge \in Nat /\ row[j].net \in Int
      /\ IsFiniteSet(Job)
  BY JobStoreAssumption DEF TypeOK, Row
<1>2. Earnings \in [Job -> Int] /\ Fees \in [Job -> Int]
  BY <1>1, ShareTypes DEF Earnings, Fees
<1>3. \A j \in Job : row'[j].charge <= -row'[j].net
  BY DEF StoreMove, PaidInv
<1>4. CASE NoPayOut /\ \A j \in Job : row'[j].charge = row[j].charge
  <2>1. Earnings' = Earnings /\ Fees' = Fees
    BY <1>4 DEF Earnings, Fees
  <2>2. Total(Earnings)' = Total(Earnings) /\ Total(Fees)' = Total(Fees)
        /\ Total(earned)' = Total(earned)
    BY <1>4, <2>1 DEF NoPayOut
  <2> QED BY <1>3, <1>4, <2>2 DEF PaidInv, NoPayOut
<1>5. ASSUME NEW j \in Job, NEW p \in Provider, NEW c \in Charges(j), Settles(j, c, p)
      PROVE  PaidInv'
  <2>1. c \in Nat /\ WorkerEarn(c) \in Nat /\ FeeOf(c) \in Nat
    BY ChargesType, ShareTypes
  <2>2. Earnings[j] = 0 /\ Fees[j] = 0
    BY <1>5, ShareTypes DEF Settles, Earnings, Fees
  <2>3. Earnings' = [Earnings EXCEPT ![j] = WorkerEarn(c)]
    BY <1>5 DEF Settles, Earnings
  <2>4. Fees' = [Fees EXCEPT ![j] = FeeOf(c)]
    BY <1>5 DEF Settles, Fees
  <2>5. /\ earned' = [earned EXCEPT ![p] = earned[p] + WorkerEarn(c)]
        /\ lifetimeRewards' = lifetimeRewards + FeeOf(c)
    BY <1>5 DEF Settles, PayOut, FeeOf
  <2>6. Total([Earnings EXCEPT ![j] = WorkerEarn(c)])
           = Total(Earnings) - Earnings[j] + WorkerEarn(c)
    <3>1. WorkerEarn(c) \in Int
      BY <2>1
    <3> QED BY <1>1, <1>2, <3>1, TotalUpdate
  <2>7. Total([Fees EXCEPT ![j] = FeeOf(c)]) = Total(Fees) - Fees[j] + FeeOf(c)
    <3>1. FeeOf(c) \in Int
      BY <2>1
    <3> QED BY <1>1, <1>2, <3>1, TotalUpdate
  <2>8. Total([earned EXCEPT ![p] = earned[p] + WorkerEarn(c)])
           = Total(earned) - earned[p] + (earned[p] + WorkerEarn(c))
    <3>1. earned[p] + WorkerEarn(c) \in Int
      BY <1>1, <2>1
    <3> QED BY <1>1, <3>1, ProviderFinite, TotalUpdate
  <2>9. Total(Earnings) \in Int /\ Total(Fees) \in Int /\ Total(earned) \in Int /\ earned[p] \in Int
    BY <1>1, <1>2, ProviderFinite, TotalType
  <2>10. Total(Earnings') = Total(Earnings) + WorkerEarn(c)
    BY <2>1, <2>2, <2>3, <2>6, <2>9
  <2>11. Total(Fees') = Total(Fees) + FeeOf(c)
    BY <2>1, <2>2, <2>4, <2>7, <2>9
  <2>12. Total(earned') = Total(earned) + WorkerEarn(c)
    BY <2>1, <2>5, <2>8, <2>9
  <2> QED BY <1>3, <2>5, <2>10, <2>11, <2>12 DEF PaidInv
<1> QED BY <1>4, <1>5 DEF StoreMove

\* Serving jobs mints no credits: what providers and stakers have been paid never
\* exceeds what callers paid for finished jobs plus what is still reserved.
THEOREM ServingMintsNothing == Spec => []Solvency
<1>1. ASSUME TypeOK, PaidInv PROVE Solvency
  <2> DEFINE nets == [j \in Job |-> row[j].net]
             owed == [j \in Job |-> -row[j].net]
             paid == [j \in Job |-> Earnings[j] + Fees[j]]
  <2>1. /\ IsFiniteSet(Job)
        /\ \A j \in Job : row[j].charge \in Nat /\ row[j].net \in Int
    BY <1>1, JobStoreAssumption DEF TypeOK, Row
  <2>2. /\ Earnings \in [Job -> Int] /\ Fees \in [Job -> Int]
        /\ \A j \in Job : Earnings[j] + Fees[j] <= row[j].charge
    BY <2>1, ShareTypes DEF Earnings, Fees
  <2>3. /\ nets \in [Job -> Int] /\ owed \in [Job -> Int] /\ paid \in [Job -> Int]
        /\ \A j \in Job : owed[j] = -nets[j] /\ paid[j] <= owed[j]
    BY <1>1, <2>1, <2>2 DEF PaidInv
  <2>4. Total(paid) = Total(Earnings) + Total(Fees)
    BY <2>1, <2>2, TotalTogether
  <2>5. Total(owed) = -Total(nets) /\ Total(paid) <= Total(owed)
    <3> HIDE DEF nets, owed, paid
    <3>1. Total(owed) = -Total(nets)
      BY <2>1, <2>3, TotalMinus
    <3>2. Total(paid) <= Total(owed)
      BY <2>1, <2>3, TotalMonotone
    <3> QED BY <3>1, <3>2
  <2>6. Total(earned) + lifetimeRewards = Total(paid)
    BY <1>1, <2>4 DEF PaidInv
  <2>7. Total(earned) + lifetimeRewards <= -Total(nets)
    BY <2>5, <2>6
  <2> QED BY <2>7 DEF Solvency
<1>2. Inv /\ NetInv /\ PaidInv /\ [Next]_vars => Inv' /\ NetInv' /\ PaidInv'
  <2> SUFFICES ASSUME Inv, NetInv, PaidInv, [Next]_vars PROVE Inv' /\ NetInv' /\ PaidInv'
    OBVIOUS
  <2>1. Inv' /\ NetInv'
    BY InvStep, NetStep
  <2> QED BY <2>1, BooksStep, PaidStep DEF Inv
<1>3. Inv => TypeOK
  BY DEF Inv
<1> QED BY InvInit, NetInit, PaidInit, <1>1, <1>2, <1>3, PTL DEF Spec

-----------------------------------------------------------------------------
JobsOf(u) == {i \in Job : JobUser[i] = u}
NetsOf(u) == [j \in JobsOf(u) |-> row[j].net]

LEMMA BalanceMove ==
    ASSUME TypeOK, TypeOK', NEW k \in Job,
           \/ \A j \in Job : row'[j].net >= row[j].net
           \/ \E j \in Job : Takes(j),
           Balance(JobUser[k]) >= 0
    PROVE  Balance(JobUser[k])' >= 0
<1> DEFINE u == JobUser[k]
           f == NetsOf(u)
           g == [j \in JobsOf(u) |-> row'[j].net]
<1>1. /\ IsFiniteSet(JobsOf(u)) /\ JobsOf(u) \subseteq Job /\ Deposited[u] \in Nat
      /\ \A j \in Job : row[j].net \in Int /\ row'[j].net \in Int
  BY JobStoreAssumption, FS_Subset DEF JobsOf, TypeOK, Row
<1>2. f \in [JobsOf(u) -> Int] /\ g \in [JobsOf(u) -> Int]
  BY <1>1 DEF NetsOf
<1>3. Balance(u) = Deposited[u] + Total(f) /\ Balance(u)' = Deposited[u] + Total(g)
  BY DEF Balance, NetsOf, JobsOf
<1>4. Total(f) \in Int /\ Total(g) \in Int
  BY <1>1, <1>2, TotalType
<1>5. CASE \A j \in JobsOf(u) : f[j] <= g[j]
  <2>1. Total(f) <= Total(g)
    <3> HIDE DEF f, g
    <3> QED BY <1>1, <1>2, <1>5, TotalMonotone
  <2> QED BY <1>1, <1>3, <1>4, <2>1
<1>6. ASSUME NEW j \in JobsOf(u), Takes(j) PROVE Balance(u)' >= 0
  <2> DEFINE r == ReserveFor(j)
             h == [f EXCEPT ![j] = f[j] - r]
  <2>1. r \in Nat /\ f[j] \in Int /\ f[j] - r \in Int
    BY <1>1, <1>2, ReserveForType
  <2>2. h \in [JobsOf(u) -> Int] /\ \A i \in JobsOf(u) : h[i] <= g[i]
    <3>1. g[j] >= f[j] - r /\ \A i \in JobsOf(u) \ {j} : g[i] = f[i]
      BY <1>1, <1>6 DEF Takes, NetsOf
    <3> HIDE DEF f, g, r
    <3> QED BY <1>2, <2>1, <3>1
  <2>3. Total(h) = Total(f) - f[j] + (f[j] - r)
    <3> HIDE DEF f, r
    <3> QED BY <1>1, <1>2, <2>1, TotalUpdate
  <2>4. Total(h) <= Total(g)
    <3> HIDE DEF g, h
    <3> QED BY <1>1, <1>2, <2>2, TotalMonotone
  <2>5. Balance(u) >= r
    BY <1>6 DEF Takes, CanReserve, JobsOf
  <2> HIDE DEF f, g, h, r
  <2> QED BY <1>1, <1>3, <1>4, <2>1, <2>3, <2>4, <2>5
<1>7. CASE \A j \in Job : row'[j].net >= row[j].net
  <2>1. \A j \in JobsOf(u) : f[j] <= g[j]
    BY <1>1, <1>7 DEF NetsOf
  <2> QED BY <1>5, <2>1
<1>8. ASSUME NEW j \in Job \ JobsOf(u), Takes(j) PROVE Balance(u)' >= 0
  <2>1. \A i \in JobsOf(u) : f[i] <= g[i]
    BY <1>1, <1>8 DEF NetsOf, Takes
  <2> QED BY <1>5, <2>1
<1> QED BY <1>6, <1>7, <1>8

\* As long as no worker reports more tokens for a chat job than were reserved for
\* its prompt and answer, no account is ever overdrawn.
THEOREM NobodyOverdraws ==
    ASSUME \A j \in Job, t \in Usage :
              JobKind[j] = "chat" => t <= PromptTokens[j] + MaxTokens[j]
    PROVE  Spec => []NoOverdraft
<1>1. \A j \in Job : \A c \in Charges(j) : c <= ReserveFor(j)
  <2> SUFFICES ASSUME NEW j \in Job, NEW t \in Usage PROVE ChargeFor(j, t) <= ReserveFor(j)
    BY ReserveForType DEF Charges
  <2>1. CASE JobKind[j] = "chat"
    <3>1. t \in Nat /\ PromptTokens[j] \in Nat /\ MaxTokens[j] \in Nat
      BY JobAssumption
    <3>2. SettleCost(JobModel[j], t) <= ReserveEstimate(JobModel[j], PromptTokens[j], MaxTokens[j])
      BY <2>1, <3>1, ReserveCoversSettle
    <3> QED BY <2>1, <3>2 DEF ChargeFor, ReserveFor
  <2>2. CASE JobKind[j] # "chat"
    BY <2>2, ReserveForType DEF ChargeFor
  <2> QED BY <2>1, <2>2
<1>2. Init => NoOverdraft
  <2> SUFFICES ASSUME Init, NEW k \in Job PROVE Balance(JobUser[k]) >= 0
    BY DEF NoOverdraft
  <2> DEFINE f == NetsOf(JobUser[k])
  <2>1. /\ IsFiniteSet(JobsOf(JobUser[k])) /\ Deposited[JobUser[k]] \in Nat
        /\ f \in [JobsOf(JobUser[k]) -> Int] /\ \A j \in JobsOf(JobUser[k]) : f[j] = 0
    BY JobStoreAssumption, FS_Subset DEF Init, NewRow, NetsOf, JobsOf
  <2>2. Balance(JobUser[k]) = Deposited[JobUser[k]] + Total(f)
    BY DEF Balance, NetsOf, JobsOf
  <2>3. Total(f) = 0
    <3> HIDE DEF f
    <3> QED BY <2>1, TotalZero
  <2> QED BY <2>1, <2>2, <2>3
<1>3. ASSUME Inv, NetInv, Inv', NoOverdraft, [Next]_vars PROVE NoOverdraft'
  <2>1. TypeOK /\ TypeOK' /\ StoreMove
    BY <1>3, BooksStep DEF Inv
  <2>2. (\A j \in Job : row'[j].net >= row[j].net) \/ (\E j \in Job : Takes(j))
    <3>1. ASSUME NEW j \in Job, NEW p \in Provider, NEW c \in Charges(j), Settles(j, c, p),
                 row[j].net = -ReserveFor(j)
          PROVE  \A i \in Job : row'[i].net >= row[i].net
      <4>1. /\ c <= ReserveFor(j) /\ c \in Nat /\ ReserveFor(j) \in Nat
            /\ row'[j].net = -c /\ \A i \in Job \ {j} : row'[i] = row[i]
            /\ \A i \in Job : row[i].net \in Int
        BY <1>1, <2>1, <3>1, ChargesType, ReserveForType DEF Settles, TypeOK, Row
      <4>2. row'[j].net >= row[j].net
        BY <3>1, <4>1
      <4> QED BY <4>1, <4>2
    <3> QED BY <2>1, <3>1 DEF StoreMove, Settles
  <2>3. ASSUME NEW k \in Job PROVE Balance(JobUser[k])' >= 0
    BY <1>3, <2>1, <2>2, BalanceMove DEF NoOverdraft
  <2> QED BY <2>3 DEF NoOverdraft
<1>4. Inv /\ NetInv /\ NoOverdraft /\ [Next]_vars => Inv' /\ NetInv' /\ NoOverdraft'
  BY <1>3, InvStep, NetStep
<1> QED BY InvInit, NetInit, <1>2, <1>4, PTL DEF Spec
=============================================================================
