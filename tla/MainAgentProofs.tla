-------------------------- MODULE MainAgentProofs --------------------------
(* Theorems about MainAgent, for any number of main agents, nodes and requests,   *)
(* any forms, and any limits with InvokeLimit < IdleLimit.                        *)
EXTENDS MainAgent, FiniteSetTheorems, TLAPS

USE DEF timers

\* What a step does to the gate of one agent.
GateMove(s, r) ==
    \/ TurnAway(s, r) \/ TurnAwayInvalid(s, r) \/ Pass(s, r)
    \/ Acquire(s, r) \/ RaiseFlag(s, r)
    \/ \E v \in {"answer", "error"} : Leave(s, r, v)
    \/ Release(s, r) \/ LowerFlag(s, r)

GateStep ==
    \/ UNCHANGED gate
    \/ \E s \in Server, r \in Request : GateMove(s, r)
    \/ \E s \in SubAgent : Crash(s)

-----------------------------------------------------------------------------
(* The gate *)

LEMMA SubAgentIsServer == SubAgent \subseteq Server /\ Main \subseteq Server /\ Main \cap SubAgent = {}
BY ServerAssumption

\* Every step is a move of one gate, a crash, or none of the gates' business.
LEMMA StepsOfGates == ASSUME TypeOK, [Next]_vars PROVE GateStep
<1>0. /\ \A r \in Request : home[r] \in Server
      /\ \A i \in SubAgent : i \in Server
      /\ up \subseteq SubAgent
  BY SubAgentIsServer DEF TypeOK
<1>1. ASSUME NEW r \in Request, NEW s \in Server, GateMove(s, r) PROVE GateStep
  BY <1>1 DEF GateStep
<1>2. ASSUME UNCHANGED gate PROVE GateStep
  BY <1>2 DEF GateStep
<1>3. ASSUME NEW i \in SubAgent, Crash(i) PROVE GateStep
  BY <1>3 DEF GateStep
<1>4. ASSUME NEW r \in Request, NEW v \in {"answer", "error"}, Leave(home[r], r, v) PROVE GateStep
  BY <1>0, <1>1, <1>4 DEF GateMove
<1>5. CASE UNCHANGED vars
  BY <1>5, <1>2 DEF vars
<1>6. CASE Tick
  BY <1>6, <1>2 DEF Tick
<1>7. ASSUME NEW r \in Request, Receive(r) \/ HandlerStep(r) PROVE GateStep
  <2>1. ASSUME NEW why, NodeFailed(r, why) PROVE GateStep
    BY <2>1, <1>2, <1>4 DEF NodeFailed, Return
  <2>2. CASE Receive(r)
    BY <2>2, <1>0, <1>1 DEF Receive, GateMove
  <2>3. CASE AcquireLock(r) \/ Begin(r) \/ ReleaseLock(r) \/ ClearFlag(r)
    BY <2>3, <1>0, <1>1 DEF AcquireLock, Begin, ReleaseLock, ClearFlag, GateMove
  <2>4. CASE SelectRoute(r) \/ MakeDirectChatAnswer(r) \/ GetClusterResources(r) \/ SelectTarget(r) \/ MakeFinalAnswer(r)
    BY <2>4, <1>2, <1>4 DEF SelectRoute, MakeDirectChatAnswer, GetClusterResources, SelectTarget, MakeFinalAnswer, Return
  <2>5. CASE Invoke(r)
    BY <2>5, <2>1, <1>2 DEF Invoke
  <2>6. CASE StartGivenUp(r) \/ StartFailed(r) \/ SubAgentLost(r) \/ SubAgentGivenUp(r)
    BY <2>6, <2>1 DEF StartGivenUp, StartFailed, SubAgentLost, SubAgentGivenUp
  <2>7. CASE Post(r)
    BY <2>7, <2>1, <1>0, <1>1 DEF Post, GateMove
  <2>8. CASE SubAgentReplied(r)
    BY <2>8, <2>1, <1>2 DEF SubAgentReplied
  <2> QED BY <1>7, <2>2, <2>3, <2>4, <2>5, <2>6, <2>7, <2>8 DEF HandlerStep
<1>8. ASSUME NEW i \in SubAgent, SubAgentStep(i) \/ TimerStep(i) PROVE GateStep
  <2>1. CASE CrashSubAgent(i)
    BY <2>1, <1>3 DEF CrashSubAgent
  <2>2. ASSUME NEW r \in Request, RunSubAgent(i, r) PROVE GateStep
    BY <2>2, <1>0, <1>1 DEF RunSubAgent, GateMove
  <2>3. ASSUME NEW r \in Request, StartSubAgent(r, i) \/ StartSubAgentFails(r, i) PROVE GateStep
    BY <2>3, <1>2 DEF Started, StartSubAgent, StartSubAgentFails
  <2>4. CASE TimerStep(i)
    BY <2>4, <1>2, <1>3 DEF TimerStep, ExpireTimer, RemoveContainer, EraseTimer
  <2> QED BY <1>8, <2>1, <2>2, <2>3, <2>4 DEF SubAgentStep
<1> QED BY <1>5, <1>6, <1>7, <1>8 DEF Next

LEMMA GateTypes == ASSUME GateTypeOK, GateStep PROVE GateTypeOK'
<1>1. CASE UNCHANGED gate
  BY <1>1 DEF GateTypeOK, gate
<1>2. ASSUME NEW s \in Server, NEW r \in Request, GateMove(s, r) PROVE GateTypeOK'
  <2>1. ASSUME NEW from, NEW to \in Place, Move(s, r, from, to) PROVE at' \in [Server -> [Request -> Place]]
    BY <2>1 DEF GateTypeOK, Move
  <2>2. ASSUME NEW v \in Answers, reply' = [reply EXCEPT ![s][r] = v]
        PROVE reply' \in [Server -> [Request -> Answers]]
    BY <2>2 DEF GateTypeOK
  <2>3. CASE TurnAway(s, r) \/ TurnAwayInvalid(s, r) \/ Pass(s, r)
    BY <2>1, <2>2, <2>3 DEF GateTypeOK, TurnAway, TurnAwayInvalid, Pass, Place, Open, Answers
  <2>4. CASE Acquire(s, r) \/ RaiseFlag(s, r)
    BY <2>1, <2>4 DEF GateTypeOK, Acquire, RaiseFlag, Place, Open, Inside
  <2>5. ASSUME NEW v \in {"answer", "error"}, Leave(s, r, v) PROVE GateTypeOK'
    BY <2>1, <2>2, <2>5 DEF GateTypeOK, Leave, Place, Open, Inside, Answers
  <2>6. CASE Release(s, r) \/ LowerFlag(s, r)
    BY <2>1, <2>6 DEF GateTypeOK, Release, LowerFlag, Place, Open
  <2> QED BY <1>2, <2>3, <2>4, <2>5, <2>6 DEF GateMove
<1>3. ASSUME NEW s \in SubAgent, Crash(s) PROVE GateTypeOK'
  BY <1>3, SubAgentIsServer DEF GateTypeOK, Crash, Place, Open, Inside
<1> QED BY <1>1, <1>2, <1>3 DEF GateStep

-----------------------------------------------------------------------------
(* A request at its main agent *)

Here(r) == at[home[r]][r]

StaysHere(r) == Here(r)' = Here(r) /\ reply'[home[r]][r] = reply[home[r]][r]

MovesHere(r, from, to) ==
    Here(r) = from /\ Here(r)' = to /\ reply'[home[r]][r] = reply[home[r]][r] /\ pc'[r] = pc[r]

\* What any step does to a request at its main agent.
HomeMove(r) ==
    \/ StaysHere(r) /\ (pc'[r] = "idle" <=> pc[r] = "idle")
    \/ MovesHere(r, "away", "passed") /\ Valid(form[r])
    \/ Here(r) = "away" /\ Here(r)' = "gone" /\ pc'[r] = pc[r]
       /\ reply'[home[r]][r] \in {"refused", "invalid"}
    \/ MovesHere(r, "passed", "locked") /\ lock[home[r]] = Nobody /\ lock'[home[r]] = r
    \/ Here(r) = "locked" /\ Here(r)' = "busy" /\ pc'[r] = "route"
       /\ reply'[home[r]][r] = reply[home[r]][r]
    \/ Here(r) = "busy" /\ Here(r)' = "leaving" /\ pc'[r] = "idle"
       /\ reply'[home[r]][r] \in {"answer", "error"}
    \/ MovesHere(r, "leaving", "released") /\ lock'[home[r]] = Nobody
    \/ MovesHere(r, "released", "gone")

LEMMA ConstantsKept == ASSUME [Next]_vars PROVE home' = home /\ form' = form
<1>1. ASSUME NEW r \in Request, Receive(r) \/ HandlerStep(r) PROVE home' = home /\ form' = form
  BY <1>1 DEF HandlerStep, Receive, AcquireLock, Begin, ReleaseLock, ClearFlag, SelectRoute,
       MakeDirectChatAnswer, GetClusterResources, SelectTarget, Invoke, StartGivenUp, StartFailed,
       Post, SubAgentReplied, SubAgentLost, SubAgentGivenUp, MakeFinalAnswer, NodeFailed
<1>2. ASSUME NEW i \in SubAgent, SubAgentStep(i) \/ TimerStep(i) PROVE home' = home /\ form' = form
  BY <1>2 DEF SubAgentStep, TimerStep, CrashSubAgent, RunSubAgent, Started, StartSubAgent, StartSubAgentFails,
       ExpireTimer, RemoveContainer, EraseTimer
<1> QED BY <1>1, <1>2 DEF Next, Tick, vars

\* The gate of a sub-agent is not that of a main agent.
LEMMA ElsewhereIsNotHere ==
    ASSUME TypeOK, home' = home, NEW i \in SubAgent, NEW q \in Request,
           \/ \E r \in Request : GateMove(i, r)
           \/ Crash(i)
    PROVE  StaysHere(q)
<1>1. home[q] # i /\ home[q] \in Server
  BY SubAgentIsServer DEF TypeOK
<1> QED BY <1>1 DEF TypeOK, GateTypeOK, StaysHere, Here, GateMove, Crash, TurnAway, TurnAwayInvalid,
            Pass, Acquire, RaiseFlag, Leave, Release, LowerFlag, Move

LEMMA HomeMoves == ASSUME TypeOK, [Next]_vars, NEW q \in Request PROVE HomeMove(q)
<1>0. /\ home' = home /\ form' = form /\ home \in [Request -> Main] /\ Main \subseteq Server
      /\ pc \in [Request -> PC] /\ up \subseteq SubAgent /\ GateTypeOK
  BY ConstantsKept, SubAgentIsServer DEF TypeOK
<1>1. CASE UNCHANGED <<gate, pc>>
  BY <1>0, <1>1 DEF HomeMove, StaysHere, Here, gate
<1>2. ASSUME NEW r \in Request, Receive(r) \/ HandlerStep(r) PROVE HomeMove(q)
  <2>1. ASSUME NEW v \in {"answer", "error"}, Return(r, v) PROVE HomeMove(q)
    BY <2>1, <1>0 DEF Return, Leave, Move, HomeMove, StaysHere, Here, GateTypeOK
  <2>2. ASSUME NEW l \in PC \ {"idle"}, UNCHANGED gate, Goto(r, l), pc[r] # "idle" PROVE HomeMove(q)
    BY <2>2, <1>0 DEF Goto, gate, HomeMove, StaysHere, Here
  <2>3. ASSUME NEW why, NodeFailed(r, why), pc[r] # "idle" PROVE HomeMove(q)
    BY <2>3, <2>1, <2>2 DEF NodeFailed, PC
  <2>a. home[r] \in Server
    BY <1>0
  <2>b. CASE r # q /\ GateMove(home[r], r) /\ pc' = pc
    <3>1. \E l : at' = [at EXCEPT ![home[r]][r] = l]
      BY <2>b DEF GateMove, TurnAway, TurnAwayInvalid, Pass, Acquire, Leave, RaiseFlag, Release,
           LowerFlag, Move
    <3>2. reply' = reply \/ \E v : reply' = [reply EXCEPT ![home[r]][r] = v]
      BY <2>b DEF GateMove, TurnAway, TurnAwayInvalid, Pass, Acquire, Leave, RaiseFlag, Release, LowerFlag
    <3>3. StaysHere(q)
      BY <2>b, <3>1, <3>2, <1>0, <2>a DEF StaysHere, Here, GateTypeOK
    <3> QED BY <2>b, <3>3 DEF HomeMove
  <2>4. CASE Receive(r)
    <3>1. CASE r = q
      BY <2>4, <3>1, <2>a, <1>0 DEF Receive, TurnAway, TurnAwayInvalid, Pass, Move, HomeMove, MovesHere,
           Here, GateTypeOK
    <3> QED BY <2>4, <3>1, <2>b DEF Receive, GateMove
  <2>5. CASE AcquireLock(r) \/ ReleaseLock(r) \/ ClearFlag(r)
    <3>1. CASE r = q
      <4>1. CASE AcquireLock(r)
        BY <3>1, <4>1, <2>a, <1>0 DEF AcquireLock, Acquire, Move, HomeMove, MovesHere, Here, GateTypeOK
      <4>2. CASE ReleaseLock(r)
        BY <3>1, <4>2, <2>a, <1>0 DEF ReleaseLock, Release, Move, HomeMove, MovesHere, Here, GateTypeOK
      <4>3. CASE ClearFlag(r)
        BY <3>1, <4>3, <2>a, <1>0 DEF ClearFlag, LowerFlag, Move, HomeMove, MovesHere, Here, GateTypeOK
      <4> QED BY <2>5, <4>1, <4>2, <4>3
    <3> QED BY <2>5, <3>1, <2>b DEF AcquireLock, ReleaseLock, ClearFlag, GateMove
  <2>6. CASE Begin(r)
    BY <2>6, <1>0 DEF Begin, RaiseFlag, Move, HomeMove, StaysHere, Here, GateTypeOK
  <2>7. CASE SelectRoute(r) \/ MakeDirectChatAnswer(r) \/ GetClusterResources(r) \/ SelectTarget(r) \/ MakeFinalAnswer(r)
    BY <2>7, <2>1, <2>2 DEF SelectRoute, MakeDirectChatAnswer, GetClusterResources, SelectTarget, MakeFinalAnswer, PC
  <2>8. CASE Invoke(r)
    BY <2>8, <2>2, <2>3 DEF Invoke, PC
  <2>9. CASE StartGivenUp(r) \/ StartFailed(r) \/ SubAgentLost(r) \/ SubAgentGivenUp(r)
    BY <2>9, <2>3 DEF StartGivenUp, StartFailed, SubAgentLost, SubAgentGivenUp
  <2>10. CASE Post(r)
    <3>1. CASE Invoked(r) \in up /\ GateMove(Invoked(r), r) /\ Goto(r, "await")
      BY <2>10, <3>1, <1>0, ElsewhereIsNotHere DEF Post, Goto, HomeMove
    <3> QED BY <2>10, <3>1, <2>3 DEF Post, GateMove
  <2>11. CASE SubAgentReplied(r)
    BY <2>11, <2>2, <2>3 DEF SubAgentReplied, PC
  <2> QED BY <1>2, <2>4, <2>5, <2>6, <2>7, <2>8, <2>9, <2>10, <2>11 DEF HandlerStep
<1>3. ASSUME NEW i \in SubAgent, SubAgentStep(i) \/ TimerStep(i) PROVE HomeMove(q)
  <2>1. ASSUME Crash(i), pc' = pc PROVE HomeMove(q)
    BY <2>1, <1>0, ElsewhereIsNotHere DEF HomeMove
  <2>2. ASSUME NEW r \in Request, RunSubAgent(i, r) PROVE HomeMove(q)
    <3>1. GateMove(i, r) /\ pc' = pc
      BY <2>2 DEF RunSubAgent, GateMove
    <3> QED BY <3>1, <1>0, ElsewhereIsNotHere DEF HomeMove
  <2>3. ASSUME NEW r \in Request, StartSubAgent(r, i) \/ StartSubAgentFails(r, i) PROVE HomeMove(q)
    BY <2>3, <1>0 DEF Started, StartSubAgent, StartSubAgentFails, Goto, Awaits, gate, HomeMove, StaysHere, Here
  <2>4. CASE TimerStep(i)
    BY <2>4, <2>1, <1>1 DEF TimerStep, ExpireTimer, RemoveContainer, EraseTimer
  <2> QED BY <1>3, <2>1, <2>2, <2>3, <2>4 DEF SubAgentStep, CrashSubAgent
<1> QED BY <1>1, <1>2, <1>3 DEF Next, Tick, vars

\* A request is inside the try block while it is busy, and only a valid one gets there.
AtHome ==
    \A r \in Request :
        /\ pc[r] # "idle" <=> Here(r) = "busy"
        /\ Here(r) \in Open => Valid(form[r])
        /\ Here(r) \in {"leaving", "released"} => reply[home[r]][r] \in {"answer", "error"}
        /\ Here(r) \in {"away", "passed", "locked", "busy"} => reply[home[r]][r] = "none"

LEMMA InitAtHome == Init => AtHome
BY SubAgentIsServer DEF Init, GateInit, AtHome, Here, Open, Inside

LEMMA StepAtHome == ASSUME TypeOK, AtHome, [Next]_vars PROVE AtHome'
<1>1. form' = form /\ home' = home
  BY ConstantsKept
<1> SUFFICES ASSUME NEW r \in Request, HomeMove(r)
             PROVE  /\ pc'[r] # "idle" <=> Here(r)' = "busy"
                    /\ Here(r)' \in Open => Valid(form[r])
                    /\ Here(r)' \in {"leaving", "released"} => reply'[home[r]][r] \in {"answer", "error"}
                    /\ Here(r)' \in {"away", "passed", "locked", "busy"} => reply'[home[r]][r] = "none"
  BY <1>1, HomeMoves DEF AtHome
<1> QED BY DEF AtHome, HomeMove, StaysHere, MovesHere, Open, Inside

-----------------------------------------------------------------------------
(* Types *)

\* Nobody waits before a call is made, or after it.
WaitsForCall == \A r \in Request : pc[r] \notin {"starting", "await"} => wait[r] = 0

Types == TypeOK /\ WaitsForCall

LEMMA LimitsAreNat ==
    StartLimit \in Nat /\ InvokeLimit \in Nat /\ IdleLimit \in Nat /\ StartLimit > 0 /\ InvokeLimit > 0
BY LimitAssumption

LEMMA InitTypes == Init => Types
BY LimitsAreNat DEF Init, GateInit, Types, TypeOK, GateTypeOK, WaitsForCall, PC, TimerState, Place, Open, Answers

\* The parts of the types a handler's step can disturb.
LocalTypes ==
    /\ pc \in [Request -> PC]
    /\ route \in [Request -> Agent \union {"none", "chat"}]
    /\ resources \in [Request -> SUBSET Node]
    /\ target \in [Request -> Node \union {NoNode}]
    /\ failures \in [Request -> [Node -> Failure \union {"none"}]]
    /\ wait \in [Request -> Nat]
    /\ \A r \in Request : /\ pc[r] = "starting" => wait[r] <= StartLimit
                          /\ pc[r] = "await" => wait[r] <= InvokeLimit

LEMMA TypeOfRoutes ==
    ASSUME Types, AtHome, NEW r \in Request, pc[r] = "route"
    PROVE  Routes(form[r]) \subseteq Agent \union {"none", "chat"}
<1>1. Valid(form[r]) /\ form[r] \in Form
  BY DEF AtHome, Types, TypeOK, Open, Inside
<1>2. form[r].forced \in Agent \union {"none"}
  BY <1>1, FormAssumption DEF Valid
<1> QED BY <1>2 DEF Routes, RuleRoute, ModelRoutes, Agent, ImageAgent

\* A step that gives the local variables values of their types, and moves nobody but r.
LocalStep(r) ==
    /\ pc' \in [Request -> PC] /\ \A q \in Request \ {r} : pc'[q] = pc[q]
    /\ route' \in [Request -> Agent \union {"none", "chat"}]
    /\ resources' \in [Request -> SUBSET Node]
    /\ target' \in [Request -> Node \union {NoNode}]
    /\ failures' \in [Request -> [Node -> Failure \union {"none"}]]

LEMMA LocalStepTypes ==
    ASSUME Types, NEW r \in Request, LocalStep(r),
           wait' = [wait EXCEPT ![r] = 0] \/ (UNCHANGED wait /\ wait[r] = 0)
    PROVE  LocalTypes' /\ WaitsForCall'
<1>1. /\ StartLimit \in Nat /\ InvokeLimit \in Nat
      /\ wait' \in [Request -> Nat] /\ wait'[r] = 0
      /\ \A q \in Request \ {r} : wait'[q] = wait[q]
  BY LimitsAreNat DEF Types, TypeOK
<1>2. ASSUME NEW q \in Request
      PROVE  /\ pc'[q] = "starting" => wait'[q] <= StartLimit
             /\ pc'[q] = "await" => wait'[q] <= InvokeLimit
             /\ pc'[q] \notin {"starting", "await"} => wait'[q] = 0
  <2>1. CASE q = r
    BY <2>1, <1>1
  <2>2. CASE q # r
    BY <2>2, <1>1 DEF LocalStep, Types, TypeOK, WaitsForCall
  <2> QED BY <2>1, <2>2
<1> QED BY <1>1, <1>2 DEF LocalTypes, WaitsForCall, LocalStep

LEMMA HandlerTypes ==
    ASSUME Types, AtHome, NEW r \in Request, Receive(r) \/ HandlerStep(r)
    PROVE  LocalTypes' /\ WaitsForCall'
<1> DEFINE Calm == pc[r] \notin {"starting", "await"}
<1>0. /\ NoNode \notin Node /\ Candidates(r) \subseteq Node
      /\ Calm => wait[r] = 0
      /\ pc[r] \in PC /\ route[r] \in Agent \union {"none", "chat"}
      /\ resources[r] \in SUBSET Node /\ target[r] \in Node \union {NoNode}
      /\ failures[r] \in [Node -> Failure \union {"none"}]
  BY NoNodeAssumption DEF Types, TypeOK, WaitsForCall, Candidates
<1>1. ASSUME UNCHANGED <<pc, local, wait>> PROVE LocalTypes' /\ WaitsForCall'
  BY <1>1 DEF Types, TypeOK, LocalTypes, WaitsForCall, local
<1>2. ASSUME NEW l \in PC, Goto(r, l), UNCHANGED local PROVE LocalStep(r)
  BY <1>0, <1>2 DEF LocalStep, Goto, local, Types, TypeOK
<1>3. ASSUME NEW v, Return(r, v), target' = target, failures' = failures PROVE LocalStep(r)
  BY <1>0, <1>3 DEF LocalStep, Return, Types, TypeOK, PC
<1>4. ASSUME NEW why \in Failure, NodeFailed(r, why) PROVE LocalTypes' /\ WaitsForCall'
  <2>1. [failures[r] EXCEPT ![target[r]] = why] \in [Node -> Failure \union {"none"}]
    BY <1>0
  <2>2. failures' = [failures EXCEPT ![r] = [failures[r] EXCEPT ![target[r]] = why]]
    BY <1>4 DEF NodeFailed, Types, TypeOK
  <2>3. LocalStep(r)
    <3>1. CASE \E v \in {"error"} : Return(r, v)
      BY <3>1, <2>1, <2>2, <1>0, <1>4 DEF LocalStep, Return, NodeFailed, PC, Types, TypeOK
    <3>2. CASE Goto(r, "select") /\ UNCHANGED <<gate, route, resources>>
      BY <3>2, <2>1, <2>2, <1>0, <1>4 DEF LocalStep, Goto, NodeFailed, PC, Types, TypeOK
    <3> QED BY <3>1, <3>2, <1>4 DEF NodeFailed
  <2> QED BY <1>4, <2>3, LocalStepTypes DEF NodeFailed
<1>5. CASE Receive(r) \/ AcquireLock(r) \/ ReleaseLock(r) \/ ClearFlag(r)
  BY <1>5, <1>1 DEF Receive, AcquireLock, ReleaseLock, ClearFlag
<1>6. CASE Begin(r)
  <2>1. pc[r] = "idle"
    BY <1>6 DEF Begin, RaiseFlag, Move, AtHome, Here
  <2> QED BY <1>6, <2>1, <1>0, <1>2, LocalStepTypes DEF Begin, Goto, PC, local
<1>7. CASE SelectRoute(r)
  <2>2. Routes(form[r]) \subseteq Agent \union {"none", "chat"}
    BY <1>7, TypeOfRoutes DEF SelectRoute
  <2>3. LocalStep(r)
    <3>1. CASE Return(r, "error")
      BY <1>7, <3>1, <1>3 DEF SelectRoute
    <3>2. ASSUME NEW w \in Routes(form[r]), route' = [route EXCEPT ![r] = w],
                 Goto(r, IF w = "chat" THEN "chat" ELSE "resources"), UNCHANGED <<resources, target, failures>>
          PROVE  LocalStep(r)
      BY <3>2, <2>2, <1>0 DEF LocalStep, Goto, Types, TypeOK, PC
    <3> QED BY <1>7, <3>1, <3>2 DEF SelectRoute
  <2> QED BY <1>7, <2>3, <1>0, LocalStepTypes DEF SelectRoute
<1>8. CASE MakeDirectChatAnswer(r) \/ MakeFinalAnswer(r)
  BY <1>8, <1>0, <1>3, LocalStepTypes DEF MakeDirectChatAnswer, MakeFinalAnswer
<1>9. CASE GetClusterResources(r)
  <2>1. ASSUME NEW N \in SUBSET Node, resources' = [resources EXCEPT ![r] = N], Goto(r, "select"),
               UNCHANGED <<route, target, failures>>
        PROVE  LocalStep(r)
    BY <2>1, <1>0 DEF LocalStep, Goto, Types, TypeOK, PC
  <2> QED BY <1>9, <2>1, <1>0, <1>3, LocalStepTypes DEF GetClusterResources
<1>10. CASE SelectTarget(r)
  <2>1. ASSUME NEW n \in Candidates(r), target' = [target EXCEPT ![r] = n], Goto(r, "invoke"),
               UNCHANGED <<route, resources, failures>>
        PROVE  LocalStep(r)
    BY <2>1, <1>0 DEF LocalStep, Goto, Types, TypeOK, PC
  <2> QED BY <1>10, <2>1, <1>0, <1>3, LocalStepTypes DEF SelectTarget
<1>11. CASE Invoke(r)
  <2>1. CASE Goto(r, "starting") /\ UNCHANGED <<local, wait>>
    BY <1>11, <2>1, <1>0, <1>2, LocalStepTypes DEF Invoke, PC
  <2> QED BY <1>11, <2>1, <1>4 DEF Invoke, Failure
<1>12. CASE StartGivenUp(r) \/ StartFailed(r) \/ SubAgentLost(r) \/ SubAgentGivenUp(r)
  BY <1>12, <1>4 DEF StartGivenUp, StartFailed, SubAgentLost, SubAgentGivenUp, Failure
<1>13. CASE Post(r)
  <2>1. CASE Goto(r, "await") /\ UNCHANGED <<local, wait>>
    BY <1>13, <2>1, <1>0, <1>2, LocalStepTypes DEF Post, PC
  <2> QED BY <1>13, <2>1, <1>4 DEF Post, Failure
<1>14. CASE SubAgentReplied(r)
  <2>1. CASE Goto(r, "final") /\ wait' = [wait EXCEPT ![r] = 0] /\ UNCHANGED local
    BY <2>1, <1>2, LocalStepTypes DEF PC
  <2> QED BY <1>14, <2>1, <1>4 DEF SubAgentReplied, Failure
<1> QED BY <1>5, <1>6, <1>7, <1>8, <1>9, <1>10, <1>11, <1>12, <1>13, <1>14 DEF HandlerStep

-----------------------------------------------------------------------------
(* The sub-agent a request is sent to *)

KeepsLocal(r) ==
    /\ route'[r] = route[r] /\ target'[r] = target[r] /\ failures'[r] = failures[r]
    /\ \/ pc'[r] = pc[r]
       \/ pc[r] = "starting" /\ pc'[r] \in {"post", "notStarted"}

\* Only a request's own handler changes its local variables; the gateway ends its start.
LEMMA LocalMoves ==
    ASSUME Types, [Next]_vars, NEW q \in Request PROVE HandlerStep(q) \/ KeepsLocal(q)
<1>0. /\ pc \in [Request -> PC] /\ route \in [Request -> Agent \union {"none", "chat"}]
      /\ target \in [Request -> Node \union {NoNode}]
      /\ failures \in [Request -> [Node -> Failure \union {"none"}]]
  BY DEF Types, TypeOK
<1>1. ASSUME UNCHANGED <<pc, local>> PROVE KeepsLocal(q)
  BY <1>1 DEF KeepsLocal, local
<1>2. ASSUME NEW r \in Request, r # q, HandlerStep(r) PROVE KeepsLocal(q)
  <2>1. ASSUME NEW v, Return(r, v), failures' = failures, target'[q] = target[q] PROVE KeepsLocal(q)
    BY <2>1, <1>0, <1>2 DEF Return, KeepsLocal
  <2>2. ASSUME NEW l, Goto(r, l), UNCHANGED <<route, target, failures>> PROVE KeepsLocal(q)
    BY <2>2, <1>0, <1>2 DEF Goto, KeepsLocal
  <2>3. ASSUME NEW why, NodeFailed(r, why) PROVE KeepsLocal(q)
    BY <2>3, <1>0, <1>2 DEF NodeFailed, Return, Goto, KeepsLocal
  <2>4. CASE AcquireLock(r) \/ ReleaseLock(r) \/ ClearFlag(r)
    BY <2>4, <1>1 DEF AcquireLock, ReleaseLock, ClearFlag
  <2>5. CASE Begin(r)
    BY <2>5, <1>0, <1>2 DEF Begin, KeepsLocal, local
  <2>6. CASE SelectRoute(r)
    BY <2>6, <1>0, <1>2 DEF SelectRoute, Return, Goto, KeepsLocal
  <2>7. CASE MakeDirectChatAnswer(r) \/ MakeFinalAnswer(r) \/ GetClusterResources(r)
    BY <2>7, <2>1, <2>2 DEF MakeDirectChatAnswer, MakeFinalAnswer, GetClusterResources
  <2>8. CASE SelectTarget(r)
    BY <2>8, <1>0, <1>2 DEF SelectTarget, Return, Goto, KeepsLocal
  <2>9. CASE Invoke(r) \/ Post(r)
    BY <2>9, <2>2, <2>3 DEF Invoke, Post, local
  <2>10. CASE StartGivenUp(r) \/ StartFailed(r) \/ SubAgentLost(r) \/ SubAgentGivenUp(r)
    BY <2>10, <2>3 DEF StartGivenUp, StartFailed, SubAgentLost, SubAgentGivenUp
  <2>11. CASE SubAgentReplied(r)
    BY <2>11, <2>2, <2>3 DEF SubAgentReplied, local
  <2> QED BY <1>2, <2>4, <2>5, <2>6, <2>7, <2>8, <2>9, <2>10, <2>11 DEF HandlerStep
<1>3. ASSUME NEW r \in Request, Receive(r) PROVE KeepsLocal(q)
  BY <1>3, <1>1 DEF Receive
<1>4. ASSUME NEW i \in SubAgent, SubAgentStep(i) \/ TimerStep(i) PROVE KeepsLocal(q)
  <2>1. ASSUME NEW r \in Request, StartSubAgent(r, i) \/ StartSubAgentFails(r, i) PROVE KeepsLocal(q)
    BY <2>1, <1>0 DEF Started, StartSubAgent, StartSubAgentFails, Goto, Awaits, local, KeepsLocal
  <2> QED BY <1>4, <2>1, <1>1 DEF SubAgentStep, TimerStep, CrashSubAgent, RunSubAgent, ExpireTimer,
           RemoveContainer, EraseTimer
<1> QED BY <1>1, <1>2, <1>3, <1>4 DEF Next, Tick, vars

\* From the choice of a node until what comes of it.
TriesPC == {"invoke", "starting", "notStarted", "post", "await", "final"}

Untouched(r) == target[r] = NoNode /\ \A n \in Node : failures[r][n] = "none"

Targets ==
    \A r \in Request :
        /\ pc[r] \in {"resources", "select"} \union TriesPC => route[r] \in Agent
        /\ pc[r] \in TriesPC => Invoked(r) \in SubAgent /\ failures[r][target[r]] = "none"
        /\ pc[r] \in {"route", "chat", "resources", "select"} => target[r] = NoNode
        /\ Here(r) \in {"away", "passed", "locked"} => Untouched(r)

LEMMA InitTargets == Init => Targets
BY SubAgentIsServer DEF Init, GateInit, Targets, TriesPC, Untouched, Here

LEMMA TypeOfInvoked ==
    ASSUME NEW r \in Request, Invoked(r) \in SubAgent
    PROVE  route[r] \in Agent /\ target[r] \in Node
BY RuntimeAssumption DEF Invoked, SubAgent

LEMMA StepTargets == ASSUME Types, AtHome, Targets, [Next]_vars PROVE Targets'
<1> SUFFICES ASSUME NEW r \in Request
    PROVE /\ pc'[r] \in {"resources", "select"} \union TriesPC => route'[r] \in Agent
          /\ pc'[r] \in TriesPC => Invoked(r)' \in SubAgent /\ failures'[r][target'[r]] = "none"
          /\ pc'[r] \in {"route", "chat", "resources", "select"} => target'[r] = NoNode
          /\ Here(r)' \in {"away", "passed", "locked"} => Untouched(r)'
  BY DEF Targets
<1> DEFINE Goal == /\ pc'[r] \in {"resources", "select"} \union TriesPC => route'[r] \in Agent
                   /\ pc'[r] \in TriesPC => Invoked(r)' \in SubAgent /\ failures'[r][target'[r]] = "none"
                   /\ pc'[r] \in {"route", "chat", "resources", "select"} => target'[r] = NoNode
<1>0. /\ pc \in [Request -> PC] /\ route \in [Request -> Agent \union {"none", "chat"}]
      /\ target \in [Request -> Node \union {NoNode}]
      /\ failures \in [Request -> [Node -> Failure \union {"none"}]]
  BY DEF Types, TypeOK
<1>1. HomeMove(r)
  BY HomeMoves DEF Types
<1>2. CASE KeepsLocal(r)
  <2>1. Here(r)' \in {"away", "passed", "locked"} => Here(r) \in {"away", "passed", "locked"}
    BY <1>1 DEF HomeMove, StaysHere, MovesHere
  <2>2. Goal
    BY <1>2 DEF KeepsLocal, Targets, TriesPC, Invoked
  <2> QED BY <1>2, <2>1, <2>2 DEF KeepsLocal, Targets, Untouched
<1>3. CASE HandlerStep(r)
  <2>1. ASSUME NEW v, Return(r, v) PROVE Goal
    BY <2>1, <1>0 DEF Return, TriesPC
  <2>2. ASSUME NEW why, NodeFailed(r, why), route[r] \in Agent PROVE Goal
    BY <2>1, <2>2, <1>0 DEF NodeFailed, Goto, TriesPC
  <2>3. ASSUME NEW l \in TriesPC, Goto(r, l), pc[r] \in TriesPC, UNCHANGED local PROVE Goal
    BY <2>3, <1>0 DEF Goto, Targets, local, Invoked, TriesPC
  <2>4. CASE pc[r] = "idle"
    <3>1. CASE Begin(r)
      BY <3>1, <1>0 DEF Begin, RaiseFlag, Move, Targets, Here, Untouched, local, TriesPC
    <3>2. CASE AcquireLock(r) \/ ReleaseLock(r) \/ ClearFlag(r)
      BY <2>4, <3>2, <1>1 DEF AcquireLock, ReleaseLock, ClearFlag, TriesPC, HomeMove, StaysHere, MovesHere, Targets, Untouched, local
    <3> QED BY <1>3, <2>4, <3>1, <3>2 DEF HandlerStep, SelectRoute, MakeDirectChatAnswer, GetClusterResources,
             SelectTarget, Invoke, StartGivenUp, StartFailed, Post, SubAgentReplied, SubAgentLost,
             SubAgentGivenUp, MakeFinalAnswer
  <2>5. CASE pc[r] # "idle"
    <3>1. Here(r)' \notin {"away", "passed", "locked"}
      BY <2>5, <1>1 DEF AtHome, HomeMove, StaysHere, MovesHere
    <3>2. ASSUME SelectRoute(r) PROVE Goal
      <4>1. CASE Return(r, "error")
        BY <4>1, <2>1
      <4>2. ASSUME NEW w \in Routes(form[r]) \ {"none"}, route' = [route EXCEPT ![r] = w],
                   Goto(r, IF w = "chat" THEN "chat" ELSE "resources")
            PROVE  Goal
        BY <3>2, <4>2, <1>0, TypeOfRoutes DEF SelectRoute, Goto, Targets, TriesPC
      <4> QED BY <3>2, <4>1, <4>2 DEF SelectRoute
    <3>3. ASSUME MakeDirectChatAnswer(r) \/ MakeFinalAnswer(r) PROVE Goal
      BY <3>3, <2>1 DEF MakeDirectChatAnswer, MakeFinalAnswer
    <3>4. ASSUME GetClusterResources(r) PROVE Goal
      BY <3>4, <2>1, <1>0 DEF GetClusterResources, Goto, Targets, TriesPC
    <3>5. ASSUME SelectTarget(r) PROVE Goal
      <4>1. ASSUME NEW n \in Candidates(r), target' = [target EXCEPT ![r] = n], Goto(r, "invoke"),
                   UNCHANGED route
            PROVE  Goal
        <5>1. route[r] \in Agent /\ n \in Node /\ n \in Runtime[route[r]] /\ failures[r][n] = "none"
          BY <3>5, <4>1 DEF SelectTarget, Candidates, Targets, Types, TypeOK
        <5>2. <<route[r], n>> \in SubAgent
          BY <5>1 DEF SubAgent
        <5> QED BY <3>5, <4>1, <5>1, <5>2, <1>0, NoNodeAssumption DEF SelectTarget, Goto, Invoked, TriesPC
      <4> QED BY <3>5, <4>1, <2>1 DEF SelectTarget
    <3>6. ASSUME Invoke(r) PROVE Goal
      BY <3>6, <2>2, <2>3 DEF Invoke, Targets, TriesPC
    <3>7. ASSUME StartGivenUp(r) \/ StartFailed(r) \/ SubAgentLost(r) \/ SubAgentGivenUp(r) PROVE Goal
      BY <3>7, <2>2 DEF StartGivenUp, StartFailed, SubAgentLost, SubAgentGivenUp, Targets, TriesPC
    <3>8. ASSUME Post(r) PROVE Goal
      BY <3>8, <2>2, <2>3 DEF Post, Targets, TriesPC
    <3>9. ASSUME SubAgentReplied(r) PROVE Goal
      BY <3>9, <2>2, <2>3 DEF SubAgentReplied, Targets, TriesPC
    <3>10. ASSUME AcquireLock(r) \/ Begin(r) \/ ReleaseLock(r) \/ ClearFlag(r) PROVE Goal
      BY <2>5, <3>10 DEF AcquireLock, Begin, ReleaseLock, ClearFlag, Acquire, RaiseFlag, Release, LowerFlag,
           Move, AtHome, Here
    <3> QED BY <1>3, <3>1, <3>2, <3>3, <3>4, <3>5, <3>6, <3>7, <3>8, <3>9, <3>10 DEF HandlerStep
  <2> QED BY <2>4, <2>5
<1> QED BY <1>2, <1>3, LocalMoves

-----------------------------------------------------------------------------
(* Type correctness *)

GatewayTypes ==
    /\ starting \subseteq Request \X SubAgent
    /\ up \subseteq SubAgent
    /\ timer \in [SubAgent -> TimerState]
    /\ idle \in [SubAgent -> 0 .. IdleLimit]
    /\ unrefreshed \subseteq Request

LEMMA HandlerGatewayTypes ==
    ASSUME Types, Targets, NEW r \in Request, Receive(r) \/ HandlerStep(r)
    PROVE  GatewayTypes'
<1>0. GatewayTypes
  BY DEF Types, TypeOK, GatewayTypes
<1>1. CASE UNCHANGED gateway
  BY <1>0, <1>1 DEF gateway, GatewayTypes
<1>2. CASE Invoke(r) /\ starting' = starting \union {<<r, Invoked(r)>>} /\ UNCHANGED <<up, timers>>
  <2>1. Invoked(r) \in SubAgent
    BY <1>2 DEF Invoke, Targets, TriesPC
  <2> QED BY <1>0, <1>2, <2>1 DEF GatewayTypes
<1> QED BY <1>1, <1>2 DEF HandlerStep, Receive, AcquireLock, Begin, ReleaseLock, ClearFlag, SelectRoute,
            MakeDirectChatAnswer, GetClusterResources, SelectTarget, Invoke, StartGivenUp, StartFailed,
            Post, SubAgentReplied, SubAgentLost, SubAgentGivenUp, MakeFinalAnswer

LEMMA GatewayStepTypes ==
    ASSUME Types, NEW i \in SubAgent, SubAgentStep(i) \/ TimerStep(i)
    PROVE  LocalTypes' /\ WaitsForCall' /\ GatewayTypes'
<1>0. LocalTypes /\ WaitsForCall /\ GatewayTypes
  BY DEF Types, TypeOK, LocalTypes, GatewayTypes
<1>1. CASE UNCHANGED <<pc, local, wait>> /\ UNCHANGED gateway
  BY <1>0, <1>1 DEF local, gateway, LocalTypes, WaitsForCall, GatewayTypes
<1>2. CASE CrashSubAgent(i) \/ TimerStep(i)
  <2>1. LocalTypes' /\ WaitsForCall'
    BY <1>0, <1>2 DEF CrashSubAgent, TimerStep, ExpireTimer, RemoveContainer, EraseTimer, local,
         LocalTypes, WaitsForCall
  <2>2. GatewayTypes'
    BY <1>0, <1>2, LimitsAreNat DEF CrashSubAgent, TimerStep, ExpireTimer, RemoveContainer, EraseTimer,
         GatewayTypes, TimerState
  <2> QED BY <2>1, <2>2
<1>3. ASSUME NEW r \in Request, RunSubAgent(i, r) PROVE UNCHANGED <<pc, local, wait>> /\ UNCHANGED gateway
  BY <1>3 DEF RunSubAgent
<1>4. ASSUME NEW r \in Request, StartSubAgent(r, i) \/ StartSubAgentFails(r, i)
      PROVE  LocalTypes' /\ WaitsForCall' /\ GatewayTypes'
  <2>1. GatewayTypes'
    BY <1>0, <1>4, LimitsAreNat DEF Started, StartSubAgent, StartSubAgentFails, GatewayTypes, TimerState
  <2>2. CASE Awaits(r, i)
    <3>1. \E l \in {"post", "notStarted"} : Goto(r, l)
      BY <1>4, <2>2 DEF Started, StartSubAgent, StartSubAgentFails
    <3>2. LocalStep(r)
      BY <1>4, <3>1 DEF Started, StartSubAgent, StartSubAgentFails, local, LocalStep, Types, TypeOK, Goto, PC
    <3>3. wait' = [wait EXCEPT ![r] = 0]
      BY <1>4, <2>2 DEF Started, StartSubAgent, StartSubAgentFails
    <3> QED BY <2>1, <3>2, <3>3, LocalStepTypes
  <2>3. CASE ~Awaits(r, i)
    <3>1. UNCHANGED <<pc, local>> /\ wait' = wait
      BY <1>4, <2>3 DEF Started, StartSubAgent, StartSubAgentFails, Types, TypeOK
    <3> QED BY <1>0, <2>1, <3>1 DEF local, LocalTypes, WaitsForCall
  <2> QED BY <2>2, <2>3
<1> QED BY <1>1, <1>2, <1>3, <1>4 DEF SubAgentStep

LEMMA TickTypes == ASSUME Types, Tick PROVE LocalTypes' /\ WaitsForCall' /\ GatewayTypes'
<1>1. \A r \in Request :
        /\ wait[r] \in Nat /\ wait'[r] \in Nat
        /\ pc[r] = "starting" => wait[r] < StartLimit /\ wait'[r] = wait[r] + 1
        /\ pc[r] = "await" => wait[r] < InvokeLimit /\ wait'[r] = wait[r] + 1
        /\ pc[r] \notin {"starting", "await"} => wait'[r] = wait[r]
  BY DEF Tick, Types, TypeOK
<1>2. wait' \in [Request -> Nat]
  BY <1>1 DEF Tick
<1>3. \A i \in SubAgent : idle'[i] \in 0 .. IdleLimit
  BY LimitsAreNat DEF Tick, Types, TypeOK
<1>4. idle' \in [SubAgent -> 0 .. IdleLimit]
  BY <1>3 DEF Tick
<1> QED BY <1>1, <1>2, <1>4, LimitsAreNat DEF Tick, local, Types, TypeOK, LocalTypes, WaitsForCall, GatewayTypes

LEMMA StepTypes == ASSUME Types, AtHome, Targets, [Next]_vars PROVE Types'
<1>1. GateTypeOK'
  BY StepsOfGates, GateTypes DEF Types, TypeOK
<1>2. home' = home /\ form' = form
  BY ConstantsKept
<1>3. LocalTypes' /\ WaitsForCall' /\ GatewayTypes'
  <2>1. CASE UNCHANGED vars
    BY <2>1 DEF vars, local, gateway, Types, TypeOK, LocalTypes, WaitsForCall, GatewayTypes
  <2>2. ASSUME NEW r \in Request, Receive(r) \/ HandlerStep(r) PROVE LocalTypes' /\ WaitsForCall' /\ GatewayTypes'
    BY <2>2, HandlerTypes, HandlerGatewayTypes
  <2>3. ASSUME NEW i \in SubAgent, SubAgentStep(i) \/ TimerStep(i) PROVE LocalTypes' /\ WaitsForCall' /\ GatewayTypes'
    BY <2>3, GatewayStepTypes
  <2> QED BY <2>1, <2>2, <2>3, TickTypes DEF Next
<1> QED BY <1>1, <1>2, <1>3 DEF Types, TypeOK, LocalTypes, GatewayTypes

IInv == Types /\ AtHome /\ Targets

LEMMA InitIInv == Init => IInv
BY InitTypes, InitAtHome, InitTargets DEF IInv

LEMMA StepIInv == ASSUME IInv, [Next]_vars PROVE IInv'
BY StepTypes, StepAtHome, StepTargets DEF IInv, Types

\* IInv holds of every reachable state: requests are where their handlers are, and are sent
\* to sub-agents that exist on nodes that have not failed them.
THEOREM Reachable == Spec => []IInv
<1>1. IInv /\ [Next]_vars => IInv'
  BY StepIInv
<1> QED BY <1>1, InitIInv, PTL DEF Spec

\* Type correctness, for any number of requests, nodes and agents: in particular nobody waits
\* past StartLimit or InvokeLimit.
THEOREM TypeCorrect == Spec => []TypeOK
<1>1. IInv => TypeOK
  BY DEF IInv, Types
<1> QED BY <1>1, Reachable, PTL

-----------------------------------------------------------------------------
(* The gates: flags and locks *)

\* Every raised is_blocking has a handler that will lower it, in the main agents and in the
\* sub-agents, whatever crashes.
THEOREM BusyOwned == Spec => []BusyHasOwner
<1>1. Init => BusyHasOwner
  BY DEF Init, GateInit, BusyHasOwner
<1>2. ASSUME GateTypeOK, BusyHasOwner, GateStep PROVE BusyHasOwner'
  <2>1. CASE UNCHANGED gate
    BY <1>2, <2>1 DEF gate, BusyHasOwner
  <2>2. ASSUME NEW s \in SubAgent, Crash(s) PROVE BusyHasOwner'
    BY <1>2, <2>2, SubAgentIsServer DEF BusyHasOwner, Crash, GateTypeOK
  <2>3. ASSUME NEW s \in Server, NEW r \in Request, GateMove(s, r) PROVE BusyHasOwner'
    <3> DEFINE Owns(t, q) == at[t][q] \in {"busy", "leaving", "released"}
    <3>1. CASE LowerFlag(s, r)
      BY <1>2, <2>3, <3>1 DEF LowerFlag, Move, BusyHasOwner, GateTypeOK
    <3>2. CASE ~LowerFlag(s, r)
      <4>1. \A t \in Server, q \in Request : Owns(t, q) => Owns(t, q)'
        BY <1>2, <2>3, <3>2 DEF GateMove, TurnAway, TurnAwayInvalid, Pass, Acquire, RaiseFlag, Leave,
             Release, Move, GateTypeOK
      <4>2. CASE RaiseFlag(s, r)
        BY <1>2, <4>1, <4>2 DEF RaiseFlag, Move, BusyHasOwner, GateTypeOK
      <4>3. CASE is_blocking' = is_blocking
        BY <1>2, <4>1, <4>3 DEF BusyHasOwner
      <4> QED BY <2>3, <3>2, <4>2, <4>3 DEF GateMove, TurnAway, TurnAwayInvalid, Pass, Acquire, Leave, Release
    <3> QED BY <3>1, <3>2
  <2> QED BY <1>2, <2>1, <2>2, <2>3 DEF GateStep
<1>3. IInv /\ BusyHasOwner /\ [Next]_vars => BusyHasOwner'
  BY <1>2, StepsOfGates DEF IInv, Types, TypeOK
<1> QED BY <1>1, <1>3, Reachable, PTL DEF Spec

-----------------------------------------------------------------------------
(* Idle timers and awaited replies *)

\* Unless the refresh was lost, a timer that runs has been set back when the pending post
\* became possible, so it is never ahead of the wait for its reply.
TimersLag ==
    \A r \in Request \ unrefreshed :
        /\ pc[r] = "await" /\ timer[Invoked(r)] = "waiting" => idle[Invoked(r)] <= wait[r]
        /\ pc[r] = "post" /\ timer[Invoked(r)] = "waiting" => idle[Invoked(r)] = 0

LEMMA HandlersLeaveTimers ==
    ASSUME Types, NEW r \in Request, Receive(r) \/ HandlerStep(r)
    PROVE  /\ UNCHANGED timers
           /\ \A q \in Request \ {r} : wait'[q] = wait[q] /\ pc'[q] = pc[q]
           /\ pc'[r] \in {"post", "await"} =>
                /\ UNCHANGED <<local, wait>>
                /\ pc'[r] = pc[r] \/ (pc[r] = "post" /\ pc'[r] = "await")
<1> DEFINE Elsewhere == \A q \in Request \ {r} : wait'[q] = wait[q] /\ pc'[q] = pc[q]
           Calls == {"post", "await"}
<1>0. pc \in [Request -> PC] /\ wait \in [Request -> Nat]
  BY DEF Types, TypeOK
<1>1. ASSUME NEW why, NodeFailed(r, why) PROVE pc'[r] \notin Calls /\ Elsewhere
  BY <1>0, <1>1 DEF NodeFailed, Return, Goto
<1>2. ASSUME NEW v, Return(r, v), wait' = wait PROVE pc'[r] \notin Calls /\ Elsewhere
  BY <1>0, <1>2 DEF Return
<1>3. ASSUME NEW l, Goto(r, l), wait' = wait PROVE pc'[r] = l /\ Elsewhere
  BY <1>0, <1>3 DEF Goto
<1>4. CASE Receive(r) \/ AcquireLock(r) \/ ReleaseLock(r) \/ ClearFlag(r)
  BY <1>4 DEF Receive, AcquireLock, ReleaseLock, ClearFlag, gateway, local
<1>5. CASE Begin(r)
  BY <1>5, <1>0 DEF Begin, gateway
<1>6. CASE SelectRoute(r) \/ MakeDirectChatAnswer(r) \/ GetClusterResources(r) \/ SelectTarget(r) \/ MakeFinalAnswer(r)
  <2>1. UNCHANGED <<timers, wait>>
    BY <1>6 DEF SelectRoute, MakeDirectChatAnswer, GetClusterResources, SelectTarget, MakeFinalAnswer, gateway
  <2>2. (\E v : Return(r, v)) \/ \E l \in PC \ Calls : Goto(r, l)
    BY <1>6 DEF SelectRoute, MakeDirectChatAnswer, GetClusterResources, SelectTarget, MakeFinalAnswer, PC
  <2> QED BY <2>1, <2>2, <1>2, <1>3
<1>7. CASE Invoke(r)
  BY <1>7, <1>1, <1>3 DEF Invoke, gateway
<1>8. CASE StartGivenUp(r) \/ StartFailed(r) \/ SubAgentLost(r) \/ SubAgentGivenUp(r)
  BY <1>8, <1>1 DEF StartGivenUp, StartFailed, SubAgentLost, SubAgentGivenUp, gateway
<1>9. CASE Post(r)
  <2>1. UNCHANGED timers /\ pc[r] = "post"
    BY <1>9 DEF Post, gateway
  <2>2. (\E why : NodeFailed(r, why)) \/ (Goto(r, "await") /\ UNCHANGED <<local, wait>>)
    BY <1>9 DEF Post, local
  <2> QED BY <2>1, <2>2, <1>1, <1>3
<1>10. CASE SubAgentReplied(r)
  BY <1>10, <1>0, <1>1 DEF SubAgentReplied, Goto, gateway
<1> QED BY <1>4, <1>5, <1>6, <1>7, <1>8, <1>9, <1>10 DEF HandlerStep

LEMMA InvokedStays ==
    ASSUME IInv, [Next]_vars, NEW r \in Request, pc'[r] \in {"post", "await"}
    PROVE  Invoked(r) \in SubAgent /\ Invoked(r)' = Invoked(r)
<1>1. CASE KeepsLocal(r)
  BY <1>1 DEF KeepsLocal, Invoked, IInv, Targets, TriesPC
<1>2. CASE HandlerStep(r)
  <2>1. UNCHANGED local /\ pc[r] \in {"post", "await"}
    BY <1>2, HandlersLeaveTimers DEF IInv
  <2> QED BY <2>1 DEF local, Invoked, IInv, Targets, TriesPC
<1> QED BY <1>1, <1>2, LocalMoves DEF IInv

LEMMA StepTimersLag == ASSUME IInv, TimersLag, [Next]_vars PROVE TimersLag'
<1> DEFINE Lags(q) == q \notin unrefreshed' /\ timer'[Invoked(q)] = "waiting" =>
                        /\ pc'[q] = "await" => idle'[Invoked(q)] <= wait'[q]
                        /\ pc'[q] = "post" => idle'[Invoked(q)] = 0
<1>a. SUFFICES ASSUME NEW r \in Request, pc'[r] \in {"post", "await"} PROVE Lags(r)
  BY InvokedStays DEF TimersLag
<1>0. /\ pc \in [Request -> PC] /\ wait \in [Request -> Nat] /\ wait' \in [Request -> Nat]
      /\ timer \in [SubAgent -> TimerState] /\ idle \in [SubAgent -> 0 .. IdleLimit] /\ IdleLimit \in Nat
  BY LimitsAreNat, StepIInv DEF IInv, Types, TypeOK
<1>1. Invoked(r) \in SubAgent
  BY <1>a, InvokedStays
<1>l. r \notin unrefreshed /\ timer[Invoked(r)] = "waiting" =>
        /\ pc[r] = "await" => idle[Invoked(r)] <= wait[r]
        /\ pc[r] = "post" => idle[Invoked(r)] = 0
  BY DEF TimersLag
<1>2. /\ timer'[Invoked(r)] = timer[Invoked(r)] /\ idle'[Invoked(r)] = idle[Invoked(r)]
      /\ wait'[r] = wait[r] /\ (r \in unrefreshed => r \in unrefreshed')
      /\ pc'[r] = pc[r] \/ (pc[r] = "post" /\ pc'[r] = "await")
      => Lags(r)
  BY <1>0, <1>1, <1>l
<1>3. ASSUME UNCHANGED <<timers, wait, pc>> PROVE Lags(r)
  BY <1>2, <1>3
<1>4. ASSUME NEW q \in Request, Receive(q) \/ HandlerStep(q) PROVE Lags(r)
  <2>1. UNCHANGED timers /\ wait'[r] = wait[r] /\ (pc'[r] = pc[r] \/ (pc[r] = "post" /\ pc'[r] = "await"))
    BY <1>a, <1>4, HandlersLeaveTimers DEF IInv
  <2> QED BY <2>1, <1>2
<1>5. ASSUME Tick PROVE Lags(r)
  <2>1. /\ pc[r] # "post" /\ UNCHANGED <<pc, timer, unrefreshed>>
        /\ pc[r] = "await" => wait'[r] = wait[r] + 1
        /\ timer[Invoked(r)] = "waiting" => idle'[Invoked(r)] = idle[Invoked(r)] + 1
    BY <1>1, <1>5 DEF Tick
  <2> QED BY <2>1, <1>0, <1>1, <1>l
<1>6. ASSUME NEW j \in SubAgent, NEW q \in Request, StartSubAgent(q, j) PROVE Lags(r)
  <2>1. CASE Invoked(r) = j /\ idle' = [idle EXCEPT ![j] = 0]
    <3>1. idle'[Invoked(r)] = 0
      BY <1>0, <1>1, <2>1
    <3> QED BY <3>1, <1>0
  <2>2. CASE Invoked(r) = j /\ unrefreshed' = unrefreshed \union {p \in {q} : Awaits(p, j)}
             /\ timer[j] = "waiting" /\ UNCHANGED idle
    <3>1. CASE q = r /\ Awaits(r, j)
      BY <2>2, <3>1
    <3>2. CASE ~(q = r /\ Awaits(r, j))
      <4>1. pc'[r] = pc[r] /\ wait'[r] = wait[r]
        BY <3>2, <1>0, <1>6 DEF Started, StartSubAgent, Goto
      <4>2. timer'[j] = timer[j]
        BY <2>2, <1>0, <1>1, <1>6 DEF Started, StartSubAgent
      <4> QED BY <1>2, <2>2, <4>1, <4>2
    <3> QED BY <3>1, <3>2
  <2>3. CASE Invoked(r) # j
    <3>1. ~(q = r /\ Awaits(q, j))
      BY <2>3 DEF Awaits
    <3>2. pc'[r] = pc[r] /\ wait'[r] = wait[r]
      BY <3>1, <1>0, <1>6 DEF Started, StartSubAgent, Goto
    <3>3. timer'[Invoked(r)] = timer[Invoked(r)] /\ idle'[Invoked(r)] = idle[Invoked(r)]
      BY <2>3, <1>0, <1>1, <1>6 DEF Started, StartSubAgent
    <3>4. r \in unrefreshed => r \in unrefreshed'
      BY <3>1, <1>6 DEF StartSubAgent
    <3> QED BY <1>2, <3>2, <3>3, <3>4
  <2> QED BY <1>6, <2>1, <2>2, <2>3 DEF StartSubAgent
<1>7. ASSUME NEW j \in SubAgent, NEW q \in Request, StartSubAgentFails(q, j) PROVE Lags(r)
  <2>1. UNCHANGED timers /\ wait'[r] = wait[r] /\ pc'[r] = pc[r]
    BY <1>a, <1>0, <1>7 DEF StartSubAgentFails, Goto
  <2> QED BY <2>1, <1>2
<1>8. ASSUME NEW j \in SubAgent, CrashSubAgent(j) \/ \E q \in Request : RunSubAgent(j, q) PROVE Lags(r)
  BY <1>3, <1>8 DEF CrashSubAgent, RunSubAgent, gateway
<1>9. ASSUME NEW j \in SubAgent, TimerStep(j) PROVE Lags(r)
  <2>1. UNCHANGED <<pc, wait, unrefreshed>>
    BY <1>9 DEF TimerStep, ExpireTimer, RemoveContainer, EraseTimer
  <2>2. timer'[Invoked(r)] = "waiting" =>
            timer'[Invoked(r)] = timer[Invoked(r)] /\ idle'[Invoked(r)] = idle[Invoked(r)]
    BY <1>0, <1>1, <1>9 DEF TimerStep, ExpireTimer, RemoveContainer, EraseTimer
  <2> QED BY <2>1, <2>2, <1>2
<1>10. CASE UNCHANGED vars
  BY <1>3, <1>10 DEF vars, gateway
<1> QED BY <1>4, <1>5, <1>6, <1>7, <1>8, <1>9, <1>10 DEF Next, SubAgentStep

\* The idle timer of a sub-agent whose reply is awaited never expires, unless the refresh of
\* the start before the post was lost: whatever the limits are, InvokeLimit < IdleLimit is
\* enough.
THEOREM AwaitedSafe == Spec => AwaitedNotExpired
<1>1. Init => TimersLag
  BY DEF Init, TimersLag
<1>2. IInv /\ TimersLag /\ [Next]_vars => TimersLag'
  BY StepTimersLag
<1>3. IInv /\ TimersLag /\ [Next]_vars =>
        [\A r \in Request \ unrefreshed :
            pc[r] = "await" /\ timer[Invoked(r)] = "waiting" => timer'[Invoked(r)] # "expired"]_vars
  <2> SUFFICES ASSUME IInv, TimersLag, [Next]_vars, NEW r \in Request \ unrefreshed, pc[r] = "await",
                      timer[Invoked(r)] = "waiting", timer'[Invoked(r)] = "expired"
               PROVE  FALSE
    OBVIOUS
  <2>0. /\ Invoked(r) \in SubAgent /\ timer \in [SubAgent -> TimerState]
        /\ idle \in [SubAgent -> 0 .. IdleLimit]
        /\ wait[r] \in Nat /\ wait[r] <= InvokeLimit
    BY DEF IInv, Types, WaitsForCall, TypeOK, Targets, TriesPC
  <2>1. idle[Invoked(r)] # IdleLimit
    BY <2>0, LimitAssumption, LimitsAreNat DEF TimersLag
  <2>2. timer' # timer
    OBVIOUS
  <2>3. ASSUME NEW q \in Request, Receive(q) \/ HandlerStep(q) PROVE FALSE
    BY <2>2, <2>3, HandlersLeaveTimers DEF IInv
  <2>4. ASSUME NEW j \in SubAgent, CrashSubAgent(j) \/ \E q \in Request : RunSubAgent(j, q) PROVE FALSE
    BY <2>2, <2>4 DEF CrashSubAgent, RunSubAgent, gateway
  <2>5. ASSUME NEW j \in SubAgent, NEW q \in Request, StartSubAgent(q, j) \/ StartSubAgentFails(q, j)
        PROVE  FALSE
    BY <2>0, <2>2, <2>5 DEF Started, StartSubAgent, StartSubAgentFails
  <2>6. ASSUME NEW j \in SubAgent, TimerStep(j) PROVE FALSE
    BY <2>0, <2>1, <2>6 DEF TimerStep, ExpireTimer, RemoveContainer, EraseTimer
  <2> QED BY <2>2, <2>3, <2>4, <2>5, <2>6 DEF Next, SubAgentStep, Tick, vars, gateway
<1> QED BY <1>1, <1>2, <1>3, Reachable, PTL DEF Spec, AwaitedNotExpired

-----------------------------------------------------------------------------
(* What the sub-agents do with a main agent's requests: who is sent one, and who still *)
(* works on it when another node has taken over.                                       *)

\* What any step does to a request at a sub-agent: nothing, its main agent's post, or
\* something inside the sub-agent that its main agent sees later.
Unmoved(i, q) == at'[i][q] = at[i][q] /\ reply'[i][q] = reply[i][q]

Posted(i, q) ==
    /\ pc[q] = "post" /\ pc'[q] = "await" /\ Invoked(q) = i
    /\ UNCHANGED local

Worked(i, q) ==
    /\ at[i][q] \in Open /\ at'[i][q] # "away"
    /\ UNCHANGED <<pc, local>>

SubMove(i, q) == Unmoved(i, q) \/ Posted(i, q) \/ Worked(i, q)

LEMMA GateMoveLeavesOthers ==
    ASSUME GateTypeOK, NEW s \in Server, NEW r \in Request, GateMove(s, r),
           NEW i \in Server, NEW q \in Request, i # s \/ q # r
    PROVE  Unmoved(i, q)
<1>1. \E l : at' = [at EXCEPT ![s][r] = l]
  BY DEF GateMove, TurnAway, TurnAwayInvalid, Pass, Acquire, Leave, RaiseFlag, Release, LowerFlag, Move
<1>2. reply' = reply \/ \E v : reply' = [reply EXCEPT ![s][r] = v]
  BY DEF GateMove, TurnAway, TurnAwayInvalid, Pass, Acquire, Leave, RaiseFlag, Release, LowerFlag
<1> QED BY <1>1, <1>2 DEF Unmoved, GateTypeOK

LEMMA SubMoves ==
    ASSUME TypeOK, [Next]_vars, NEW i \in SubAgent, NEW q \in Request
    PROVE  SubMove(i, q)
<1>0. /\ GateTypeOK /\ i \in Server /\ SubAgent \subseteq Server /\ up \subseteq SubAgent
      /\ \A r \in Request : home[r] \in Server /\ home[r] # i
  BY SubAgentIsServer DEF TypeOK
<1>1. ASSUME UNCHANGED gate PROVE Unmoved(i, q)
  BY <1>1 DEF gate, Unmoved
<1>2. ASSUME NEW r \in Request, GateMove(home[r], r) PROVE Unmoved(i, q)
  BY <1>0, <1>2, GateMoveLeavesOthers
<1>3. ASSUME NEW j \in SubAgent, Crash(j), UNCHANGED <<pc, local>> PROVE SubMove(i, q)
  <2>1. CASE i # j
    BY <1>0, <1>3, <2>1 DEF Crash, GateTypeOK, SubMove, Unmoved
  <2>2. CASE i = j
    <3>1. at'[i][q] = IF at[i][q] \in Open THEN "cut" ELSE at[i][q]
      BY <1>0, <1>3, <2>2 DEF Crash, GateTypeOK
    <3>2. reply' = reply
      BY <1>3 DEF Crash
    <3> QED BY <1>3, <3>1, <3>2 DEF SubMove, Unmoved, Worked
  <2> QED BY <2>1, <2>2
<1>4. CASE UNCHANGED vars
  BY <1>4, <1>1 DEF vars, SubMove
<1>5. CASE Tick
  BY <1>5, <1>1 DEF Tick, SubMove
<1>6. ASSUME NEW r \in Request, Receive(r) \/ HandlerStep(r) PROVE SubMove(i, q)
  <2>1. ASSUME NEW v \in {"answer", "error"}, Return(r, v) PROVE Unmoved(i, q)
    BY <2>1, <1>2 DEF Return, GateMove
  <2>2. ASSUME NEW why, NodeFailed(r, why) PROVE Unmoved(i, q)
    BY <2>1, <2>2, <1>1 DEF NodeFailed
  <2>3. CASE Receive(r)
    BY <2>3, <1>2 DEF Receive, GateMove, SubMove
  <2>4. CASE AcquireLock(r) \/ Begin(r) \/ ReleaseLock(r) \/ ClearFlag(r)
    BY <2>4, <1>2 DEF AcquireLock, Begin, ReleaseLock, ClearFlag, GateMove, SubMove
  <2>5. CASE SelectRoute(r) \/ MakeDirectChatAnswer(r) \/ GetClusterResources(r) \/ SelectTarget(r) \/ MakeFinalAnswer(r)
    BY <2>5, <1>1, <2>1 DEF SelectRoute, MakeDirectChatAnswer, GetClusterResources, SelectTarget, MakeFinalAnswer, SubMove
  <2>6. CASE Invoke(r)
    BY <2>6, <2>2, <1>1 DEF Invoke, SubMove
  <2>7. CASE StartGivenUp(r) \/ StartFailed(r) \/ SubAgentLost(r) \/ SubAgentGivenUp(r)
    BY <2>7, <2>2 DEF StartGivenUp, StartFailed, SubAgentLost, SubAgentGivenUp, SubMove
  <2>8. CASE Post(r)
    <3>1. CASE /\ Invoked(r) \in up /\ GateMove(Invoked(r), r)
               /\ Goto(r, "await") /\ UNCHANGED local
      <4>1. CASE i # Invoked(r) \/ q # r
        BY <1>0, <3>1, <4>1, GateMoveLeavesOthers DEF SubMove
      <4>2. CASE i = Invoked(r) /\ q = r
        BY <2>8, <3>1, <4>2 DEF Post, Goto, SubMove, Posted, TypeOK
      <4> QED BY <4>1, <4>2
    <3> QED BY <2>8, <3>1, <2>2 DEF Post, GateMove, SubMove, local
  <2>9. CASE SubAgentReplied(r)
    BY <2>9, <2>2, <1>1 DEF SubAgentReplied, SubMove
  <2> QED BY <1>6, <2>3, <2>4, <2>5, <2>6, <2>7, <2>8, <2>9 DEF HandlerStep
<1>7. ASSUME NEW j \in SubAgent, SubAgentStep(j) \/ TimerStep(j) PROVE SubMove(i, q)
  <2>1. CASE CrashSubAgent(j)
    BY <2>1, <1>3 DEF CrashSubAgent, local
  <2>2. ASSUME NEW r \in Request, RunSubAgent(j, r) PROVE SubMove(i, q)
    <3>0. GateMove(j, r) /\ UNCHANGED <<pc, local>>
      BY <2>2 DEF RunSubAgent, GateMove
    <3>1. CASE i # j \/ q # r
      BY <1>0, <3>0, <3>1, GateMoveLeavesOthers DEF SubMove
    <3>2. CASE i = j /\ q = r
      BY <1>0, <2>2, <3>0, <3>2 DEF RunSubAgent, Acquire, RaiseFlag, Leave, Release, LowerFlag, Move,
           SubMove, Worked, GateTypeOK, Open, Inside
    <3> QED BY <3>1, <3>2
  <2>3. ASSUME NEW r \in Request, StartSubAgent(r, j) \/ StartSubAgentFails(r, j) PROVE SubMove(i, q)
    BY <2>3, <1>1 DEF Started, StartSubAgent, StartSubAgentFails, SubMove
  <2>4. CASE TimerStep(j)
    BY <2>4, <1>1, <1>3 DEF TimerStep, ExpireTimer, RemoveContainer, EraseTimer, SubMove, local
  <2> QED BY <1>7, <2>1, <2>2, <2>3, <2>4 DEF SubAgentStep
<1> QED BY <1>4, <1>5, <1>6, <1>7 DEF Next

-----------------------------------------------------------------------------
(* Requests without an image *)

Called == {"starting", "notStarted", "post", "await", "final"}

\* What has been called for a request has passed the test of invoke_sub_agent.
ImageTested ==
    /\ \A r \in Request : pc[r] \in Called /\ route[r] \in ImageAgent => form[r].image
    /\ ImageAgentsGetImages

LEMMA StartsAreInvoked ==
    ASSUME [Next]_vars, NEW r \in Request, NEW i \in SubAgent, <<r, i>> \in starting'
    PROVE  <<r, i>> \in starting \/ (Invoke(r) /\ i = Invoked(r) /\ pc' = [pc EXCEPT ![r] = "starting"]
                                     /\ ~(route[r] \in ImageAgent /\ ~form[r].image))
<1>1. CASE UNCHANGED starting
  BY <1>1
<1>2. ASSUME NEW q \in Request, Receive(q) \/ HandlerStep(q)
      PROVE  UNCHANGED starting \/ (Invoke(q) /\ starting' = starting \union {<<q, Invoked(q)>>}
                                    /\ pc' = [pc EXCEPT ![q] = "starting"]
                                    /\ ~(route[q] \in ImageAgent /\ ~form[q].image))
  BY <1>2 DEF HandlerStep, Receive, AcquireLock, Begin, ReleaseLock, ClearFlag, SelectRoute,
       MakeDirectChatAnswer, GetClusterResources, SelectTarget, Invoke, StartGivenUp, StartFailed,
       Post, SubAgentReplied, SubAgentLost, SubAgentGivenUp, MakeFinalAnswer, Goto, gateway
<1>3. ASSUME NEW j \in SubAgent, SubAgentStep(j) \/ TimerStep(j) PROVE starting' \subseteq starting
  BY <1>3 DEF SubAgentStep, TimerStep, CrashSubAgent, RunSubAgent, Started, StartSubAgent, StartSubAgentFails,
       ExpireTimer, RemoveContainer, EraseTimer, gateway
<1>4. CASE \E q \in Request : Receive(q) \/ HandlerStep(q)
  BY <1>2, <1>4
<1> QED BY <1>1, <1>3, <1>4 DEF Next, Tick, vars, gateway

LEMMA StepImageTested == ASSUME IInv, ImageTested, [Next]_vars PROVE ImageTested'
<1>0. /\ form' = form /\ pc \in [Request -> PC] /\ TypeOK /\ Types
      /\ route \in [Request -> Agent \union {"none", "chat"}]
  BY ConstantsKept DEF IInv, Types, TypeOK
<1>1. ASSUME NEW r \in Request, pc'[r] \in Called, route'[r] \in ImageAgent PROVE form[r].image
  <2>1. CASE KeepsLocal(r)
    BY <1>1, <2>1 DEF KeepsLocal, ImageTested, Called
  <2>2. ASSUME HandlerStep(r), ~Invoke(r) PROVE pc[r] \in Called /\ route'[r] = route[r]
    <3>1. ASSUME NEW why, NodeFailed(r, why) PROVE FALSE
      BY <1>0, <1>1, <3>1 DEF NodeFailed, Return, Goto, Called
    <3>2. ASSUME NEW v, Return(r, v) PROVE FALSE
      BY <1>0, <1>1, <3>2 DEF Return, Called
    <3>3. ASSUME NEW l \in PC \ Called, Goto(r, l) PROVE FALSE
      BY <1>0, <1>1, <3>3 DEF Goto
    <3>4. CASE AcquireLock(r) \/ ReleaseLock(r) \/ ClearFlag(r)
      BY <1>1, <3>4 DEF AcquireLock, ReleaseLock, ClearFlag, local
    <3>5. CASE Begin(r)
      BY <1>0, <1>1, <3>5 DEF Begin, Called
    <3>6. CASE SelectRoute(r) \/ MakeDirectChatAnswer(r) \/ GetClusterResources(r) \/ SelectTarget(r) \/ MakeFinalAnswer(r)
      BY <3>2, <3>3, <3>6 DEF SelectRoute, MakeDirectChatAnswer, GetClusterResources, SelectTarget,
           MakeFinalAnswer, PC, Called
    <3>7. CASE StartGivenUp(r) \/ StartFailed(r) \/ SubAgentLost(r) \/ SubAgentGivenUp(r)
      BY <3>1, <3>7 DEF StartGivenUp, StartFailed, SubAgentLost, SubAgentGivenUp
    <3>8. CASE Post(r) \/ SubAgentReplied(r)
      BY <3>1, <3>8 DEF Post, SubAgentReplied, local, Called
    <3> QED BY <2>2, <3>4, <3>5, <3>6, <3>7, <3>8 DEF HandlerStep
  <2>3. CASE Invoke(r)
    <3>1. ASSUME NEW why, NodeFailed(r, why) PROVE FALSE
      BY <1>0, <1>1, <3>1 DEF NodeFailed, Return, Goto, Called
    <3> QED BY <1>1, <2>3, <3>1 DEF Invoke, local
  <2> QED BY <1>0, <1>1, <2>1, <2>2, <2>3, LocalMoves DEF ImageTested
<1>2. ASSUME NEW r \in Request, NEW i \in SubAgent, i[1] \in ImageAgent, <<r, i>> \in starting'
      PROVE  form[r].image
  <2>1. CASE <<r, i>> \in starting
    BY <1>2, <2>1 DEF ImageTested, ImageAgentsGetImages
  <2>2. CASE i = Invoked(r) /\ ~(route[r] \in ImageAgent /\ ~form[r].image)
    BY <1>2, <2>2 DEF Invoked
  <2> QED BY <1>2, <2>1, <2>2, StartsAreInvoked
<1>3. ASSUME NEW r \in Request, NEW i \in SubAgent, i[1] \in ImageAgent, at'[i][r] # "away"
      PROVE  form[r].image
  <2>1. CASE Posted(i, r)
    BY <1>3, <2>1 DEF Posted, Invoked, ImageTested, Called
  <2>2. CASE at[i][r] # "away"
    BY <1>3, <2>2 DEF ImageTested, ImageAgentsGetImages
  <2> QED BY <1>0, <1>3, <2>1, <2>2, SubMoves DEF SubMove, Unmoved, Worked, Open, Inside
<1> QED BY <1>0, <1>1, <1>2, <1>3 DEF ImageTested, ImageAgentsGetImages

\* No image or segmentation agent is started for, or sent, a request without an image,
\* whatever forms clients post and however many nodes fail before.
THEOREM ImagesOnly == Spec => []ImageAgentsGetImages
<1>1. Init => ImageTested
  BY SubAgentIsServer DEF Init, GateInit, ImageTested, ImageAgentsGetImages, Called
<1>2. IInv /\ ImageTested /\ [Next]_vars => ImageTested'
  BY StepImageTested
<1>3. ImageTested => ImageAgentsGetImages
  BY DEF ImageTested
<1> QED BY <1>1, <1>2, <1>3, Reachable, PTL DEF Spec

-----------------------------------------------------------------------------
(* Work taken over *)

Before == {"invoke", "starting", "notStarted", "post"}

\* A node that has not failed the request and is not its target has never been sent it, the
\* target has not before the post, and then only the sub-agent of the route has.
SentOnlyByPost ==
    \A r \in Request, i \in SubAgent :
        \/ at[i][r] = "away"
        \/ i[2] # target[r] /\ failures[r][i[2]] # "none"
        \/ i[2] = target[r] /\ pc[r] \notin Before /\ (pc[r] \in {"await", "final"} => i = Invoked(r))

TakenOver == SentOnlyByPost /\ TakenOverOnlyAfterTimeout

\* The two at one sub-agent and one request.
TakenOverAt(i, r) ==
    /\ \/ at[i][r] = "away"
       \/ i[2] # target[r] /\ failures[r][i[2]] # "none"
       \/ i[2] = target[r] /\ pc[r] \notin Before /\ (pc[r] \in {"await", "final"} => i = Invoked(r))
    /\ i[2] # target[r] /\ failures[r][i[2]] # "timeout" =>
            /\ at[i][r] \notin Open
            /\ at[i][r] = "gone" => reply[i][r] # "answer"

LEMMA TakenOverSplit == TakenOver <=> \A r \in Request, i \in SubAgent : TakenOverAt(i, r)
BY DEF TakenOver, SentOnlyByPost, TakenOverOnlyAfterTimeout, TakenOverAt

\* The except clause of the failover loop, from what it knows of the target.
LEMMA FailingKeeps ==
    ASSUME IInv, NEW r \in Request, NEW i \in SubAgent, TakenOverAt(i, r), Unmoved(i, r),
           NEW why \in Failure, NodeFailed(r, why), pc[r] \in TriesPC,
           \/ why = "timeout"
           \/ pc[r] \in Before
           \/ pc[r] = "await" /\ at[Invoked(r)][r] \notin Open
              /\ (at[Invoked(r)][r] = "gone" => reply[Invoked(r)][r] # "answer")
    PROVE  TakenOverAt(i, r)'
<1>1. /\ i[2] \in Node /\ target[r] \in Node /\ NoNode \notin Node
      /\ target \in [Request -> Node \union {NoNode}] /\ pc \in [Request -> PC]
      /\ failures \in [Request -> [Node -> Failure \union {"none"}]]
  BY TypeOfInvoked, NoNodeAssumption DEF IInv, Targets, Types, TypeOK, SubAgent
<1>2. /\ target'[r] = NoNode
      /\ failures'[r][target[r]] = why /\ why # "none"
      /\ i[2] # target[r] => failures'[r][i[2]] = failures[r][i[2]]
  BY <1>1 DEF NodeFailed, Failure
<1>3. CASE i[2] # target[r]
  BY <1>1, <1>2, <1>3 DEF TakenOverAt, Unmoved
<1>4. CASE i[2] = target[r] /\ at[i][r] = "away"
  BY <1>1, <1>2, <1>4 DEF TakenOverAt, Unmoved, Open, Inside
<1>5. CASE i[2] = target[r] /\ at[i][r] # "away"
  <2>1. pc[r] \notin Before /\ (pc[r] \in {"await", "final"} => i = Invoked(r))
    BY <1>5 DEF TakenOverAt
  <2> QED BY <1>1, <1>2, <1>5, <2>1 DEF TakenOverAt, Unmoved
<1> QED BY <1>3, <1>4, <1>5

LEMMA HandlerTakenOver ==
    ASSUME IInv, [Next]_vars, NEW r \in Request, NEW i \in SubAgent, TakenOverAt(i, r),
           HandlerStep(r), Unmoved(i, r)
    PROVE  TakenOverAt(i, r)'
<1>0. /\ pc \in [Request -> PC] /\ NoNode \notin Node /\ i[2] \in Node
      /\ target \in [Request -> Node \union {NoNode}]
      /\ failures \in [Request -> [Node -> Failure \union {"none"}]]
  BY NoNodeAssumption DEF IInv, Types, TypeOK, SubAgent
<1>1. ASSUME target'[r] = target[r], failures'[r] = failures[r], pc'[r] \notin Before \union {"await", "final"}
      PROVE  TakenOverAt(i, r)'
  BY <1>1, <1>0 DEF TakenOverAt, Unmoved
<1>2. ASSUME NEW v, Return(r, v), target' = target, failures' = failures PROVE TakenOverAt(i, r)'
  BY <1>0, <1>1, <1>2 DEF Return, Before
<1>3. ASSUME NEW l \in {"idle", "route", "chat", "resources", "select"}, Goto(r, l), target' = target,
             failures' = failures
      PROVE  TakenOverAt(i, r)'
  BY <1>0, <1>1, <1>3 DEF Goto, Before
<1>4. CASE AcquireLock(r) \/ ReleaseLock(r) \/ ClearFlag(r)
  BY <1>4 DEF AcquireLock, ReleaseLock, ClearFlag, local, TakenOverAt, Unmoved, Invoked
<1>5. CASE Begin(r)
  BY <1>5, <1>0, <1>1 DEF Begin, local, Before
<1>6. CASE SelectRoute(r) \/ MakeDirectChatAnswer(r) \/ GetClusterResources(r) \/ MakeFinalAnswer(r)
  BY <1>6, <1>2, <1>3 DEF SelectRoute, MakeDirectChatAnswer, GetClusterResources, MakeFinalAnswer
<1>7. CASE SelectTarget(r)
  <2>1. ASSUME NEW n \in Candidates(r), target' = [target EXCEPT ![r] = n], Goto(r, "invoke")
        PROVE  TakenOverAt(i, r)'
    <3>1. target[r] = NoNode /\ failures[r][n] = "none" /\ failures' = failures
      BY <1>7, <2>1 DEF SelectTarget, Candidates, IInv, Targets
    <3>2. i[2] = n => at[i][r] = "away"
      BY <1>0, <3>1 DEF TakenOverAt
    <3> QED BY <1>0, <2>1, <3>1, <3>2 DEF TakenOverAt, Unmoved, Open, Inside
  <2> QED BY <1>7, <1>2, <2>1 DEF SelectTarget
<1>8. CASE Invoke(r)
  <2>1. CASE Goto(r, "starting") /\ UNCHANGED local
    BY <1>0, <1>8, <2>1 DEF Invoke, Goto, local, TakenOverAt, Unmoved, Before
  <2>2. CASE NodeFailed(r, "image")
    BY <1>8, <2>2, FailingKeeps DEF Invoke, Before, Failure, TriesPC
  <2> QED BY <1>8, <2>1, <2>2 DEF Invoke, local
<1>9. CASE StartGivenUp(r) \/ StartFailed(r)
  BY <1>9, FailingKeeps DEF StartGivenUp, StartFailed, Before, Failure, TriesPC
<1>10. CASE Post(r)
  <2>1. CASE Goto(r, "await") /\ UNCHANGED local
    <3>1. i[2] = target[r] => at[i][r] = "away"
      BY <1>10 DEF TakenOverAt, Post, Before
    <3> QED BY <1>0, <2>1, <3>1 DEF Goto, local, TakenOverAt, Unmoved
  <2> QED BY <1>10, <2>1, FailingKeeps DEF Post, local, Before, Failure, TriesPC
<1>11. CASE SubAgentReplied(r)
  <2>1. CASE Goto(r, "final") /\ UNCHANGED local
    BY <1>0, <1>11, <2>1 DEF SubAgentReplied, Goto, local, TakenOverAt, Unmoved, Before, Invoked
  <2>2. CASE NodeFailed(r, "reply") /\ reply[Invoked(r)][r] # "answer"
    BY <1>11, <2>2, FailingKeeps DEF SubAgentReplied, Failure, TriesPC, Open, Inside
  <2> QED BY <1>11, <2>1, <2>2 DEF SubAgentReplied, local
<1>12. CASE SubAgentLost(r)
  BY <1>12, FailingKeeps DEF SubAgentLost, Failure, TriesPC, Open, Inside
<1>13. CASE SubAgentGivenUp(r)
  BY <1>13, FailingKeeps DEF SubAgentGivenUp, Failure, TriesPC
<1> QED BY <1>4, <1>5, <1>6, <1>7, <1>8, <1>9, <1>10, <1>11, <1>12, <1>13 DEF HandlerStep

LEMMA StepTakenOver == ASSUME IInv, TakenOver, [Next]_vars PROVE TakenOver'
<1> SUFFICES ASSUME NEW r \in Request, NEW i \in SubAgent PROVE TakenOverAt(i, r)'
  BY TakenOverSplit DEF TakenOver, SentOnlyByPost, TakenOverOnlyAfterTimeout, TakenOverAt
<1>0. TakenOverAt(i, r) /\ TypeOK /\ Types /\ pc[r] \in PC
  BY TakenOverSplit DEF IInv, Types, TypeOK
<1>1. CASE Unmoved(i, r)
  <2>1. CASE KeepsLocal(r)
    BY <1>0, <1>1, <2>1 DEF KeepsLocal, TakenOverAt, Unmoved, Invoked, Before
  <2>2. CASE HandlerStep(r)
    BY <1>0, <1>1, <2>2, HandlerTakenOver
  <2> QED BY <1>0, <2>1, <2>2, LocalMoves
<1>2. CASE Posted(i, r)
  <2>1. i[2] = target[r] /\ Invoked(r)' = i /\ target'[r] = target[r]
    BY <1>2 DEF Posted, Invoked, local
  <2> QED BY <1>2, <2>1 DEF Posted, TakenOverAt, Before
<1>3. CASE Worked(i, r)
  <2>1. at[i][r] # "away" /\ at[i][r] \in Open
    BY <1>3 DEF Worked, Open, Inside
  <2> QED BY <1>0, <1>3, <2>1 DEF Worked, TakenOverAt, local, Invoked
<1> QED BY <1>0, <1>1, <1>2, <1>3, SubMoves DEF SubMove

\* A node takes over work that another still does, or has done, only when post_multipart has
\* timed out on the other.
THEOREM TakeoverSafe == Spec => []TakenOverOnlyAfterTimeout
<1>1. Init => TakenOver
  BY SubAgentIsServer DEF Init, GateInit, TakenOver, SentOnlyByPost, TakenOverOnlyAfterTimeout, Open, Inside
<1>2. IInv /\ TakenOver /\ [Next]_vars => TakenOver'
  BY StepTakenOver
<1>3. TakenOver => TakenOverOnlyAfterTimeout
  BY DEF TakenOver
<1> QED BY <1>1, <1>2, <1>3, Reachable, PTL DEF Spec

-----------------------------------------------------------------------------
(* The failover loop ends: a distance to the reply that every own step of a request makes *)
(* shorter and no step of anybody makes longer.                                            *)

\* The nodes the loop may still try, and the steps left in one turn and after the last.
Fresh(r) == {n \in Node : failures[r][n] = "none"}

PlaceRank == [away |-> 16, passed |-> 15, locked |-> 14, leaving |-> 2, released |-> 1, gone |-> 0, cut |-> 0]

PCRank == [route |-> 13, resources |-> 12, select |-> 11, invoke |-> 10, starting |-> 9, notStarted |-> 8,
           post |-> 8, await |-> 7, final |-> 4, chat |-> 4]

RankOf(place, label) == IF place = "busy" THEN PCRank[label] ELSE PlaceRank[place]

Rank(r) == RankOf(Here(r), pc[r])

Distance(r) == 16 * Cardinality(Fresh(r)) + Rank(r)

LEMMA FreshNodes ==
    ASSUME NEW r \in Request
    PROVE  IsFiniteSet(Fresh(r)) /\ Cardinality(Fresh(r)) \in Nat
<1>1. Fresh(r) \in SUBSET Node
  BY DEF Fresh
<1> QED BY <1>1, NodesAssumption, FS_Subset, FS_CardinalityType

LEMMA Ranks ==
    ASSUME NEW place \in Place, NEW label \in PC, place = "busy" => label # "idle"
    PROVE  /\ RankOf(place, label) \in 0 .. 16
           /\ place = "busy" => RankOf(place, label) \in 4 .. 13
BY DEF RankOf, PCRank, PlaceRank, Place, Open, Inside, PC

\* Whoever steps, both ranks are numbers.
LEMMA StepRanks ==
    ASSUME IInv, IInv', [Next]_vars, NEW r \in Request
    PROVE  /\ Here(r) \in Place /\ Here(r)' \in Place /\ pc[r] \in PC /\ pc'[r] \in PC
           /\ Here(r) = "busy" => pc[r] # "idle"
           /\ Here(r)' = "busy" => pc'[r] # "idle"
           /\ Rank(r) \in 0 .. 16 /\ Rank(r)' \in 0 .. 16
<1>1. Here(r) \in Place /\ pc[r] \in PC /\ (Here(r) = "busy" => pc[r] # "idle")
  BY SubAgentIsServer DEF IInv, Types, TypeOK, GateTypeOK, Here, AtHome
<1>2. Here(r)' \in Place /\ pc'[r] \in PC /\ (Here(r)' = "busy" => pc'[r] # "idle")
  BY SubAgentIsServer DEF IInv, Types, TypeOK, GateTypeOK, Here, AtHome
<1> QED BY <1>1, <1>2, Ranks DEF Rank

\* With the same nodes left, the rank alone decides; with one less, no rank makes up for it.
LEMMA DistanceByRank ==
    ASSUME NEW r \in Request, failures'[r] = failures[r]
    PROVE  /\ Rank(r)' < Rank(r) /\ Rank(r) \in 0 .. 16 /\ Rank(r)' \in 0 .. 16 => Distance(r)' < Distance(r)
           /\ Rank(r)' <= Rank(r) /\ Rank(r) \in 0 .. 16 /\ Rank(r)' \in 0 .. 16 => Distance(r)' <= Distance(r)
<1>1. Fresh(r)' = Fresh(r)
  BY DEF Fresh
<1> QED BY <1>1, FreshNodes DEF Distance

LEMMA DistanceByNode ==
    ASSUME IInv, NEW r \in Request, pc[r] \in TriesPC, NEW why \in Failure, NodeFailed(r, why),
           Rank(r) \in 0 .. 16, Rank(r)' \in 0 .. 11
    PROVE  Distance(r)' < Distance(r)
<1>1. target[r] \in Fresh(r)
  BY TypeOfInvoked DEF IInv, Targets, Fresh
<1>2. Fresh(r)' = Fresh(r) \ {target[r]}
  <2>1. failures \in [Request -> [Node -> Failure \union {"none"}]] /\ why # "none"
    BY DEF IInv, Types, TypeOK, Failure
  <2>2. /\ failures'[r][target[r]] = why
        /\ \A n \in Node \ {target[r]} : failures'[r][n] = failures[r][n]
    BY <1>1, <2>1 DEF NodeFailed, Fresh
  <2> QED BY <1>1, <2>1, <2>2 DEF Fresh
<1>3. Cardinality(Fresh(r)') = Cardinality(Fresh(r)) - 1
  BY <1>1, <1>2, FreshNodes, FS_RemoveElement
<1>4. Cardinality(Fresh(r)') \in Nat
  BY <1>2, FreshNodes, FS_RemoveElement, FS_CardinalityType
<1> QED BY <1>3, <1>4, FreshNodes DEF Distance

\* Steps of others leave the nodes tried alone, and move a request at most to the end of its
\* start.
LEMMA OthersKeepDistance ==
    ASSUME IInv, IInv', [Next]_vars, NEW r \in Request, KeepsLocal(r)
    PROVE  Distance(r)' <= Distance(r)
<1>1. HomeMove(r) /\ Here(r) \in Place /\ pc[r] \in PC
  BY HomeMoves, StepRanks DEF IInv, Types
<1>2. Rank(r) \in 0 .. 16 /\ Rank(r)' \in 0 .. 16
  BY StepRanks
<1>3. Rank(r)' <= Rank(r)
  <2>1. CASE StaysHere(r) /\ (pc'[r] = "idle" <=> pc[r] = "idle")
    <3>1. CASE Here(r) = "busy"
      BY <1>2, <2>1, <3>1 DEF KeepsLocal, Rank, RankOf, StaysHere, PCRank
    <3>2. CASE Here(r) # "busy"
      BY <1>2, <2>1, <3>2 DEF Rank, RankOf, StaysHere
    <3> QED BY <3>1, <3>2
  <2>2. CASE Here(r) = "locked" /\ Here(r)' = "busy" /\ pc'[r] = "route"
    BY <2>2 DEF Rank, RankOf, PlaceRank, PCRank
  <2>3. CASE Here(r) = "busy" /\ Here(r)' = "leaving"
    <3>1. Rank(r) \in 4 .. 13
      BY <1>1, <2>3, StepRanks, Ranks DEF Rank
    <3> QED BY <2>3, <3>1 DEF Rank, RankOf, PlaceRank
  <2>4. CASE <<Here(r), Here(r)'>> \in {<<"away", "passed">>, <<"away", "gone">>, <<"passed", "locked">>,
                                       <<"leaving", "released">>, <<"released", "gone">>}
    BY <2>4 DEF Rank, RankOf, PlaceRank
  <2> QED BY <1>1, <2>1, <2>2, <2>3, <2>4 DEF HomeMove, MovesHere
<1> QED BY <1>2, <1>3, DistanceByRank DEF KeepsLocal

LEMMA OwnStepShortens ==
    ASSUME IInv, IInv', [Next]_vars, NEW r \in Request, Receive(r) \/ HandlerStep(r)
    PROVE  Distance(r)' < Distance(r)
<1>0. /\ home' = home /\ home[r] \in Server /\ HomeMove(r) /\ GateTypeOK
      /\ pc \in [Request -> PC] /\ failures \in [Request -> [Node -> Failure \union {"none"}]]
      /\ Rank(r) \in 0 .. 16 /\ Rank(r)' \in 0 .. 16
  BY ConstantsKept, HomeMoves, SubAgentIsServer, StepRanks DEF IInv, Types, TypeOK
<1>1. ASSUME UNCHANGED failures, Rank(r)' < Rank(r) PROVE Distance(r)' < Distance(r)
  BY <1>0, <1>1, DistanceByRank
<1>2. ASSUME NEW from, NEW to, <<from, to>> \in {<<"away", "passed">>, <<"away", "gone">>, <<"passed", "locked">>,
                                                 <<"leaving", "released">>, <<"released", "gone">>},
             Here(r) = from, Here(r)' = to, UNCHANGED failures
      PROVE  Distance(r)' < Distance(r)
  BY <1>1, <1>2 DEF Rank, RankOf, PlaceRank
<1>3. ASSUME NEW v \in {"answer", "error"}, Return(r, v)
      PROVE  Here(r) = "busy" /\ Rank(r)' = 2 /\ Rank(r) >= 4
  <2>1. Here(r) = "busy" /\ Here(r)' = "leaving"
    BY <1>0, <1>3 DEF Return, Leave, Move, Here, GateTypeOK
  <2>2. Rank(r) \in 4 .. 13
    BY <2>1, StepRanks, Ranks DEF Rank
  <2> QED BY <2>1, <2>2 DEF Rank, RankOf, PlaceRank
<1>4. ASSUME NEW l \in PC \ {"idle"}, Goto(r, l), UNCHANGED gate, pc[r] # "idle"
      PROVE  Rank(r) = PCRank[pc[r]] /\ Rank(r)' = PCRank[l]
  <2>1. Here(r) = "busy" /\ Here(r)' = "busy" /\ pc'[r] = l
    BY <1>0, <1>4 DEF Goto, gate, Here, IInv, AtHome
  <2> QED BY <2>1 DEF Rank, RankOf
<1>5. ASSUME NEW why \in Failure, NodeFailed(r, why), pc[r] \in TriesPC PROVE Distance(r)' < Distance(r)
  <2>1. Rank(r)' \in 0 .. 11
    <3>1. CASE Return(r, "error")
      BY <1>3, <3>1
    <3>2. CASE Goto(r, "select") /\ UNCHANGED gate
      BY <1>4, <1>5, <3>2 DEF PC, PCRank, TriesPC
    <3> QED BY <1>5, <3>1, <3>2 DEF NodeFailed
  <2> QED BY <1>0, <1>5, <2>1, DistanceByNode
<1>6. CASE Receive(r) \/ AcquireLock(r) \/ ReleaseLock(r) \/ ClearFlag(r)
  <2>1. UNCHANGED failures
    BY <1>6 DEF Receive, AcquireLock, ReleaseLock, ClearFlag, local
  <2>2. <<Here(r), Here(r)'>> \in {<<"away", "passed">>, <<"away", "gone">>, <<"passed", "locked">>,
                                   <<"leaving", "released">>, <<"released", "gone">>}
    <3>1. CASE Receive(r)
      BY <1>0, <3>1 DEF Receive, TurnAway, TurnAwayInvalid, Pass, Move, Here, GateTypeOK
    <3>2. CASE AcquireLock(r)
      BY <1>0, <3>2 DEF AcquireLock, Acquire, Move, Here, GateTypeOK
    <3>3. CASE ReleaseLock(r)
      BY <1>0, <3>3 DEF ReleaseLock, Release, Move, Here, GateTypeOK
    <3>4. CASE ClearFlag(r)
      BY <1>0, <3>4 DEF ClearFlag, LowerFlag, Move, Here, GateTypeOK
    <3> QED BY <1>6, <3>1, <3>2, <3>3, <3>4
  <2> QED BY <1>2, <2>1, <2>2
<1>7. CASE Begin(r)
  <2>1. Here(r) = "locked" /\ Here(r)' = "busy" /\ pc'[r] = "route" /\ UNCHANGED failures
    BY <1>0, <1>7 DEF Begin, RaiseFlag, Move, Here, GateTypeOK, local
  <2>2. Rank(r) = 14 /\ Rank(r)' = 13
    BY <2>1 DEF Rank, RankOf, PlaceRank, PCRank
  <2> QED BY <1>1, <2>1, <2>2
<1>8. CASE \E v \in {"answer", "error"} : Return(r, v) /\ UNCHANGED failures
  BY <1>0, <1>1, <1>3, <1>8
<1>9. ASSUME NEW l \in PC \ {"idle"}, Goto(r, l), UNCHANGED <<gate, failures>>, pc[r] # "idle",
             PCRank[l] < PCRank[pc[r]]
      PROVE  Distance(r)' < Distance(r)
  BY <1>1, <1>4, <1>9
<1>10. CASE SelectRoute(r) \/ MakeDirectChatAnswer(r)
  BY <1>8, <1>9, <1>10 DEF SelectRoute, MakeDirectChatAnswer, PC, PCRank
<1>11. CASE GetClusterResources(r) \/ SelectTarget(r) \/ MakeFinalAnswer(r)
  BY <1>8, <1>9, <1>11 DEF GetClusterResources, SelectTarget, MakeFinalAnswer, PC, PCRank
<1>12. CASE Invoke(r) \/ SubAgentReplied(r)
  BY <1>5, <1>9, <1>12 DEF Invoke, SubAgentReplied, PC, PCRank, TriesPC, Failure, local
<1>13. CASE StartGivenUp(r) \/ StartFailed(r) \/ SubAgentLost(r) \/ SubAgentGivenUp(r)
  BY <1>5, <1>13 DEF StartGivenUp, StartFailed, SubAgentLost, SubAgentGivenUp, TriesPC, Failure
<1>14. CASE Post(r)
  <2>1. CASE GateMove(Invoked(r), r) /\ Goto(r, "await") /\ UNCHANGED failures
    <3>1. pc[r] = "post" /\ Invoked(r) \in SubAgent /\ Here(r) = "busy"
      BY <1>14 DEF Post, IInv, Targets, TriesPC, AtHome
    <3>2. Here(r)' = "busy" /\ pc'[r] = "await"
      BY <1>0, <2>1, <3>1, ElsewhereIsNotHere DEF StaysHere, Goto, IInv, Types
    <3>3. Rank(r) = 8 /\ Rank(r)' = 7
      BY <3>1, <3>2 DEF Rank, RankOf, PCRank
    <3> QED BY <1>1, <2>1, <3>3
  <2> QED BY <1>5, <1>14, <2>1 DEF Post, GateMove, TriesPC, Failure, local
<1> QED BY <1>6, <1>7, <1>10, <1>11, <1>12, <1>13, <1>14 DEF HandlerStep

LEMMA DistanceIsNat == ASSUME IInv, NEW r \in Request PROVE Distance(r) \in Nat
<1>1. Here(r) \in Place /\ pc[r] \in PC /\ (Here(r) = "busy" => pc[r] # "idle")
  BY SubAgentIsServer DEF IInv, Types, TypeOK, GateTypeOK, Here, AtHome
<1> QED BY <1>1, Ranks, FreshNodes DEF Rank, Distance

\* Whatever sub-agents, starts and models do, every step a main agent makes for a request
\* brings it nearer to its reply, and no other step takes it further away: the failover loop
\* excludes a node in every turn (main_agent.py, excluded_global_ids), so it ends.
THEOREM EveryStepIsNearer ==
    Spec => /\ [](\A r \in Request : Distance(r) \in Nat)
            /\ [][\A r \in Request :
                    /\ Distance(r)' <= Distance(r)
                    /\ Receive(r) \/ HandlerStep(r) => Distance(r)' < Distance(r)]_vars
<1>1. IInv /\ IInv' /\ [Next]_vars =>
          [\A r \in Request :
            /\ Distance(r)' <= Distance(r)
            /\ Receive(r) \/ HandlerStep(r) => Distance(r)' < Distance(r)]_vars
  <2> SUFFICES ASSUME IInv, IInv', [Next]_vars, NEW r \in Request
               PROVE  /\ Distance(r)' <= Distance(r)
                      /\ Receive(r) \/ HandlerStep(r) => Distance(r)' < Distance(r)
    OBVIOUS
  <2>1. Rank(r) \in Nat /\ Rank(r)' \in Nat
    BY StepRanks
  <2>2. Distance(r) \in Int /\ Distance(r)' \in Int
    <3>1. Cardinality(Fresh(r)) \in Nat /\ Cardinality(Fresh(r)') \in Nat
      <4>1. Fresh(r)' \in SUBSET Node
        BY DEF Fresh
      <4> QED BY <4>1, FreshNodes, NodesAssumption, FS_Subset, FS_CardinalityType
    <3> QED BY <2>1, <3>1 DEF Distance
  <2>3. CASE HandlerStep(r)
    BY <2>2, <2>3, OwnStepShortens
  <2>4. CASE ~HandlerStep(r)
    <3>1. Distance(r)' <= Distance(r)
      BY <2>4, LocalMoves, OthersKeepDistance DEF IInv
    <3> QED BY <3>1, OwnStepShortens
  <2> QED BY <2>3, <2>4
<1>2. IInv => \A r \in Request : Distance(r) \in Nat
  BY DistanceIsNat
<1> QED BY <1>1, <1>2, Reachable, PTL DEF Spec

=============================================================================
