-------------------------- MODULE DispatcherProofs --------------------------
(* The main agents implement Dispatcher step by step (its fairness is left to the  *)
(* runs).  The lock of a main agent is the abstract agent's request, the nodes     *)
(* chosen for a request are those it has asked, and a reply is an outcome once the *)
(* lock is released.                                                               *)
EXTENDS MainAgentProofs

LockHeld == \A s \in Server, r \in Request : at[s][r] \in Inside <=> lock[s] = r

\* Requests are sent to one main agent.
OneMain == \A m \in Main, r \in Request : m # home[r] => at[m][r] = "away"

LEMMA StepLockHeld == ASSUME GateTypeOK, LockHeld, GateStep PROVE LockHeld'
<1>0. Nobody \notin Request
  BY NobodyAssumption
<1>1. CASE UNCHANGED gate
  BY <1>1 DEF gate, LockHeld
<1>2. ASSUME NEW j \in SubAgent, Crash(j) PROVE LockHeld'
  BY <1>0, <1>2, SubAgentIsServer DEF LockHeld, Crash, GateTypeOK, Inside, Open
<1>3. ASSUME NEW s \in Server, NEW r \in Request, GateMove(s, r) PROVE LockHeld'
  <2> SUFFICES ASSUME NEW t \in Server, NEW q \in Request PROVE at'[t][q] \in Inside <=> lock'[t] = q
    BY DEF LockHeld
  <2>0. /\ at[t][q] \in Inside <=> lock[t] = q
        /\ at[s][r] \in Inside <=> lock[s] = r
        /\ at[s][q] \in Inside <=> lock[s] = q
    BY DEF LockHeld
  <2>1. ASSUME NEW l, at' = [at EXCEPT ![s][r] = l]
        PROVE  /\ at'[s][r] = l
               /\ t # s \/ q # r => at'[t][q] = at[t][q]
    BY <2>1 DEF GateTypeOK
  <2>2. ASSUME NEW l, lock' = [lock EXCEPT ![s] = l] PROVE lock'[s] = l /\ (t # s => lock'[t] = lock[t])
    BY <2>2 DEF GateTypeOK
  <2>3. CASE TurnAway(s, r) \/ TurnAwayInvalid(s, r) \/ Pass(s, r) \/ LowerFlag(s, r)
    BY <2>0, <2>1, <2>3 DEF TurnAway, TurnAwayInvalid, Pass, LowerFlag, Move, Inside
  <2>4. CASE RaiseFlag(s, r) \/ \E v \in {"answer", "error"} : Leave(s, r, v)
    BY <2>0, <2>1, <2>4 DEF RaiseFlag, Leave, Move, Inside
  <2>5. CASE Acquire(s, r)
    BY <1>0, <2>0, <2>1, <2>2, <2>5 DEF Acquire, Move, Inside
  <2>6. CASE Release(s, r)
    <3>1. at'[s][r] = "released" /\ lock'[s] = Nobody /\ lock[s] = r
      BY <2>0, <2>1, <2>2, <2>6 DEF Release, Move, Inside
    <3>2. (t # s \/ q # r => at'[t][q] = at[t][q]) /\ (t # s => lock'[t] = lock[t])
      BY <2>1, <2>2, <2>6 DEF Release, Move
    <3> QED BY <1>0, <2>0, <3>1, <3>2 DEF Inside
  <2> QED BY <1>3, <2>3, <2>4, <2>5, <2>6 DEF GateMove
<1> QED BY <1>1, <1>2, <1>3 DEF GateStep

-----------------------------------------------------------------------------
(* Initial states and steps *)

\* The main agents' gates, all that Dispatcher sees of the gates.
MainGatesKept ==
    \A m \in Main : lock'[m] = lock[m] /\ at'[m] = at[m] /\ reply'[m] = reply[m]

LEMMA StutterOutside ==
    ASSUME home' = home, home \in [Request -> Main], MainGatesKept,
           \A r \in Request : Asked(r)' = Asked(r)
    PROVE  UNCHANGED D!vars
<1>1. \A r \in Request : Outcome(r)' = Outcome(r)
  BY DEF MainGatesKept, Outcome
<1>2. [m \in Main |-> lock[m]]' = [m \in Main |-> lock[m]]
  BY DEF MainGatesKept
<1> QED BY <1>1, <1>2 DEF D!vars

LEMMA InitDispatches == Init => D!Init
<1> SUFFICES ASSUME Init PROVE D!Init
  OBVIOUS
<1>1. [m \in Main |-> lock[m]] = [m \in Main |-> Nobody]
  BY SubAgentIsServer DEF Init, GateInit
<1>2. \A r \in Request : Asked(r) = {}
  BY NoNodeAssumption DEF Init, Asked
<1>3. \A r \in Request : Outcome(r) = "none"
  BY SubAgentIsServer DEF Init, GateInit, Outcome
<1> QED BY <1>1, <1>2, <1>3 DEF D!Init


Replied == {"released", "gone"}

\* A step of a request at its main agent changes no other outcome, and its own only when the
\* place or the reply says so.
LEMMA OutcomeMoves ==
    ASSUME IInv, home' = home, NEW r \in Request, NEW l, at' = [at EXCEPT ![home[r]][r] = l],
           reply' = reply \/ \E v : reply' = [reply EXCEPT ![home[r]][r] = v]
    PROVE  /\ \A q \in Request \ {r} : Outcome(q)' = Outcome(q)
           /\ Outcome(r) = IF Here(r) \in Replied THEN reply[home[r]][r] ELSE "none"
           /\ Outcome(r)' = IF l \in Replied THEN reply'[home[r]][r] ELSE "none"
<1>1. /\ home \in [Request -> Main] /\ Main \subseteq Server
      /\ at \in [Server -> [Request -> Place]] /\ reply \in [Server -> [Request -> Answers]]
  BY SubAgentIsServer DEF IInv, Types, TypeOK, GateTypeOK
<1>2. at'[home[r]][r] = l
  BY <1>1
<1>3. ASSUME NEW q \in Request \ {r}
      PROVE  at'[home[q]][q] = at[home[q]][q] /\ reply'[home[q]][q] = reply[home[q]][q]
  BY <1>1
<1> QED BY <1>2, <1>3 DEF Outcome, Here, Replied

\* The steps that leave the abstract state alone: none of the locks, nodes and outcomes moves.
LEMMA Stutters ==
    ASSUME UNCHANGED lock, \A r \in Request : Asked(r)' = Asked(r) /\ Outcome(r)' = Outcome(r)
    PROVE  UNCHANGED D!vars
BY DEF D!vars

LEMMA NodesAsked ==
    ASSUME IInv
    PROVE  /\ UNCHANGED <<target, failures>> => \A q \in Request : Asked(q)' = Asked(q)
           /\ \A r \in Request, why \in Failure :
                NodeFailed(r, why) /\ pc[r] \in TriesPC => \A q \in Request : Asked(q)' = Asked(q)
<1>0. /\ target \in [Request -> Node \union {NoNode}] /\ NoNode \notin Node
      /\ failures \in [Request -> [Node -> Failure \union {"none"}]]
  BY NoNodeAssumption DEF IInv, Types, TypeOK
<1>1. UNCHANGED <<target, failures>> => \A q \in Request : Asked(q)' = Asked(q)
  BY DEF Asked
<1>2. ASSUME NEW r \in Request, NEW why \in Failure, NodeFailed(r, why), pc[r] \in TriesPC, NEW q \in Request
      PROVE  Asked(q)' = Asked(q)
  <2>1. target[r] \in Node /\ why # "none"
    BY <1>2, TypeOfInvoked DEF IInv, Targets, Failure
  <2>2. /\ target' = [target EXCEPT ![r] = NoNode]
        /\ failures' = [failures EXCEPT ![r][target[r]] = why]
    BY <1>2 DEF NodeFailed
  <2>3. CASE q # r
    <3>1. target'[q] = target[q] /\ failures'[q] = failures[q]
      BY <1>0, <2>2, <2>3
    <3> QED BY <3>1 DEF Asked
  <2>4. CASE q = r
    <3>1. /\ target'[r] = NoNode /\ failures'[r][target[r]] = why
          /\ \A n \in Node \ {target[r]} : failures'[r][n] = failures[r][n]
      BY <1>0, <2>1, <2>2
    <3>2. \A n \in Node : (failures'[r][n] # "none" \/ target'[r] = n) <=> (failures[r][n] # "none" \/ target[r] = n)
      BY <1>0, <2>1, <3>1
    <3> QED BY <2>4, <3>2 DEF Asked
  <2> QED BY <2>3, <2>4
<1> QED BY <1>1, <1>2

LEMMA ReceiveDispatches ==
    ASSUME IInv, LockHeld, OneMain, home' = home, NEW r \in Request, Receive(r)
    PROVE  D!TurnAway(r) \/ UNCHANGED D!vars
<1>0. /\ home[r] \in Main /\ \A q \in Request : Asked(q)' = Asked(q)
      /\ UNCHANGED lock /\ Main \subseteq Server
  BY NodesAsked, SubAgentIsServer DEF IInv, Types, TypeOK, Receive, local, TurnAway, TurnAwayInvalid, Pass
<1>1. CASE Pass(home[r], r)
  <2>1. \A q \in Request : Outcome(q)' = Outcome(q)
    BY <1>1, OutcomeMoves DEF Pass, Move, Here, Replied
  <2> QED BY <1>0, <2>1, Stutters
<1>2. CASE TurnAway(home[r], r) \/ TurnAwayInvalid(home[r], r)
  <2>1. PICK v \in {"refused", "invalid"} : reply' = [reply EXCEPT ![home[r]][r] = v]
    BY <1>2 DEF TurnAway, TurnAwayInvalid
  <2>2. Here(r) = "away" /\ at' = [at EXCEPT ![home[r]][r] = "gone"]
    BY <1>2 DEF TurnAway, TurnAwayInvalid, Move, Here
  <2>3. Outcome(r) = "none" /\ \A q \in Request \ {r} : Outcome(q)' = Outcome(q)
    BY <2>1, <2>2, OutcomeMoves DEF Replied
  <2>4. Outcome(r)' = v
    <3>1. reply'[home[r]][r] = v
      BY <1>0, <2>1 DEF IInv, Types, TypeOK, GateTypeOK
    <3> QED BY <2>1, <2>2, <3>1, OutcomeMoves DEF Replied
  <2>5. Asked(r) = {}
    BY <2>2, NoNodeAssumption DEF IInv, Targets, Untouched, Asked
  <2>6. \A m \in Main : lock[m] # r
    BY <1>0, <2>2 DEF LockHeld, OneMain, Here, Inside
  <2>7. [q \in Request |-> Outcome(q)]' = [[q \in Request |-> Outcome(q)] EXCEPT ![r] = v]
    BY <2>3, <2>4
  <2> QED BY <1>0, <2>1, <2>3, <2>5, <2>6, <2>7 DEF D!TurnAway, D!Serving
<1> QED BY <1>1, <1>2 DEF Receive

\* In the try block a handler only leaves it, so its request's outcome is not given yet.
LEMMA WorkStutters ==
    ASSUME IInv, home' = home, NEW r \in Request, pc[r] # "idle",
           UNCHANGED gate \/ \E v \in {"answer", "error"} : Return(r, v),
           \A q \in Request : Asked(q)' = Asked(q)
    PROVE  UNCHANGED D!vars
<1>1. CASE UNCHANGED gate
  BY <1>1, Stutters DEF gate, Outcome
<1>2. ASSUME NEW v \in {"answer", "error"}, Return(r, v) PROVE UNCHANGED D!vars
  <2>1. UNCHANGED lock
    BY <1>2 DEF Return, Leave
  <2>2. \A q \in Request : Outcome(q)' = Outcome(q)
    BY <1>2, OutcomeMoves DEF Return, Leave, Move, Here, Replied
  <2> QED BY <2>1, <2>2, Stutters
<1> QED BY <1>1, <1>2

LEMMA HandlerDispatches ==
    ASSUME IInv, LockHeld, OneMain, home' = home, NEW r \in Request, HandlerStep(r)
    PROVE  D!Next \/ UNCHANGED D!vars
<1>0. /\ home[r] \in Main /\ home \in [Request -> Main] /\ Main \subseteq Server
      /\ at \in [Server -> [Request -> Place]] /\ reply \in [Server -> [Request -> Answers]]
      /\ target \in [Request -> Node \union {NoNode}] /\ NoNode \notin Node
      /\ failures \in [Request -> [Node -> Failure \union {"none"}]]
      /\ lock \in [Server -> Request \union {Nobody}]
  BY SubAgentIsServer, NoNodeAssumption DEF IInv, Types, TypeOK, GateTypeOK
<1>1. UNCHANGED <<target, failures>> => \A q \in Request : Asked(q)' = Asked(q)
  BY NodesAsked
<1>2. ASSUME NEW why \in Failure, NodeFailed(r, why), pc[r] \in TriesPC PROVE UNCHANGED D!vars
  BY <1>2, NodesAsked, WorkStutters DEF NodeFailed, TriesPC
<1>3. CASE AcquireLock(r)
  <2>1. /\ Here(r) = "passed" /\ at' = [at EXCEPT ![home[r]][r] = "locked"]
        /\ lock[home[r]] = Nobody /\ lock' = [lock EXCEPT ![home[r]] = r] /\ reply' = reply
        /\ UNCHANGED <<target, failures>>
    BY <1>3 DEF AcquireLock, Acquire, Move, Here, local
  <2>a. Outcome(r) = "none" /\ Outcome(r)' = "none" /\ \A q \in Request \ {r} : Outcome(q)' = Outcome(q)
    BY <2>1, OutcomeMoves DEF Replied
  <2>2. Outcome(r) = "none" /\ \A q \in Request : Outcome(q)' = Outcome(q)
    BY <2>a
  <2>3. Asked(r) = {}
    BY <2>1, <1>0 DEF IInv, Targets, Untouched, Asked
  <2>4. \A m \in Main : lock[m] # r
    BY <1>0, <2>1 DEF LockHeld, OneMain, Here, Inside
  <2>5. [m \in Main |-> lock[m]]' = [[m \in Main |-> lock[m]] EXCEPT ![home[r]] = r]
    BY <1>0, <2>1
  <2>6. D!Serve(home[r], r)
    BY <1>0, <1>1, <2>1, <2>2, <2>3, <2>4, <2>5 DEF D!Serve, D!Serving
  <2> QED BY <1>0, <2>6 DEF D!Next
<1>4. CASE Begin(r)
  <2>1. \A q \in Request : Outcome(q)' = Outcome(q)
    BY <1>4, OutcomeMoves DEF Begin, RaiseFlag, Move, Here, Replied
  <2> QED BY <1>1, <1>4, <2>1, Stutters DEF Begin, RaiseFlag, local
<1>5. CASE ReleaseLock(r)
  <2>1. /\ Here(r) = "leaving" /\ at' = [at EXCEPT ![home[r]][r] = "released"]
        /\ lock' = [lock EXCEPT ![home[r]] = Nobody] /\ reply' = reply
        /\ UNCHANGED <<target, failures>>
    BY <1>5 DEF ReleaseLock, Release, Move, Here, local
  <2>2. PICK v \in {"error", "answer"} : reply[home[r]][r] = v
    BY <2>1 DEF IInv, AtHome
  <2>3. Outcome(r)' = v /\ \A q \in Request \ {r} : Outcome(q)' = Outcome(q)
    BY <2>1, <2>2, OutcomeMoves DEF Replied
  <2>4. lock[home[r]] = r
    BY <1>0, <2>1 DEF LockHeld, Here, Inside
  <2>5. [m \in Main |-> lock[m]]' = [[m \in Main |-> lock[m]] EXCEPT ![home[r]] = Nobody]
    BY <1>0, <2>1
  <2>6. [q \in Request |-> Outcome(q)]' = [[q \in Request |-> Outcome(q)] EXCEPT ![r] = v]
    BY <2>3
  <2>7. [q \in Request |-> Outcome(q)]' \in
            {[[q \in Request |-> Outcome(q)] EXCEPT ![r] = u] : u \in {"error", "answer"}}
    BY <2>6
  <2>8. [q \in Request |-> Asked(q)]' = [q \in Request |-> Asked(q)]
    BY <1>1, <2>1
  <2>9. D!Finish(home[r], r)
    BY <1>0, <2>4, <2>5, <2>7, <2>8 DEF D!Finish, D!Serving
  <2> QED BY <1>0, <2>9 DEF D!Next
<1>6. CASE ClearFlag(r)
  <2>1. /\ Here(r) = "released" /\ at' = [at EXCEPT ![home[r]][r] = "gone"]
        /\ UNCHANGED <<lock, reply, target, failures>>
    BY <1>6 DEF ClearFlag, LowerFlag, Move, Here, local
  <2>2. \A q \in Request : Outcome(q)' = Outcome(q)
    BY <2>1, OutcomeMoves DEF Replied
  <2> QED BY <1>1, <2>1, <2>2, Stutters
<1>7. CASE SelectRoute(r) \/ MakeDirectChatAnswer(r) \/ GetClusterResources(r) \/ MakeFinalAnswer(r)
  BY <1>1, <1>7, WorkStutters DEF SelectRoute, MakeDirectChatAnswer, GetClusterResources, MakeFinalAnswer
<1>8. CASE SelectTarget(r)
  <2>1. CASE \E v \in {"answer", "error"} : Return(r, v) /\ UNCHANGED <<target, failures>>
    BY <1>1, <1>8, <2>1, WorkStutters DEF SelectTarget
  <2>2. ASSUME NEW n \in Candidates(r), target' = [target EXCEPT ![r] = n], UNCHANGED <<gate, failures>>
        PROVE  D!Next
    <3>1. n \in Node /\ failures[r][n] = "none" /\ target[r] = NoNode /\ lock[home[r]] = r
      BY <1>0, <1>8, <2>2 DEF SelectTarget, Candidates, IInv, Targets, Types, TypeOK, AtHome, Here, LockHeld, Inside
    <3>2. n \notin Asked(r) /\ Asked(r)' = Asked(r) \union {n}
      BY <1>0, <2>2, <3>1 DEF Asked
    <3>3. \A q \in Request \ {r} : Asked(q)' = Asked(q)
      BY <1>0, <2>2 DEF Asked
    <3>4. [q \in Request |-> Asked(q)]' = [[q \in Request |-> Asked(q)] EXCEPT ![r] = @ \union {n}]
      BY <3>2, <3>3
    <3>5. \A q \in Request : Outcome(q)' = Outcome(q)
      BY <2>2 DEF gate, Outcome
    <3>6. D!Ask(home[r], r, n)
      BY <1>0, <2>2, <3>1, <3>2, <3>4, <3>5 DEF D!Ask, D!Serving, gate
    <3> QED BY <1>0, <3>1, <3>6 DEF D!Next
  <2> QED BY <1>8, <2>1, <2>2 DEF SelectTarget
<1>9. CASE Invoke(r) \/ SubAgentReplied(r)
  BY <1>1, <1>2, <1>9, WorkStutters DEF Invoke, SubAgentReplied, Failure, TriesPC, local
<1>10. CASE StartGivenUp(r) \/ StartFailed(r) \/ SubAgentLost(r) \/ SubAgentGivenUp(r)
  BY <1>2, <1>10 DEF StartGivenUp, StartFailed, SubAgentLost, SubAgentGivenUp, Failure, TriesPC
<1>11. CASE Post(r)
  <2>1. CASE /\ Invoked(r) \in SubAgent /\ UNCHANGED local
             /\ TurnAway(Invoked(r), r) \/ Pass(Invoked(r), r)
    <3>1. MainGatesKept
      BY <1>0, <2>1, SubAgentIsServer DEF MainGatesKept, TurnAway, Pass, Move
    <3> QED BY <1>0, <1>1, <2>1, <3>1, StutterOutside DEF local
  <2>2. Invoked(r) \in SubAgent
    BY <1>11 DEF Post, IInv, Targets, TriesPC
  <2> QED BY <1>2, <1>11, <2>1, <2>2 DEF Post, Failure, TriesPC, local
<1> QED BY <1>3, <1>4, <1>5, <1>6, <1>7, <1>8, <1>9, <1>10, <1>11 DEF HandlerStep

LEMMA OthersDispatch ==
    ASSUME IInv, home' = home, NEW i \in SubAgent, SubAgentStep(i) \/ TimerStep(i)
    PROVE  UNCHANGED D!vars
<1>0. /\ home \in [Request -> Main] /\ Main \subseteq Server /\ i \notin Main
      /\ at \in [Server -> [Request -> Place]] /\ reply \in [Server -> [Request -> Answers]]
      /\ lock \in [Server -> Request \union {Nobody}]
  BY SubAgentIsServer DEF IInv, Types, TypeOK, GateTypeOK
<1>1. UNCHANGED <<target, failures>>
  BY DEF SubAgentStep, TimerStep, CrashSubAgent, RunSubAgent, Started, StartSubAgent, StartSubAgentFails,
       ExpireTimer, RemoveContainer, EraseTimer, local
<1>2. CASE UNCHANGED gate
  BY <1>2 , <1>0, <1>1, NodesAsked, StutterOutside DEF gate, MainGatesKept
<1>3. CASE Crash(i)
  <2>1. MainGatesKept
    BY <1>0, <1>3 DEF Crash, MainGatesKept
  <2> QED BY <1>0, <1>1, <2>1, NodesAsked, StutterOutside
<1>4. ASSUME NEW r \in Request, RunSubAgent(i, r) PROVE UNCHANGED D!vars
  <2>1. MainGatesKept
    BY <1>0, <1>4 DEF RunSubAgent, Acquire, RaiseFlag, Leave, Release, LowerFlag, Move, MainGatesKept
  <2> QED BY <1>0, <1>1, <2>1, NodesAsked, StutterOutside
<1> QED BY <1>2, <1>3, <1>4 DEF SubAgentStep, TimerStep, CrashSubAgent, Started, StartSubAgent, StartSubAgentFails,
         ExpireTimer, RemoveContainer, EraseTimer

LEMMA StepDispatches ==
    ASSUME IInv, LockHeld, OneMain, [Next]_vars PROVE [D!Next]_D!vars
<1>1. home' = home
  BY ConstantsKept
<1>2. CASE UNCHANGED vars \/ Tick
  <2>1. UNCHANGED <<gate, target, failures>>
    BY <1>2 DEF vars, Tick, local
  <2> QED BY <1>1, <2>1, NodesAsked, StutterOutside DEF IInv, Types, TypeOK, gate, MainGatesKept
<1>3. ASSUME NEW r \in Request, Receive(r) \/ HandlerStep(r) PROVE D!Next \/ UNCHANGED D!vars
  BY <1>1, <1>3, ReceiveDispatches, HandlerDispatches DEF D!Next
<1>4. ASSUME NEW i \in SubAgent, SubAgentStep(i) \/ TimerStep(i) PROVE UNCHANGED D!vars
  BY <1>1, <1>4, OthersDispatch
<1> QED BY <1>2, <1>3, <1>4 DEF Next

-----------------------------------------------------------------------------
(* The theorems *)

LEMMA StepOneMain == ASSUME TypeOK, OneMain, [Next]_vars PROVE OneMain'
<1>0. /\ GateTypeOK /\ Main \subseteq Server /\ SubAgent \subseteq Server /\ up \subseteq SubAgent
      /\ Main \cap SubAgent = {} /\ home' = home /\ home \in [Request -> Main]
  BY ConstantsKept, SubAgentIsServer DEF TypeOK
<1> SUFFICES ASSUME NEW m \in Main, NEW q \in Request, m # home[q] PROVE Unmoved(m, q)
  BY <1>0 DEF OneMain, Unmoved
<1>1. ASSUME UNCHANGED gate PROVE Unmoved(m, q)
  BY <1>1 DEF gate, Unmoved
<1>2. ASSUME NEW r \in Request, GateMove(home[r], r) PROVE Unmoved(m, q)
  BY <1>0, <1>2, GateMoveLeavesOthers
<1>3. ASSUME NEW i \in SubAgent, Crash(i) \/ \E r \in Request : GateMove(i, r) PROVE Unmoved(m, q)
  <2>1. m # i
    BY <1>0
  <2>2. CASE Crash(i)
    BY <1>0, <2>1, <2>2 DEF Crash, GateTypeOK, Unmoved
  <2> QED BY <1>0, <1>3, <2>1, <2>2, GateMoveLeavesOthers
<1>4. CASE UNCHANGED vars \/ Tick
  BY <1>1, <1>4 DEF vars, Tick
<1>5. ASSUME NEW r \in Request, Receive(r) \/ HandlerStep(r) PROVE Unmoved(m, q)
  <2>1. ASSUME NEW v \in {"answer", "error"}, Return(r, v) PROVE Unmoved(m, q)
    BY <2>1, <1>2 DEF Return, GateMove
  <2>2. ASSUME NEW why, NodeFailed(r, why) PROVE Unmoved(m, q)
    BY <2>1, <2>2, <1>1 DEF NodeFailed
  <2>3. CASE Receive(r) \/ AcquireLock(r) \/ Begin(r) \/ ReleaseLock(r) \/ ClearFlag(r)
    BY <2>3, <1>2 DEF Receive, AcquireLock, Begin, ReleaseLock, ClearFlag, GateMove
  <2>4. CASE SelectRoute(r) \/ MakeDirectChatAnswer(r) \/ GetClusterResources(r) \/ SelectTarget(r) \/ MakeFinalAnswer(r)
    BY <2>4, <1>1, <2>1 DEF SelectRoute, MakeDirectChatAnswer, GetClusterResources, SelectTarget, MakeFinalAnswer
  <2>5. CASE Invoke(r) \/ StartGivenUp(r) \/ StartFailed(r) \/ SubAgentReplied(r) \/ SubAgentLost(r) \/ SubAgentGivenUp(r)
    BY <2>5, <1>1, <2>2 DEF Invoke, StartGivenUp, StartFailed, SubAgentReplied, SubAgentLost, SubAgentGivenUp
  <2>6. CASE Post(r)
    BY <2>6, <1>0, <1>3, <2>2 DEF Post, GateMove
  <2> QED BY <1>5, <2>3, <2>4, <2>5, <2>6 DEF HandlerStep
<1>6. ASSUME NEW i \in SubAgent, SubAgentStep(i) \/ TimerStep(i) PROVE Unmoved(m, q)
  BY <1>6, <1>1, <1>3 DEF SubAgentStep, TimerStep, CrashSubAgent, RunSubAgent, GateMove, Started, StartSubAgent,
       StartSubAgentFails, ExpireTimer, RemoveContainer, EraseTimer
<1> QED BY <1>4, <1>5, <1>6 DEF Next

\* An agent's lock is held by the request that is inside, and by nobody when none is.
THEOREM LockIsHeld == Spec => []LockHeld
<1>1. Init => LockHeld
  BY NobodyAssumption DEF Init, GateInit, LockHeld, Inside
<1>2. IInv /\ LockHeld /\ [Next]_vars => LockHeld'
  BY StepLockHeld, StepsOfGates DEF IInv, Types, TypeOK
<1> QED BY <1>1, <1>2, Reachable, PTL DEF Spec

\* The main agents implement the safety part of Dispatcher.
THEOREM MainAgentsDispatch == Spec => D!Init /\ [][D!Next]_D!vars
<1>1. Init => OneMain
  BY SubAgentIsServer DEF Init, GateInit, OneMain
<1>2. IInv /\ OneMain /\ [Next]_vars => OneMain'
  BY StepOneMain DEF IInv, Types
<1>3. IInv /\ LockHeld /\ OneMain /\ [Next]_vars => [D!Next]_D!vars
  BY StepDispatches
<1> QED BY <1>1, <1>2, <1>3, InitDispatches, LockIsHeld, Reachable, PTL DEF Spec

=============================================================================
