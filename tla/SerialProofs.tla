---------------------------- MODULE SerialProofs ----------------------------
(***************************************************************************)
(* A gateway that serves one call at a time, on docker daemons that answer  *)
(* in JSON, while its timer threads and the containers go on: but for one,  *)
(* the faults of the concurrent gateway do not occur.  For any number of    *)
(* task types and devices.                                                  *)
(***************************************************************************)
EXTENDS MCTaskScenarios, TaskServiceProofs

USE DEF timers, stored

\* One handler at most is inside a call.
OneCall == \A g, h \in Handler : pc[g] # "idle" /\ pc[h] # "idle" => g = h

\* Labels that only a second thread leads to: a wait for another handler's creation, and
\* a start() whose TimerCallback RemoveDevice has destroyed.
SecondThreadPC == {"waiting", "waited", "waitingOnDevice", "waitedOnDevice", "freed"}

\* The call that is served meets no other: its iterator is good, the thread it is about to
\* replace is joined, the service it is about to return is published.
Unshared(h) ==
    /\ ~call[h].dangling
    /\ pc[h] \notin SecondThreadPC
    /\ pc[h] = "spawn" => timer[at[h]] = "none"
    /\ pc[h] \in {"refresh", "answer"} => srv_infos[at[h]]

\* No creation has been cut, and no timer lacks its callback.
Orderly == abandoned = {} /\ unset = {}

\* The inductive invariant of the serial gateway.
SerialInv ==
    scenario = "serial" =>
        collector = IdleCollector /\ Orderly /\ OneCall /\ \A h \in Handler : Unshared(h)

\* A timer of the callback that a handler is replacing fires.
FiresWhileSet ==
    \E h \in Handler : pc[h] = "configure" /\ timer[at[h]] \in {"waiting", "stopping"}

-----------------------------------------------------------------------------
\* A behaviour of a scenario is one of the gateway.
LEMMA ScenarioInvariant == ScenarioSpec => []IInv
<1>1. ScenarioInit => IInv BY InitInvariant DEF ScenarioInit
<1>2. IInv /\ [ScenarioNext]_<<vars, scenario>> => IInv'
  BY NextInvariant DEF ScenarioNext
<1> QED BY <1>1, <1>2, PTL DEF ScenarioSpec

\* The serial scenario keeps to one handler, to calls that remove no device and to daemons
\* that answer in JSON.
LEMMA SerialScenario ==
    ASSUME scenario = "serial", InScenario
    PROVE  OneCall' /\ collector' = collector /\ abandoned' = {}
  BY DEF InScenario, Scenarios, OneCall

-----------------------------------------------------------------------------
(* The steps of the call *)

\* What a step of handler h keeps of the serial gateway, but for the fields of others.
Served(h) ==
    /\ alive' = alive /\ unset' \subseteq unset
    /\ Unshared(h)'
    /\ \A g \in Handler \ {h} : pc'[g] = pc[g] /\ call'[g] = call[g]
    /\ pc[h] = "idle" /\ pc'[h] = "idle" => UNCHANGED <<timer, srv_infos, at>>

\* Nobody is in a creation that a call finds: the status it reads is not Creating.
LEMMA NoCreationMet ==
    ASSUME TypeOK, Owners, Orderly, OneCall, NEW h \in Handler, at[h] \in Slot,
           pc[h] \in {"dispatch", "dispatchOnDevice"}
    PROVE  status[at[h]] # "Creating"
<1>1. SUFFICES ASSUME status[at[h]] = "Creating" PROVE FALSE
  OBVIOUS
<1>2. PICK g \in Handler : at[g] = at[h] /\ pc[g] \in CreatingPC
  BY <1>1 DEF Owners, CreatingHasOwner, Orderly
<1> QED BY <1>2 DEF OneCall, CreatingPC

\* No other thread is about to join the thread that start() stops.
LEMMA NoOtherJoin ==
    ASSUME OneCall, collector = IdleCollector, NEW h \in Handler, pc[h] = "arm", at[h] \in Slot
    PROVE  ~Joining(at[h])
<1>1. collector.pc = "idle" BY DEF IdleCollector
<1> QED BY <1>1 DEF Joining, OneCall

\* Every step of the only call in the gateway keeps it unshared, and none brings the
\* process down.
LEMMA HandlerServed ==
    ASSUME TypeOK, Owners, Orderly, OneCall, collector = IdleCollector,
           NEW h \in Handler, Unshared(h), HandlerStep(h)
    PROVE  Served(h)
<1> USE DEF Served, Unshared, SecondThreadPC, registry, slots
<1>0. /\ call \in [Handler -> Call] /\ ~call[h].dangling
      /\ pc \in [Handler -> HandlerPC] /\ at \in [Handler -> AnySlot]
      /\ srv_infos \in [Slot -> BOOLEAN] /\ timer \in [Timer -> TimerThread]
      /\ pc[h] \notin {"idle", "hotNext"} => at[h] \in Slot
  BY DEF TypeOK, Owners, HandlerAtSlot
<1>c. ~NoCall.dangling BY DEF NoCall
<1> USE <1>0, <1>c DEF Call
<1>1. CASE LookUpDevice(h)
  BY <1>1 DEF LookUpDevice, Branch, NoService, Goto, Return
<1>2. CASE CheckSupport(h)
  BY <1>2 DEF CheckSupport, Branch, NoService, Goto, Return
<1>3. CASE Dispatch(h)
  BY <1>3, NoCreationMet DEF Dispatch, Switch, Touch, Branch, NoService, Goto, Return
<1>4. CASE Wait(h)
  BY <1>4 DEF Wait
<1>5. CASE CheckWait(h)
  BY <1>5 DEF CheckWait
<1>6. CASE DispatchOnDevice(h)
  BY <1>6, NoCreationMet DEF DispatchOnDevice, Switch, Touch, Branch, NoService, Goto, Return
<1>7. CASE WaitOnDevice(h)
  BY <1>7 DEF WaitOnDevice
<1>8. CASE CheckWaitOnDevice(h)
  BY <1>8 DEF CheckWaitOnDevice
<1>9. CASE ProbeService(h)
  BY <1>9 DEF ProbeService, Touch, Branch, Goto
<1>10. CASE DropService(h)
  BY <1>10 DEF DropService, StoreServices, Touch, Goto
<1>11. CASE ResetStatus(h)
  BY <1>11 DEF ResetStatus, StoreStatus, SetStatus, Touch, Goto
<1>12. CASE RefreshTimer(h)
  BY <1>12 DEF RefreshTimer, Touch, Goto
<1>13. CASE AnswerService(h)
  BY <1>13 DEF AnswerService, Touch, Branch, Goto
<1>14. CASE TagCreating(h)
  BY <1>14 DEF TagCreating, SetStatus, Touch, Goto
<1>15. CASE ClearServices(h)
  BY <1>15 DEF ClearServices, StoreServices, Touch, Goto
<1>16. CASE CreateContainer(h)
  BY <1>16 DEF CreateContainer, Goto, Return
<1>17. CASE StartContainer(h)
  BY <1>17 DEF StartContainer, Goto
<1>18. CASE AwaitPort(h)
  BY <1>18 DEF AwaitPort, Branch, Goto
<1>19. CASE FailCreation(h)
  BY <1>19 DEF FailCreation, SetStatus, Touch, CreationFailed, Goto, Return
<1>20. CASE PublishService(h)
  BY <1>20 DEF PublishService, StoreServices, Touch, Goto
<1>21. CASE TagRunning(h)
  BY <1>21 DEF TagRunning, StoreStatus, SetStatus, Touch, Goto
<1>22. CASE ArmTimer(h)
  <2>1. pc[h] = "arm" /\ ~Joining(at[h]) BY <1>22, NoOtherJoin DEF ArmTimer
  <2> QED BY <1>22, <2>1 DEF ArmTimer, Touch, Stopped, Goto
<1>23. CASE JoinTimer(h)
  BY <1>23, SlotFacts DEF JoinTimer, Goto
<1>24. CASE SpawnTimer(h)
  BY <1>24 DEF SpawnTimer, Armed, Goto
<1>25. CASE SpawnFreedTimer(h)
  BY <1>25 DEF SpawnFreedTimer
<1>26. CASE HotNext(h)
  <2>1. call[h] \in Call
    OBVIOUS
  <2>2. CASE HotEnd(h)
    BY <1>26, <2>1, <2>2 DEF HotNext, HotEnd, Goto, Return
  <2>3. ASSUME NEW d \in call[h].todo, HotVisit(h, d) PROVE Served(h)
    BY <1>26, <2>1, <2>3 DEF HotNext, HotVisit, Goto, Return
  <2> QED BY <1>26, <2>2, <2>3 DEF HotNext
<1>27. CASE Forwarded(h)
  BY <1>27 DEF Forwarded, Return
<1>28. CASE SetTimer(h)
  BY <1>28 DEF SetTimer, Touch, Goto, OneCall
<1> QED BY <1>1, <1>2, <1>3, <1>4, <1>5, <1>6, <1>7, <1>8, <1>9, <1>10, <1>11, <1>12, <1>13,
           <1>14, <1>15, <1>16, <1>17, <1>18, <1>19, <1>20, <1>21, <1>22, <1>23, <1>24, <1>25,
           <1>26, <1>27, <1>28 DEF HandlerStep

\* A call that begins is unshared, and so is a quest that has no device to go to.
LEMMA CallServed ==
    ASSUME TypeOK, NEW h \in Handler, Unshared(h), CallStep(h)
    PROVE  Served(h)
<1> USE DEF Served, Unshared, SecondThreadPC, slots, threads
<1>1. /\ \A hot \in BOOLEAN, D \in SUBSET Device :
            ~[NoCall EXCEPT !.hot = hot, !.todo = D].dangling
      /\ call \in [Handler -> Call] /\ pc \in [Handler -> HandlerPC]
  BY DEF TypeOK, NoCall
<1>2. ASSUME NEW s, NEW l \in {"lookup", "dispatch", "hotNext"}, NEW hot \in BOOLEAN,
             Serve(h, s, l, hot)
      PROVE  Served(h)
  BY <1>1, <1>2 DEF Serve, Goto
<1>3. ASSUME NEW t \in Task, NEW d \in Device, QuestOnNode(h, t, d) PROVE Served(h)
  BY <1>2, <1>3 DEF QuestOnNode
<1>4. ASSUME NEW t \in Task, Quest(h, t) PROVE Served(h)
  <2>1. CASE UNCHANGED <<timers, slots, threads, container, alive>> BY <2>1
  <2>2. ASSUME NEW d \in ScheduleChoice, Serve(h, <<t, d>>, "dispatch", FALSE) PROVE Served(h)
    BY <1>2, <2>2
  <2> QED BY <1>4, <2>1, <2>2 DEF Quest
<1>5. ASSUME NEW t \in Task, HotStart(h, t) PROVE Served(h)
  BY <1>2, <1>5 DEF HotStart
<1> QED BY <1>3, <1>4, <1>5 DEF CallStep

\* Handlers that are not in a call have nothing to share.
LEMMA ServedKeepsInv ==
    ASSUME NEW h \in Handler, OneCall, \A g \in Handler : Unshared(g),
           pc[h] # "idle" \/ pc'[h] # "idle", Served(h), OneCall'
    PROVE  \A g \in Handler : Unshared(g)'
<1> USE DEF Served, Unshared
<1>1. ASSUME NEW g \in Handler \ {h} PROVE Unshared(g)'
  <2>1. pc[g] = "idle" /\ pc'[g] = "idle" BY <1>1 DEF OneCall
  <2> QED BY <1>1, <2>1 DEF SecondThreadPC
<1> QED BY <1>1

\* The timer threads touch neither the services nor a timer without a thread.
LEMMA TimerUnshared ==
    ASSUME TypeOK, Owners, NEW k \in Timer, TimerStep(k), ~Die, \A h \in Handler : Unshared(h)
    PROVE  (\A h \in Handler : Unshared(h)') /\ UNCHANGED <<alive, unset>>
<1>1. UNCHANGED <<pc, at, call, srv_infos, alive, unset>>
  BY DEF TimerStep, StopTimerThread, ExpireTimer, TagDeleting, RemoveContainer, TagNoExist,
         slots, threads
<1>2. \A s \in Slot : timer[s] = "none" => timer'[s] = "none"
  BY DEF TypeOK, TimerStep, StopTimerThread, ExpireTimer, TagDeleting, RemoveContainer,
         TagNoExist, Timer
<1>3. \A h \in Handler : pc[h] = "spawn" => at[h] \in Slot
  BY DEF Owners, HandlerAtSlot
<1> QED BY <1>1, <1>2, <1>3 DEF Unshared, SecondThreadPC

\* Nothing else brings the process down.
LEMMA TimerDies ==
    ASSUME Orderly, NEW k \in Timer, TimerStep(k), Die, alive
    PROVE  FiresWhileSet
<1>1. ExpireTimer(k) \/ UNCHANGED alive
  BY DEF TimerStep, StopTimerThread, TagDeleting, RemoveContainer, TagNoExist
<1>2. ExpireTimer(k)
  BY <1>1 DEF Die
<1>3. timer[k] \in {"waiting", "stopping"} /\ \E h \in Handler : pc[h] = "configure" /\ at[h] = k
  BY <1>2 DEF ExpireTimer, Orderly, Die
<1> QED BY <1>3 DEF FiresWhileSet

\* A process that dies takes its threads with it.
LEMMA DieUnshared == ASSUME Die PROVE Orderly' /\ \A h \in Handler : Unshared(h)'
  BY DEF Die, Orderly, Unshared, SecondThreadPC, NoCall

\* Registrations and containers leave the threads alone.
LEMMA EnvironmentUnshared ==
    ASSUME \A h \in Handler : Unshared(h)
    PROVE  (\/ \E d \in Device : RegisNode(d)
            \/ \E s \in Slot : BootService(s) \/ ExitContainer(s)
            \/ Restart \/ UNCHANGED vars)
           => (alive => alive') /\ UNCHANGED unset /\ \A h \in Handler : Unshared(h)'
<1>1. UNCHANGED <<pc, at, call, srv_infos, timer>> => \A h \in Handler : Unshared(h)'
  BY DEF Unshared
<1> QED BY <1>1 DEF RegisNode, BootService, ExitContainer, Restart, vars, slots, threads

-----------------------------------------------------------------------------
(* Theorems *)

\* The gateway starts without threads.
LEMMA SerialInit == ScenarioInit => SerialInv
  BY DEF ScenarioInit, Init, SerialInv, Orderly, OneCall, Unshared, SecondThreadPC, NoCall

\* What a step of the serial gateway does.
LEMMA SerialStep ==
    ASSUME IInv, SerialInv, ScenarioNext, scenario = "serial"
    PROVE  /\ Orderly' /\ \A h \in Handler : Unshared(h)'
           /\ alive /\ ~alive' => FiresWhileSet
<1>1. /\ TypeOK /\ Owners /\ Orderly /\ OneCall /\ collector = IdleCollector
      /\ \A h \in Handler : Unshared(h)
  BY DEF SerialInv, IInv
<1>2. OneCall' /\ collector' = IdleCollector /\ abandoned' = {}
  BY <1>1, SerialScenario DEF ScenarioNext
<1>3. ~CollectorStep /\ \A d \in Device : ~Disconnect(d)
  <2>1. collector.pc = "idle" /\ collector'.pc = "idle"
    BY <1>1, <1>2 DEF IdleCollector
  <2> QED BY <2>1 DEF CollectorStep, RemoveEntry, CollectorJoin, EraseEntry, DestroyEntry,
                      ForgetDevice, Disconnect
<1> DEFINE Kept ==
      unset' \subseteq unset /\ (\A g \in Handler : Unshared(g)') /\ (alive => alive')
<1>4. ASSUME NEW h \in Handler, CallStep(h) \/ HandlerStep(h) PROVE Kept
  <2>1. Served(h) BY <1>1, <1>4, CallServed, HandlerServed
  <2>2. CASE pc[h] # "idle" \/ pc'[h] # "idle"
    BY <1>1, <1>2, <2>1, <2>2, ServedKeepsInv DEF Served
  <2>3. CASE pc[h] = "idle" /\ pc'[h] = "idle"
    BY <1>1, <2>1, <2>3 DEF Served, Unshared, SecondThreadPC
  <2> QED BY <2>2, <2>3
<1>5. ASSUME NEW k \in Timer, TimerStep(k), ~Die PROVE Kept
  BY <1>1, <1>5, TimerUnshared
<1>6. ASSUME NEW k \in Timer, TimerStep(k), Die
      PROVE  Orderly' /\ (\A g \in Handler : Unshared(g)') /\ (alive /\ ~alive' => FiresWhileSet)
  BY <1>1, <1>6, TimerDies, DieUnshared
<1>7. ASSUME \/ \E d \in Device : RegisNode(d)
             \/ \E s \in Slot : BootService(s) \/ ExitContainer(s)
             \/ Restart
      PROVE  Kept
  BY <1>1, <1>7, EnvironmentUnshared
<1>8. Kept \/ \E k \in Timer : TimerStep(k) /\ Die
  BY <1>3, <1>4, <1>5, <1>7 DEF ScenarioNext, Next
<1>9. Kept => Orderly'
  BY <1>1, <1>2 DEF Orderly
<1> QED BY <1>6, <1>8, <1>9

\* Every step of the serial gateway keeps its invariant.
LEMMA SerialNext == IInv /\ SerialInv /\ [ScenarioNext]_<<vars, scenario>> => SerialInv'
<1> SUFFICES ASSUME IInv, SerialInv, [ScenarioNext]_<<vars, scenario>>, scenario' = "serial"
             PROVE  SerialInv'
  BY DEF SerialInv
<1>1. scenario = "serial" /\ UNCHANGED scenario
  BY DEF ScenarioNext
<1>2. CASE UNCHANGED <<vars, scenario>>
  <2>1. \A h \in Handler : Unshared(h)'
    BY <1>1, <1>2, EnvironmentUnshared DEF vars, SerialInv
  <2>2. UNCHANGED <<collector, pc, abandoned, unset>> BY <1>2 DEF vars, threads, slots
  <2> QED BY <1>1, <2>1, <2>2 DEF SerialInv, OneCall, Orderly
<1>3. CASE ScenarioNext
  <2>1. OneCall' /\ collector' = IdleCollector
    BY <1>1, <1>3, SerialScenario DEF ScenarioNext, SerialInv
  <2>2. Orderly' /\ \A h \in Handler : Unshared(h)'
    BY <1>1, <1>3, SerialStep
  <2> QED BY <2>1, <2>2 DEF SerialInv
<1> QED BY <1>2, <1>3

\* In the serial gateway the only call meets nothing of another.
THEOREM SerialInvariant == ScenarioSpec => []SerialInv
  BY ScenarioInvariant, SerialInit, SerialNext, PTL DEF ScenarioSpec

\* Two starts of one timer, a second join, a dangling reference and an empty callback all
\* need a second thread in the gateway: without one, and with daemons that answer in JSON,
\* the process dies only of a timer that fires while set_callback replaces its callback.
THEOREM SerialSurvives == ScenarioSpec => SerialGatewaySurvives
<1> DEFINE Survives ==
      scenario = "serial" /\ alive /\ ~alive' =>
          \E h \in Handler : pc[h] = "configure" /\ timer[at[h]] \in {"waiting", "stopping"}
<1>1. IInv /\ SerialInv /\ [ScenarioNext]_<<vars, scenario>> => [Survives]_<<vars, scenario>>
  BY SerialStep DEF FiresWhileSet
<1> QED BY <1>1, ScenarioInvariant, SerialInvariant, PTL
        DEF ScenarioSpec, SerialGatewaySurvives

\* Without a second call, and with daemons that answer in JSON, srv_infos[0] that is
\* returned to the quest is a service.
THEOREM SerialPublished == ScenarioSpec => []SerialAnswerIsPublished
<1>1. SerialInv => SerialAnswerIsPublished
  BY DEF SerialInv, SerialAnswerIsPublished, Unshared
<1> QED BY <1>1, SerialInvariant, PTL

=============================================================================
