------------------------- MODULE TaskServiceProofs -------------------------
(* Theorems about TaskService, for any number of handlers, tasks and devices. *)
EXTENDS TaskService, TLAPS

\* The pairs of a variable of the code and the note the model keeps beside it.
USE DEF timers, stored

\* Where a handler stands: on a slot, or between two devices of HotStartAllNodeByTType.
HandlerAtSlot ==
    \A h \in Handler :
        /\ pc[h] = "hotNext" => at[h] \in Task \X (Device \union {NoDevice})
        /\ pc[h] \notin {"idle", "hotNext"} => at[h] \in Slot

\* RemoveDevice works on a device, and on a slot between its stop() and the destructor.
CollectorAtSlot ==
    /\ collector.pc # "idle" => collector.dev \in Device
    /\ collector.pc \in {"join", "erase", "destroy"} => collector.slot \in Slot

\* The handler that starts a thread does so on an entry of tdMap.
SpawnHasEntry ==
    \A h \in Handler : pc[h] = "spawn" => at[h] \in entries

Owners ==
    /\ HandlerAtSlot /\ CollectorAtSlot /\ SpawnHasEntry
    /\ CreatingHasOwner /\ DeletingHasOwner /\ RunningIsTimed
    /\ TimerHasEntry /\ StoppingIsJoined

\* The inductive invariant.
IInv == TypeOK /\ Owners

-----------------------------------------------------------------------------
(* Types *)

\* Every <<task, device>> of the registry is a slot, and the special names are not.
LEMMA SlotFacts ==
    /\ Slot \subseteq AnySlot /\ NoSlot \in AnySlot
    /\ Slot \subseteq Timer /\ Unlinked \in Timer /\ Unlinked \notin Slot
  BY NoSlotAssumption DEF Slot, AnySlot, Timer

\* The locals of an idle handler are well typed, and so are the ends of the poll count.
LEMMA NoCallType == NoCall \in Call /\ 0 \in 0..WaitTicks /\ WaitTicks \in 0..WaitTicks
  BY WaitAssumption DEF NoCall, Call

\* The assignments the code makes to the locals of a call keep their type.
LEMMA CallUpdate ==
    ASSUME NEW c \in Call
    PROVE  /\ \A n \in 0..WaitTicks : [c EXCEPT !.ticks = n] \in Call
           /\ [c EXCEPT !.ticks = IF @ = 0 THEN 0 ELSE @ - 1] \in Call
           /\ \A b \in BOOLEAN : [c EXCEPT !.kept = b] \in Call
           /\ \A b \in BOOLEAN : [c EXCEPT !.dangling = b] \in Call
           /\ \A D \in SUBSET Device : [c EXCEPT !.todo = D, !.dangling = FALSE] \in Call
           /\ c.todo \subseteq Device
           /\ c.hot \in BOOLEAN
<1>1. c.ticks \in 0..WaitTicks /\ c.todo \subseteq Device /\ c.hot \in BOOLEAN
  BY DEF Call
<1>2. (IF c.ticks = 0 THEN 0 ELSE c.ticks - 1) \in 0..WaitTicks
  BY <1>1, WaitAssumption
<1>3. \A n \in 0..WaitTicks : [c EXCEPT !.ticks = n] \in Call
  BY DEF Call
<1>4. /\ \A b \in BOOLEAN : [c EXCEPT !.kept = b] \in Call
      /\ \A b \in BOOLEAN : [c EXCEPT !.dangling = b] \in Call
  BY DEF Call
<1>5. \A D \in SUBSET Device : [c EXCEPT !.todo = D, !.dangling = FALSE] \in Call
  BY DEF Call
<1> QED BY <1>1, <1>2, <1>3, <1>4, <1>5

\* A gateway that goes down leaves a well-typed (empty) state behind.
LEMMA DieType == ASSUME TypeOK, Die PROVE TypeOK'
<1> USE SlotFacts, ConfiguredAssumption, NoCallType
<1>2. IdleCollector \in Collector BY DEF IdleCollector, Collector
<1>3. Configured \subseteq Slot BY DEF Slot
<1> QED BY <1>2, <1>3 DEF TypeOK, Die, HandlerPC, Status, TimerThread

\* The switch over dev_srv_info_status keeps the types, in both variants of the call.
LEMMA SwitchType ==
    ASSUME TypeOK, NEW h \in Handler, at[h] \in Slot,
           NEW l \in {"waiting", "waitingOnDevice"}, Switch(h, l)
    PROVE  TypeOK'
<1> USE SlotFacts, NoCallType DEF registry, slots
<1>0. call \in [Handler -> Call] /\ call[h] \in Call BY DEF TypeOK
<1>1. CASE call' = [call EXCEPT ![h].ticks = WaitTicks]
  <2>1. call' \in [Handler -> Call] BY <1>0, <1>1, CallUpdate
  <2> QED BY <2>1 DEF TypeOK, Switch, Touch, Branch, NoService, Goto, Return, HandlerPC
<1>2. CASE call' # [call EXCEPT ![h].ticks = WaitTicks]
  BY <1>2 DEF TypeOK, Switch, Touch, Branch, NoService, Goto, Return, HandlerPC
<1> QED BY <1>1, <1>2

\* No step of a handler thread breaks a type.
LEMMA HandlerType ==
    ASSUME TypeOK, HandlerAtSlot, NEW h \in Handler, HandlerStep(h)
    PROVE  TypeOK'
<1> USE SlotFacts, DieType, NoCallType DEF registry, slots
<1>0. call \in [Handler -> Call] /\ call[h] \in Call BY DEF TypeOK
<1>1. CASE LookUpDevice(h)
  BY <1>1 DEF TypeOK, HandlerAtSlot, LookUpDevice, Branch, NoService, Goto, Return, HandlerPC
<1>2. CASE CheckSupport(h)
  BY <1>2 DEF TypeOK, HandlerAtSlot, CheckSupport, Branch, NoService, Goto, Return, HandlerPC
<1>3. CASE Dispatch(h)
  BY <1>3, SwitchType DEF Dispatch, HandlerAtSlot
<1>4. CASE Wait(h)
  <2>1. CASE call' = [call EXCEPT ![h].ticks = IF @ = 0 THEN 0 ELSE @ - 1]
    <3>1. call' \in [Handler -> Call] BY <1>0, <2>1, CallUpdate
    <3> QED BY <1>4, <3>1 DEF TypeOK, HandlerAtSlot, Wait, WaitLoop, Touch, Branch, Goto,
        HandlerPC
  <2>2. CASE UNCHANGED call
    BY <1>4, <2>2 DEF TypeOK, HandlerAtSlot, Wait, WaitLoop, Touch, Branch, Goto, HandlerPC
  <2> QED BY <1>4, <2>1, <2>2 DEF Wait, WaitLoop, Branch
<1>5. CASE CheckWait(h)
  <2>1. \/ call' = [call EXCEPT ![h] = NoCall]
        \/ call' = [call EXCEPT ![h].ticks = 0]
    BY <1>5 DEF CheckWait, AfterWait, NoService, Return
  <2>2. [call[h] EXCEPT !.ticks = 0] \in Call
    BY <1>0, CallUpdate
  <2>3. call' \in [Handler -> Call]
    BY <1>0, <2>1, <2>2
  <2> QED BY <1>5, <2>3 DEF TypeOK, HandlerAtSlot, CheckWait, AfterWait, Touch, NoService,
      Goto, Return, HandlerPC
<1>6. CASE DispatchOnDevice(h)
  BY <1>6, SwitchType DEF DispatchOnDevice, HandlerAtSlot
<1>7. CASE WaitOnDevice(h)
  <2>1. CASE call' = [call EXCEPT ![h].ticks = IF @ = 0 THEN 0 ELSE @ - 1]
    <3>1. call' \in [Handler -> Call] BY <1>0, <2>1, CallUpdate
    <3> QED BY <1>7, <3>1 DEF TypeOK, HandlerAtSlot, WaitOnDevice, WaitLoop, Touch, Branch,
        Goto, HandlerPC
  <2>2. CASE UNCHANGED call
    BY <1>7, <2>2 DEF TypeOK, HandlerAtSlot, WaitOnDevice, WaitLoop, Touch, Branch, Goto,
        HandlerPC
  <2> QED BY <1>7, <2>1, <2>2 DEF WaitOnDevice, WaitLoop, Branch
<1>8. CASE CheckWaitOnDevice(h)
  <2>1. \/ call' = [call EXCEPT ![h] = NoCall]
        \/ call' = [call EXCEPT ![h].ticks = 0]
    BY <1>8 DEF CheckWaitOnDevice, AfterWait, NoService, Return
  <2>2. [call[h] EXCEPT !.ticks = 0] \in Call
    BY <1>0, CallUpdate
  <2>3. call' \in [Handler -> Call]
    BY <1>0, <2>1, <2>2
  <2> QED BY <1>8, <2>3 DEF TypeOK, HandlerAtSlot, CheckWaitOnDevice, AfterWait, Touch,
      NoService, Goto, Return, HandlerPC
<1>9. CASE ProbeService(h)
  BY <1>9 DEF TypeOK, HandlerAtSlot, ProbeService, Touch, Branch, Goto, HandlerPC
<1>10. CASE DropService(h)
  BY <1>10 DEF TypeOK, HandlerAtSlot, DropService, StoreServices, Touch, Goto, HandlerPC
<1>11. CASE ResetStatus(h)
  BY <1>11 DEF TypeOK, HandlerAtSlot, ResetStatus, StoreStatus, SetStatus, Touch, Goto,
      Status, HandlerPC
<1>12. CASE RefreshTimer(h)
  <2>1. \E b \in BOOLEAN : call' = [call EXCEPT ![h].kept = b]
    BY <1>12 DEF RefreshTimer
  <2>2. call' \in [Handler -> Call]
    BY <1>0, <2>1, CallUpdate
  <2> QED BY <1>12, <2>2 DEF TypeOK, HandlerAtSlot, RefreshTimer, Touch, Goto, HandlerPC
<1>13. CASE AnswerService(h)
  BY <1>13 DEF TypeOK, HandlerAtSlot, AnswerService, Touch, Branch, Goto, HandlerPC
<1>14. CASE TagCreating(h)
  BY <1>14 DEF TypeOK, HandlerAtSlot, TagCreating, SetStatus, Touch, Goto, Status, HandlerPC
<1>15. CASE ClearServices(h)
  BY <1>15 DEF TypeOK, HandlerAtSlot, ClearServices, StoreServices, Touch, Goto, HandlerPC
<1>16. CASE CreateContainer(h)
  BY <1>16 DEF TypeOK, HandlerAtSlot, CreateContainer, Goto, Return, ContainerState, HandlerPC
<1>17. CASE StartContainer(h)
  BY <1>17 DEF TypeOK, HandlerAtSlot, StartContainer, Goto, ContainerState, HandlerPC
<1>18. CASE AwaitPort(h)
  BY <1>18 DEF TypeOK, HandlerAtSlot, AwaitPort, Branch, Goto, HandlerPC
<1>19. CASE FailCreation(h)
  BY <1>19 DEF TypeOK, HandlerAtSlot, FailCreation, SetStatus, Touch, CreationFailed, Goto,
      Return, Status, HandlerPC
<1>20. CASE PublishService(h)
  BY <1>20 DEF TypeOK, HandlerAtSlot, PublishService, StoreServices, Touch, Goto, HandlerPC
<1>21. CASE TagRunning(h)
  BY <1>21 DEF TypeOK, HandlerAtSlot, TagRunning, StoreStatus, SetStatus, Touch, Goto,
      Status, HandlerPC
<1>22. CASE ArmTimer(h)
  BY <1>22 DEF TypeOK, HandlerAtSlot, ArmTimer, Touch, Stopped, Goto, Return, TimerThread,
      HandlerPC
<1>23. CASE JoinTimer(h)
  BY <1>23 DEF TypeOK, HandlerAtSlot, JoinTimer, Goto, TimerThread, HandlerPC
<1>24. CASE SpawnTimer(h)
  <2>1. ~Die => call' \in [Handler -> Call]
    BY <1>0, <1>24, CallUpdate DEF SpawnTimer, Armed, Goto
  <2> QED BY <1>24, <2>1 DEF TypeOK, HandlerAtSlot, SpawnTimer, Armed, Goto, TimerThread,
      HandlerPC
<1>25. CASE SpawnFreedTimer(h)
  <2>1. ~Die => call' \in [Handler -> Call]
    BY <1>0, <1>25, CallUpdate DEF SpawnFreedTimer, Armed, Goto
  <2> QED BY <1>25, <2>1 DEF TypeOK, HandlerAtSlot, SpawnFreedTimer, Armed, Goto, HandlerPC
<1>26. CASE HotNext(h)
  <2>1. CASE HotEnd(h)
    BY <2>1 DEF TypeOK, HotEnd, Return, HandlerPC
  <2>2. ASSUME NEW d \in call[h].todo, HotVisit(h, d)
        PROVE  TypeOK'
    <3>1. d \in Device /\ call' \in [Handler -> Call]
      BY <1>0, <2>2, CallUpdate DEF HotVisit
    <3>2. <<at[h][1], d>> \in Slot
      BY <1>26, <3>1 DEF HotNext, HandlerAtSlot, Slot
    <3> QED BY <2>2, <3>1, <3>2 DEF TypeOK, HotVisit, Goto, HandlerPC
  <2> QED BY <1>26, <2>1, <2>2 DEF HotNext
<1>27. CASE Forwarded(h)
  BY <1>27 DEF TypeOK, HandlerAtSlot, Forwarded, Return, HandlerPC
<1>28. CASE SetTimer(h)
  BY <1>28 DEF TypeOK, HandlerAtSlot, SetTimer, Touch, Goto, HandlerPC
<1> QED BY <1>1, <1>2, <1>3, <1>4, <1>5, <1>6, <1>7, <1>8, <1>9, <1>10, <1>11, <1>12, <1>13,
    <1>14, <1>15, <1>16, <1>17, <1>18, <1>19, <1>20, <1>21, <1>22, <1>23, <1>24, <1>25,
    <1>26, <1>27, <1>28 DEF HandlerStep

\* No arrival of an API call breaks a type.
LEMMA CallType ==
    ASSUME TypeOK, NEW h \in Handler, CallStep(h)
    PROVE  TypeOK'
<1> USE SlotFacts, NoCallType DEF registry, slots
<1>1. ASSUME NEW s \in AnySlot, NEW l \in HandlerPC, NEW hot \in BOOLEAN, Serve(h, s, l, hot)
      PROVE  /\ pc' \in [Handler -> HandlerPC] /\ at' \in [Handler -> AnySlot]
             /\ call' \in [Handler -> Call]
             /\ UNCHANGED <<timers, slots, collector, container, alive>>
  <2>1. [NoCall EXCEPT !.hot = hot, !.todo = IF hot THEN Device ELSE {}] \in Call
    BY WaitAssumption DEF NoCall, Call
  <2> QED BY <1>1, <2>1 DEF TypeOK, Serve, Goto
<1>2. ASSUME NEW t \in Task, NEW d \in Device, QuestOnNode(h, t, d)
      PROVE  TypeOK'
  <2>1. <<t, d>> \in AnySlot /\ "lookup" \in HandlerPC BY DEF AnySlot, HandlerPC
  <2> QED BY <1>1, <1>2, <2>1 DEF TypeOK, QuestOnNode
<1>3. ASSUME NEW t \in Task, Quest(h, t)
      PROVE  TypeOK'
  <2>1. PICK d \in ScheduleChoice :
          /\ tgt_dev' = d
          /\ IF d = NoDevice
             THEN pc[h] = "idle" /\ UNCHANGED <<timers, slots, threads, container, alive>>
             ELSE Serve(h, <<t, d>>, "dispatch", FALSE)
    BY <1>3 DEF Quest
  <2>2. d \in Device \union {NoDevice} BY DEF ScheduleChoice, TypeOK
  <2>3. <<t, d>> \in AnySlot /\ "dispatch" \in HandlerPC BY <2>2 DEF AnySlot, HandlerPC
  <2>4. UNCHANGED <<device_static_info, static_info, tasks>> BY <1>3 DEF Quest
  <2>5. CASE d = NoDevice
    BY <2>1, <2>2, <2>4, <2>5 DEF TypeOK, threads
  <2>6. CASE d # NoDevice
    BY <1>1, <2>1, <2>2, <2>3, <2>4, <2>6 DEF TypeOK
  <2> QED BY <2>5, <2>6
<1>4. ASSUME NEW t \in Task, HotStart(h, t)
      PROVE  TypeOK'
  <2>1. <<t, NoDevice>> \in AnySlot /\ "hotNext" \in HandlerPC BY DEF AnySlot, HandlerPC
  <2> QED BY <1>1, <1>4, <2>1 DEF TypeOK, HotStart
<1> QED BY <1>2, <1>3, <1>4 DEF CallStep

\* No step of a timer thread breaks a type.
LEMMA TimerType ==
    ASSUME TypeOK, CollectorAtSlot, TimerHasEntry, NEW k \in Timer, TimerStep(k)
    PROVE  TypeOK'
<1> USE SlotFacts DEF registry, slots, threads
<1>1. timer[k] # "none" => SlotOf(k) \in Slot
  BY DEF SlotOf, Timer, TimerHasEntry, CollectorAtSlot
<1>2. CASE StopTimerThread(k) BY <1>2 DEF StopTimerThread, TypeOK, TimerThread
<1>3. CASE ExpireTimer(k) BY <1>3, DieType DEF ExpireTimer, TypeOK, TimerThread
<1>4. CASE TagDeleting(k)
  BY <1>1, <1>4 DEF TagDeleting, SetStatus, Touch, TypeOK, TimerThread, Status
<1>5. CASE RemoveContainer(k)
  BY <1>1, <1>5 DEF RemoveContainer, TypeOK, TimerThread, ContainerState
<1>6. CASE TagNoExist(k)
  BY <1>1, <1>6 DEF TagNoExist, SetStatus, Touch, TypeOK, TimerThread, Status
<1> QED BY <1>2, <1>3, <1>4, <1>5, <1>6 DEF TimerStep

\* The assignments RemoveDevice makes to its locals keep their type.
LEMMA CollectorUpdate ==
    ASSUME NEW c \in Collector
    PROVE  /\ \A l \in {"idle", "next", "join", "erase", "destroy"} :
                [c EXCEPT !.pc = l] \in Collector
           /\ \A T \in SUBSET Task : [c EXCEPT !.todo = T] \in Collector
           /\ \A l \in {"idle", "next", "join", "erase", "destroy"}, s \in AnySlot :
                [c EXCEPT !.pc = l, !.slot = s] \in Collector
           /\ \A l \in {"idle", "next", "join", "erase", "destroy"}, s \in AnySlot,
                T \in SUBSET Task :
                [c EXCEPT !.slot = s, !.todo = T, !.pc = l] \in Collector
           /\ c.todo \subseteq Task
  BY DEF Collector

\* No step of RemoveDevice breaks a type.
LEMMA CollectorType ==
    ASSUME TypeOK, CollectorAtSlot, CollectorStep
    PROVE  TypeOK'
<1> USE SlotFacts DEF registry, slots, threads
<1>0. collector \in Collector /\ collector.todo \subseteq Task
  BY CollectorUpdate DEF TypeOK
<1>1. CASE RemoveEntry
  <2>1. PICK t \in collector.todo :
          LET s == <<t, collector.dev>> IN
          \/ /\ s \notin entries
             /\ collector' = [collector EXCEPT !.todo = @ \ {t}]
             /\ UNCHANGED <<registry, timers, slots, pc, at, call, container, alive>>
          \/ s \in entries /\ (timer[s] = "none" \/ ~Joining(s)) /\ StopForRemoval(s)
          \/ s \in entries /\ timer[s] # "none" /\ Joining(s) /\ Die
    BY <1>1 DEF RemoveEntry
  <2> DEFINE s == <<t, collector.dev>>
  <2>2. s \in Slot BY <1>0, <1>1 DEF RemoveEntry, CollectorAtSlot, Slot
  <2>3. CASE StopForRemoval(s)
    <3>1. collector' \in Collector BY <1>0, <2>2, <2>3, CollectorUpdate DEF StopForRemoval
    <3> QED BY <2>2, <2>3, <3>1 DEF TypeOK, StopForRemoval, Stopped, TimerThread
  <2>4. CASE collector' = [collector EXCEPT !.todo = @ \ {t}]
               /\ UNCHANGED <<registry, timers, slots, pc, at, call, container, alive>>
    <3>1. collector' \in Collector BY <1>0, <2>4, CollectorUpdate
    <3> QED BY <2>4, <3>1 DEF TypeOK
  <2> QED BY <2>1, <2>3, <2>4, DieType
<1>2. CASE CollectorJoin
  <2>1. collector' \in Collector BY <1>0, <1>2, CollectorUpdate DEF CollectorJoin
  <2> QED BY <1>2, <2>1 DEF TypeOK, CollectorJoin, TimerThread
<1>3. CASE EraseEntry
  <2>0. CASE ~Die
    <3>1. collector' \in Collector BY <1>0, <1>3, <2>0, CollectorUpdate DEF EraseEntry
    <3>2. call' \in [Handler -> Call]
      <4>1. \A h \in Handler : call[h] \in Call BY DEF TypeOK
      <4>2. \A h \in Handler : [call[h] EXCEPT !.dangling = call[h].hot] \in Call
        BY <4>1, CallUpdate
      <4> QED BY <1>3, <2>0, <4>1, <4>2 DEF EraseEntry
    <3>3. pc' \in [Handler -> HandlerPC] BY <1>3, <2>0 DEF EraseEntry, TypeOK, HandlerPC
    <3>4. collector.slot \in Slot BY <1>3 DEF EraseEntry, CollectorAtSlot
    <3>5. timer' \in [Timer -> TimerThread]
      BY <1>3, <2>0, <3>4 DEF EraseEntry, TypeOK, TimerThread, Stopped
    <3>6. /\ entries' \subseteq Slot /\ status' \in [Slot -> Status]
          /\ srv_infos' \in [Slot -> BOOLEAN]
          /\ abandoned' \subseteq Slot
      BY <1>3, <2>0, <3>4 DEF EraseEntry, TypeOK, Status
    <3>8. unset' \subseteq {collector.slot, Unlinked} \union unset
      BY <1>3, <2>0 DEF EraseEntry
    <3>9. unset' \subseteq Timer
      BY <3>4, <3>8 DEF TypeOK
    <3>7. UNCHANGED <<registry, at, container, alive>> BY <1>3, <2>0 DEF EraseEntry
    <3> QED BY <3>1, <3>2, <3>3, <3>5, <3>6, <3>7, <3>9 DEF TypeOK
  <2> QED BY <2>0, DieType
<1>4. CASE DestroyEntry
  <2>1. collector' \in Collector BY <1>0, <1>4, CollectorUpdate DEF DestroyEntry
  <2> QED BY <1>4, <2>1 DEF TypeOK, DestroyEntry, TimerThread
<1>5. CASE ForgetDevice
  <2>1. collector' \in Collector BY <1>5 DEF ForgetDevice, IdleCollector, Collector
  <2> QED BY <1>5, <2>1 DEF TypeOK, ForgetDevice
<1> QED BY <1>1, <1>2, <1>3, <1>4, <1>5 DEF CollectorStep

\* Registrations, restarts and the containers' own changes break no type.
LEMMA EnvironmentType ==
    ASSUME TypeOK
    PROVE  /\ \A d \in Device : RegisNode(d) \/ Disconnect(d) => TypeOK'
           /\ \A s \in Slot : BootService(s) \/ ExitContainer(s) => TypeOK'
           /\ Restart \/ UNCHANGED vars => TypeOK'
<1> USE SlotFacts DEF registry, slots, threads
<1>1. ASSUME NEW d \in Device, RegisNode(d) PROVE TypeOK'
  BY <1>1 DEF TypeOK, RegisNode, Slot
<1>2. ASSUME NEW d \in Device, Disconnect(d) PROVE TypeOK'
  <2>1. collector' \in Collector BY <1>2 DEF Disconnect, Collector
  <2> QED BY <1>2, <2>1 DEF TypeOK, Disconnect
<1>3. ASSUME NEW s \in Slot, BootService(s) \/ ExitContainer(s) PROVE TypeOK'
  BY <1>3 DEF TypeOK, BootService, ExitContainer, ContainerState
<1>4. CASE Restart BY <1>4 DEF TypeOK, Restart
<1>5. CASE UNCHANGED vars BY <1>5 DEF TypeOK, vars
<1> QED BY <1>1, <1>2, <1>3, <1>4, <1>5

-----------------------------------------------------------------------------
(* The invariants *)

\* With the process its transient statuses and timer threads are gone.
LEMMA DieOwners == ASSUME Die PROVE Owners'
  BY DEF Die, Owners, HandlerAtSlot, CollectorAtSlot, SpawnHasEntry, CreatingHasOwner,
         DeletingHasOwner, RunningIsTimed, TimerHasEntry, StoppingIsJoined, IdleCollector,
             Timer

\* Handler h moves between two labels that no invariant but HandlerAtSlot speaks of, or
\* within a creation, and nothing else changes but entries, which may grow.
QuietMove(h) ==
    /\ UNCHANGED <<stored, timer, collector>>
    /\ entries \subseteq entries'
    /\ \A g \in Handler \ {h} : pc'[g] = pc[g] /\ at'[g] = at[g]
    /\ pc[h] \notin ArmingPC /\ pc'[h] \notin {"join", "spawn"}
    /\ pc[h] \in CreatingPC => pc'[h] \in CreatingPC /\ at'[h] = at[h]
    /\ pc'[h] = "hotNext" => at'[h] \in Task \X (Device \union {NoDevice})
    /\ pc'[h] \notin {"idle", "hotNext"} => at'[h] \in Slot

\* A handler that neither stores the status nor works on the timer, and neither leaves
\* nor enters the labels that own them, takes nothing away from the owners.
LEMMA QuietMoveOwners ==
    ASSUME TypeOK, Owners, NEW h \in Handler, QuietMove(h)
    PROVE  Owners'
<1> USE DEF Owners, QuietMove
<1>1. HandlerAtSlot' BY DEF HandlerAtSlot
<1>2. CollectorAtSlot' BY DEF CollectorAtSlot
<1>3. SpawnHasEntry' BY DEF SpawnHasEntry
<1>4. CreatingHasOwner' BY DEF CreatingHasOwner
<1>5. DeletingHasOwner' BY DEF DeletingHasOwner, SlotOf
<1>6. RunningIsTimed' BY DEF RunningIsTimed
<1>7. TimerHasEntry' BY DEF TimerHasEntry
<1>8. StoppingIsJoined'
  BY DEF StoppingIsJoined, Joining, ArmingPC
<1> QED BY <1>1, <1>2, <1>3, <1>4, <1>5, <1>6, <1>7, <1>8

QuietStep(h) ==
    \/ LookUpDevice(h) \/ CheckSupport(h)
    \/ Dispatch(h) \/ Wait(h) \/ CheckWait(h)
    \/ DispatchOnDevice(h) \/ WaitOnDevice(h) \/ CheckWaitOnDevice(h)
    \/ ProbeService(h) \/ DropService(h) \/ RefreshTimer(h) \/ AnswerService(h)
    \/ ClearServices(h) \/ StartContainer(h) \/ AwaitPort(h)
    \/ PublishService(h) \/ SpawnFreedTimer(h) \/ HotNext(h) \/ Forwarded(h)

\* The lookups, polls, probes and docker calls are such moves.
LEMMA QuietSteps ==
    ASSUME TypeOK, HandlerAtSlot, NEW h \in Handler, QuietStep(h), ~Die
    PROVE  QuietMove(h)
<1> USE DEF HandlerAtSlot, TypeOK, slots, registry
<1>1. ASSUME LookUpDevice(h) PROVE QuietMove(h)
  BY <1>1 DEF LookUpDevice, Branch, NoService, Goto, Return, QuietMove, CreatingPC, ArmingPC
<1>2. ASSUME CheckSupport(h) PROVE QuietMove(h)
  BY <1>2 DEF CheckSupport, Branch, NoService, Goto, Return, QuietMove, CreatingPC, ArmingPC
<1>3. ASSUME Dispatch(h) PROVE QuietMove(h)
  BY <1>3 DEF Dispatch, Switch, Touch, Branch, NoService, Goto, Return, QuietMove,
      CreatingPC, ArmingPC
<1>4. ASSUME Wait(h) PROVE QuietMove(h)
  BY <1>4 DEF Wait, WaitLoop, Touch, Branch, Goto, QuietMove, CreatingPC, ArmingPC
<1>5. ASSUME CheckWait(h) PROVE QuietMove(h)
  BY <1>5 DEF CheckWait, AfterWait, Touch, NoService, Goto, Return, QuietMove, CreatingPC,
      ArmingPC
<1>6. ASSUME DispatchOnDevice(h) PROVE QuietMove(h)
  BY <1>6 DEF DispatchOnDevice, Switch, Touch, Branch, NoService, Goto, Return, QuietMove,
      CreatingPC, ArmingPC
<1>7. ASSUME WaitOnDevice(h) PROVE QuietMove(h)
  BY <1>7 DEF WaitOnDevice, WaitLoop, Touch, Branch, Goto, QuietMove, CreatingPC, ArmingPC
<1>8. ASSUME CheckWaitOnDevice(h) PROVE QuietMove(h)
  BY <1>8 DEF CheckWaitOnDevice, AfterWait, Touch, NoService, Goto, Return, QuietMove,
      CreatingPC, ArmingPC
<1>9. ASSUME ProbeService(h) PROVE QuietMove(h)
  BY <1>9 DEF ProbeService, Touch, Branch, Goto, QuietMove, CreatingPC, ArmingPC
<1>10. ASSUME DropService(h) PROVE QuietMove(h)
  BY <1>10 DEF DropService, StoreServices, Touch, Goto, QuietMove, CreatingPC, ArmingPC
<1>11. ASSUME RefreshTimer(h) PROVE QuietMove(h)
  BY <1>11 DEF RefreshTimer, Touch, Goto, QuietMove, CreatingPC, ArmingPC
<1>12. ASSUME AnswerService(h), ~Die PROVE QuietMove(h)
  BY <1>12 DEF AnswerService, Touch, Branch, Goto, QuietMove, CreatingPC, ArmingPC
<1>13. ASSUME ClearServices(h) PROVE QuietMove(h)
  BY <1>13 DEF ClearServices, StoreServices, Touch, Goto, QuietMove, CreatingPC, ArmingPC
<1>14. ASSUME StartContainer(h) PROVE QuietMove(h)
  BY <1>14 DEF StartContainer, Goto, QuietMove, CreatingPC, ArmingPC
<1>15. ASSUME AwaitPort(h) PROVE QuietMove(h)
  BY <1>15 DEF AwaitPort, Branch, Goto, QuietMove, CreatingPC, ArmingPC
<1>16. ASSUME PublishService(h) PROVE QuietMove(h)
  BY <1>16 DEF PublishService, StoreServices, Touch, Goto, QuietMove, CreatingPC, ArmingPC
<1>17. ASSUME SpawnFreedTimer(h), ~Die PROVE QuietMove(h)
  BY <1>17 DEF SpawnFreedTimer, Armed, Goto, QuietMove, Slot, CreatingPC, ArmingPC
<1>18. ASSUME HotNext(h), ~Die PROVE QuietMove(h)
  BY <1>18 DEF HotNext, HotVisit, HotEnd, Goto, Return, QuietMove, CreatingPC, ArmingPC
<1>19. ASSUME Forwarded(h) PROVE QuietMove(h)
  BY <1>19 DEF Forwarded, Return, QuietMove, CreatingPC, ArmingPC
<1> QED BY <1>1, <1>2, <1>3, <1>4, <1>5, <1>6, <1>7, <1>8, <1>9, <1>10, <1>11, <1>12, <1>13,
           <1>14, <1>15, <1>16, <1>17, <1>18, <1>19 DEF QuietStep

LEMMA QuietHandlerStep ==
    ASSUME TypeOK, Owners, NEW h \in Handler, QuietStep(h)
    PROVE  Owners'
BY QuietSteps, QuietMoveOwners, DieOwners DEF Owners

\* So is the arrival of a call.
LEMMA CallStepOwners ==
    ASSUME TypeOK, Owners, NEW h \in Handler, CallStep(h)
    PROVE  Owners'
<1> USE DEF TypeOK, registry, slots, threads
<1>1. ASSUME NEW t \in Task, NEW d \in Device, QuestOnNode(h, t, d) PROVE QuietMove(h)
  BY <1>1 DEF QuestOnNode, Serve, Goto, QuietMove, CreatingPC, ArmingPC, Slot
<1>2. ASSUME NEW t \in Task, Quest(h, t) PROVE QuietMove(h) \/ Owners'
  <2>1. CASE UNCHANGED <<timers, slots, threads>>
    BY <2>1 DEF Owners, HandlerAtSlot, CollectorAtSlot, SpawnHasEntry, CreatingHasOwner,
       DeletingHasOwner, RunningIsTimed, TimerHasEntry, StoppingIsJoined, SlotOf, Joining
  <2>2. ASSUME NEW d \in ScheduleChoice \ {NoDevice}, Serve(h, <<t, d>>, "dispatch", FALSE)
        PROVE  QuietMove(h)
    BY <2>2 DEF ScheduleChoice, Serve, Goto, QuietMove, CreatingPC, ArmingPC, Slot
  <2> QED BY <1>2, <2>1, <2>2 DEF Quest
<1>3. ASSUME NEW t \in Task, HotStart(h, t) PROVE QuietMove(h)
  BY <1>3 DEF HotStart, Serve, Goto, QuietMove, CreatingPC, ArmingPC
<1> HIDE DEF TypeOK
<1> QED BY <1>1, <1>2, <1>3, QuietMoveOwners DEF CallStep

\* The handler steps that store or give up the status, or work on the timer.
LEMMA OwnerHandlerStep ==
    ASSUME TypeOK, Owners, NEW h \in Handler
    PROVE  (\/ ResetStatus(h) \/ TagCreating(h) \/ FailCreation(h) \/ TagRunning(h)
            \/ CreateContainer(h) \/ SetTimer(h) \/ ArmTimer(h) \/ JoinTimer(h)
            \/ SpawnTimer(h))
           => Owners'
<1> USE SlotFacts DEF Owners, TypeOK, HandlerAtSlot, registry, slots
<1>1. ASSUME ResetStatus(h) PROVE Owners'
  <2> USE <1>1 DEF ResetStatus, StoreStatus, SetStatus, Touch, Goto
  <2>1. HandlerAtSlot' /\ CollectorAtSlot' /\ SpawnHasEntry' /\ TimerHasEntry' /\
      StoppingIsJoined'
    BY DEF Slot, HandlerAtSlot, CollectorAtSlot, SpawnHasEntry, TimerHasEntry, Joining,
      StoppingIsJoined
  <2>2. CreatingHasOwner' BY DEF CreatingPC, CreatingHasOwner
  <2>3. DeletingHasOwner' BY DEF SlotOf, DeletingHasOwner
  <2>4. RunningIsTimed' BY DEF ArmingPC, Joining, RunningIsTimed
  <2> QED BY <2>1, <2>2, <2>3, <2>4
<1>2. ASSUME TagCreating(h) PROVE Owners'
  <2> USE <1>2 DEF TagCreating, SetStatus, Touch, Goto
  <2>1. HandlerAtSlot' /\ CollectorAtSlot' /\ SpawnHasEntry' /\ TimerHasEntry' /\
      StoppingIsJoined'
    BY DEF Slot, HandlerAtSlot, CollectorAtSlot, SpawnHasEntry, TimerHasEntry, Joining,
      StoppingIsJoined
  <2>2. CreatingHasOwner' BY DEF CreatingPC, CreatingHasOwner
  <2>3. DeletingHasOwner' BY DEF SlotOf, DeletingHasOwner
  <2>4. RunningIsTimed' BY DEF ArmingPC, Joining, RunningIsTimed
  <2> QED BY <2>1, <2>2, <2>3, <2>4
<1>3. ASSUME FailCreation(h) PROVE Owners'
  <2> USE <1>3 DEF FailCreation, SetStatus, Touch, CreationFailed, Goto, Return
  <2>1. CollectorAtSlot' /\ SpawnHasEntry' /\ TimerHasEntry' /\ StoppingIsJoined'
    BY DEF CollectorAtSlot, SpawnHasEntry, TimerHasEntry, Joining, StoppingIsJoined
  <2>2. HandlerAtSlot' BY DEF Slot, HandlerAtSlot
  <2>3. CreatingHasOwner' BY DEF CreatingPC, CreatingHasOwner
  <2>4. DeletingHasOwner' BY DEF SlotOf, DeletingHasOwner
  <2>5. RunningIsTimed' BY DEF ArmingPC, Joining, RunningIsTimed
  <2> QED BY <2>1, <2>2, <2>3, <2>4, <2>5
<1>4. ASSUME TagRunning(h) PROVE Owners'
  <2> USE <1>4 DEF TagRunning, StoreStatus, SetStatus, Touch, Goto
  <2>1. HandlerAtSlot' /\ CollectorAtSlot' /\ SpawnHasEntry' /\ TimerHasEntry' /\
      StoppingIsJoined'
    BY DEF Slot, HandlerAtSlot, CollectorAtSlot, SpawnHasEntry, TimerHasEntry, Joining,
      StoppingIsJoined
  <2>2. CreatingHasOwner' BY DEF CreatingPC, CreatingHasOwner
  <2>3. DeletingHasOwner' BY DEF SlotOf, DeletingHasOwner
  <2>4. RunningIsTimed' BY DEF ArmingPC, Joining, RunningIsTimed
  <2> QED BY <2>1, <2>2, <2>3, <2>4
<1>5. ASSUME ArmTimer(h), ~Die PROVE Owners'
  <2> USE <1>5 DEF ArmTimer, Touch, Stopped, Goto, Return
  <2>1. HandlerAtSlot' BY SMTT(30) DEF Slot, HandlerAtSlot
  <2>7. CollectorAtSlot' BY DEF CollectorAtSlot
  <2>8. CreatingHasOwner' BY SMTT(30) DEF CreatingPC, CreatingHasOwner
  <2>2. SpawnHasEntry' BY DEF SpawnHasEntry, TimerHasEntry
  <2>3. DeletingHasOwner' BY DEF SlotOf, DeletingHasOwner
  <2>4. RunningIsTimed' BY DEF ArmingPC, Joining, RunningIsTimed
  <2>5. TimerHasEntry' BY DEF SpawnHasEntry, TimerHasEntry
  <2>6. StoppingIsJoined' BY DEF Joining, StoppingIsJoined
  <2> QED BY <2>1, <2>2, <2>3, <2>4, <2>5, <2>6, <2>7, <2>8
<1>6. ASSUME JoinTimer(h) PROVE Owners'
  <2> USE <1>6 DEF JoinTimer, Goto
  <2>1. HandlerAtSlot' /\ CollectorAtSlot' /\ CreatingHasOwner'
    BY DEF Slot, HandlerAtSlot, CollectorAtSlot, CreatingPC, CreatingHasOwner
  <2>2. SpawnHasEntry' BY DEF SpawnHasEntry, TimerHasEntry
  <2>3. DeletingHasOwner' BY DEF SlotOf, DeletingHasOwner
  <2>4. RunningIsTimed' BY DEF ArmingPC, Joining, RunningIsTimed
  <2>5. TimerHasEntry' BY DEF SpawnHasEntry, TimerHasEntry
  <2>6. StoppingIsJoined' BY DEF Joining, StoppingIsJoined
  <2> QED BY <2>1, <2>2, <2>3, <2>4, <2>5, <2>6
<1>7. ASSUME SpawnTimer(h), ~Die PROVE Owners'
  <2> USE <1>7 DEF SpawnTimer, Armed, Goto
  <2>1. CollectorAtSlot' /\ SpawnHasEntry' /\ CreatingHasOwner'
    BY DEF CollectorAtSlot, SpawnHasEntry, TimerHasEntry, CreatingPC, CreatingHasOwner
  <2>2. HandlerAtSlot' BY DEF Slot, HandlerAtSlot
  <2>3. DeletingHasOwner' BY DEF SlotOf, DeletingHasOwner
  <2>4. RunningIsTimed' BY DEF ArmingPC, Joining, RunningIsTimed
  <2>5. TimerHasEntry' BY DEF SpawnHasEntry, TimerHasEntry
  <2>6. StoppingIsJoined' BY DEF Joining, StoppingIsJoined
  <2> QED BY <2>1, <2>2, <2>3, <2>4, <2>5, <2>6
<1>8. ASSUME CreateContainer(h) PROVE Owners'
  <2> USE <1>8 DEF CreateContainer, Goto, Return
  <2>1. CollectorAtSlot' /\ SpawnHasEntry' /\ TimerHasEntry' /\ StoppingIsJoined'
    BY DEF CollectorAtSlot, SpawnHasEntry, TimerHasEntry, Joining, StoppingIsJoined
  <2>2. HandlerAtSlot' BY DEF Slot, HandlerAtSlot
  <2>3. CreatingHasOwner' BY DEF CreatingPC, CreatingHasOwner
  <2>4. DeletingHasOwner' BY DEF SlotOf, DeletingHasOwner
  <2>5. RunningIsTimed' BY DEF ArmingPC, Joining, RunningIsTimed
  <2> QED BY <2>1, <2>2, <2>3, <2>4, <2>5
<1>9. ASSUME SetTimer(h), ~Die PROVE Owners'
  <2> USE <1>9 DEF SetTimer, Touch, Goto
  <2>1. CollectorAtSlot' /\ SpawnHasEntry' /\ TimerHasEntry' /\ StoppingIsJoined'
    BY DEF CollectorAtSlot, SpawnHasEntry, TimerHasEntry, Joining, StoppingIsJoined
  <2>2. HandlerAtSlot' BY DEF Slot, HandlerAtSlot
  <2>3. CreatingHasOwner' BY DEF CreatingPC, CreatingHasOwner
  <2>4. DeletingHasOwner' BY DEF SlotOf, DeletingHasOwner
  <2>5. RunningIsTimed' BY DEF ArmingPC, RunningIsTimed
  <2> QED BY <2>1, <2>2, <2>3, <2>4, <2>5
<1> HIDE DEF Owners
<1> QED BY DieOwners, <1>1, <1>2, <1>3, <1>4, <1>5, <1>6, <1>7, <1>8, <1>9

\* inactiveTimeCallback stores Deleting and NoExist while its own thread is the owner.
LEMMA TimerStepOwners ==
    ASSUME TypeOK, Owners, NEW k \in Timer, TimerStep(k)
    PROVE  Owners'
<1> USE SlotFacts DEF Owners, TypeOK, registry, slots, threads
<1>0. timer[k] # "none" => SlotOf(k) \in Slot
  BY DEF SlotOf, Timer, TimerHasEntry, CollectorAtSlot
<1>1. ASSUME StopTimerThread(k) PROVE Owners'
  <2> USE <1>1 DEF StopTimerThread
  <2>1. HandlerAtSlot' /\ CollectorAtSlot' /\ SpawnHasEntry' /\ CreatingHasOwner' /\
      DeletingHasOwner'
    BY <1>0 DEF HandlerAtSlot, CollectorAtSlot, SpawnHasEntry, TimerHasEntry,
      CreatingHasOwner, SlotOf, Timer, DeletingHasOwner
  <2>2. RunningIsTimed' BY <1>0 DEF ArmingPC, Joining, SlotOf, StoppingIsJoined,
      TimerHasEntry, RunningIsTimed
  <2>3. TimerHasEntry' BY <1>0 DEF SlotOf, TimerHasEntry
  <2>4. StoppingIsJoined' BY <1>0 DEF Joining, StoppingIsJoined
  <2> QED BY <2>1, <2>2, <2>3, <2>4
<1>2. ASSUME ExpireTimer(k), ~Die PROVE Owners'
  <2> USE <1>2 DEF ExpireTimer
  <2>1. HandlerAtSlot' /\ CollectorAtSlot' /\ SpawnHasEntry' /\ CreatingHasOwner'
    BY <1>0 DEF HandlerAtSlot, CollectorAtSlot, SpawnHasEntry, TimerHasEntry,
      CreatingHasOwner
  <2>2. DeletingHasOwner' BY <1>0 DEF SlotOf, Timer, TimerHasEntry, DeletingHasOwner
  <2>3. RunningIsTimed' BY <1>0 DEF ArmingPC, Joining, SlotOf, StoppingIsJoined,
      TimerHasEntry, RunningIsTimed
  <2>4. TimerHasEntry' BY <1>0 DEF SlotOf, TimerHasEntry
  <2>5. StoppingIsJoined' BY <1>0 DEF Joining, StoppingIsJoined
  <2> QED BY <2>1, <2>2, <2>3, <2>4, <2>5
<1>3. ASSUME TagDeleting(k) PROVE Owners'
  <2> USE <1>3 DEF TagDeleting, SetStatus, Touch
  <2>1. HandlerAtSlot' /\ CollectorAtSlot' /\ SpawnHasEntry' /\ StoppingIsJoined'
    BY <1>0 DEF HandlerAtSlot, CollectorAtSlot, SpawnHasEntry, TimerHasEntry, Joining,
      StoppingIsJoined
  <2>2. CreatingHasOwner' BY <1>0 DEF CreatingHasOwner
  <2>3. DeletingHasOwner' BY <1>0 DEF SlotOf, Timer, TimerHasEntry, DeletingHasOwner
  <2>4. RunningIsTimed' BY <1>0 DEF ArmingPC, Joining, SlotOf, StoppingIsJoined,
      TimerHasEntry, RunningIsTimed
  <2>5. TimerHasEntry' BY <1>0 DEF SlotOf, TimerHasEntry
  <2> QED BY <2>1, <2>2, <2>3, <2>4, <2>5
<1>4. ASSUME RemoveContainer(k) PROVE Owners'
  <2> USE <1>4 DEF RemoveContainer
  <2>1. HandlerAtSlot' /\ CollectorAtSlot' /\ SpawnHasEntry' /\ CreatingHasOwner' /\
      RunningIsTimed' /\ StoppingIsJoined'
    BY <1>0 DEF HandlerAtSlot, CollectorAtSlot, SpawnHasEntry, TimerHasEntry,
      CreatingHasOwner, ArmingPC, Joining, SlotOf, StoppingIsJoined, RunningIsTimed
  <2>2. DeletingHasOwner' BY <1>0 DEF SlotOf, Timer, TimerHasEntry, DeletingHasOwner
  <2>3. TimerHasEntry' BY <1>0 DEF SlotOf, TimerHasEntry
  <2> QED BY <2>1, <2>2, <2>3
<1>5. ASSUME TagNoExist(k) PROVE Owners'
  <2> USE <1>5 DEF TagNoExist, SetStatus, Touch
  <2>1. HandlerAtSlot' /\ CollectorAtSlot' /\ SpawnHasEntry' /\ StoppingIsJoined'
    BY <1>0 DEF HandlerAtSlot, CollectorAtSlot, SpawnHasEntry, TimerHasEntry, Joining,
      StoppingIsJoined
  <2>2. CreatingHasOwner' BY <1>0 DEF CreatingHasOwner
  <2>3. DeletingHasOwner' BY <1>0 DEF SlotOf, Timer, TimerHasEntry, DeletingHasOwner
  <2>4. RunningIsTimed' BY <1>0 DEF ArmingPC, Joining, SlotOf, StoppingIsJoined,
      TimerHasEntry, RunningIsTimed
  <2>5. TimerHasEntry' BY <1>0 DEF SlotOf, TimerHasEntry
  <2> QED BY <2>1, <2>2, <2>3, <2>4, <2>5
<1> HIDE DEF Owners
<1> QED BY DieOwners, <1>1, <1>2, <1>3, <1>4, <1>5 DEF TimerStep

\* RemoveDevice erases an entry only after its thread is joined or handed to the
\* destructor.
LEMMA CollectorStepOwners ==
    ASSUME TypeOK, Owners, CollectorStep
    PROVE  Owners'
<1> USE SlotFacts DEF Owners, TypeOK, registry, slots, threads
<1>0. collector.todo \subseteq Task /\ collector \in Collector
  BY CollectorUpdate
<1> USE DEF Collector
<1>1. ASSUME NEW s \in Slot, s = <<s[1], collector.dev>>, collector.pc = "next",
             ~Joining(s) \/ timer[s] = "none", StopForRemoval(s)
      PROVE  Owners'
  <2> USE <1>1 DEF StopForRemoval, Stopped
  <2>1. HandlerAtSlot' /\ SpawnHasEntry' /\ CreatingHasOwner' /\ TimerHasEntry'
    BY DEF HandlerAtSlot, SpawnHasEntry, TimerHasEntry, CreatingHasOwner, SlotOf
  <2>2. CollectorAtSlot' BY DEF CollectorAtSlot
  <2>3. DeletingHasOwner' BY DEF SlotOf, Timer, TimerHasEntry, DeletingHasOwner
  <2>4. RunningIsTimed' BY DEF ArmingPC, Joining, SlotOf, StoppingIsJoined, TimerHasEntry,
      RunningIsTimed
  <2>5. StoppingIsJoined' BY DEF Joining, StoppingIsJoined
  <2> QED BY <2>1, <2>2, <2>3, <2>4, <2>5
<1>2. CASE RemoveEntry
  <2>1. PICK t \in collector.todo :
          LET s == <<t, collector.dev>> IN
          \/ /\ s \notin entries
             /\ collector' = [collector EXCEPT !.todo = @ \ {t}]
             /\ UNCHANGED <<registry, timers, slots, pc, at, call, container, alive>>
          \/ s \in entries /\ (timer[s] = "none" \/ ~Joining(s)) /\ StopForRemoval(s)
          \/ s \in entries /\ timer[s] # "none" /\ Joining(s) /\ Die
    BY <1>2 DEF RemoveEntry
  <2>2. CASE collector' = [collector EXCEPT !.todo = @ \ {t}] 
               /\ UNCHANGED <<slots, timer, pc, at>>
    <3>1. /\ collector'.pc = collector.pc /\ collector'.slot = collector.slot
          /\ collector'.dev = collector.dev
      BY <1>0, <2>2
    <3> QED BY <2>2, <3>1 DEF HandlerAtSlot, CollectorAtSlot, SpawnHasEntry, CreatingHasOwner,
       DeletingHasOwner, RunningIsTimed, TimerHasEntry, StoppingIsJoined, SlotOf, Joining
  <2>3. <<t, collector.dev>> \in Slot /\ collector.pc = "next"
    BY <1>0, <1>2 DEF RemoveEntry, CollectorAtSlot, Slot
  <2> HIDE DEF Owners
  <2> QED BY <1>1, <2>1, <2>2, <2>3, DieOwners
<1>3. ASSUME CollectorJoin PROVE Owners'
  <2> USE <1>3 DEF CollectorJoin
  <2>1. HandlerAtSlot' /\ SpawnHasEntry' /\ CreatingHasOwner'
    BY DEF HandlerAtSlot, SpawnHasEntry, TimerHasEntry, CreatingHasOwner
  <2>2. CollectorAtSlot' BY DEF CollectorAtSlot
  <2>3. DeletingHasOwner' BY DEF SlotOf, Timer, TimerHasEntry, DeletingHasOwner
  <2>4. RunningIsTimed' BY DEF ArmingPC, Joining, SlotOf, StoppingIsJoined, TimerHasEntry,
      RunningIsTimed
  <2>5. TimerHasEntry' BY DEF SlotOf, TimerHasEntry
  <2>6. StoppingIsJoined' BY DEF Joining, StoppingIsJoined
  <2> QED BY <2>1, <2>2, <2>3, <2>4, <2>5, <2>6
<1>4. ASSUME EraseEntry, ~Die PROVE Owners'
  <2> USE <1>4 DEF EraseEntry, Stopped
  <2>1. HandlerAtSlot' BY DEF HandlerAtSlot
  <2>2. CollectorAtSlot' BY DEF CollectorAtSlot
  <2>3. SpawnHasEntry' BY DEF SpawnHasEntry, TimerHasEntry
  <2>4. CreatingHasOwner' BY DEF CreatingHasOwner
  <2>5. DeletingHasOwner' BY DEF SlotOf, Timer, TimerHasEntry, DeletingHasOwner
  <2>6. RunningIsTimed' BY DEF ArmingPC, Joining, SlotOf, StoppingIsJoined, TimerHasEntry,
      RunningIsTimed
  <2>7. TimerHasEntry' BY DEF SlotOf, TimerHasEntry
  <2>8. StoppingIsJoined' BY DEF Joining, StoppingIsJoined
  <2> QED BY <2>1, <2>2, <2>3, <2>4, <2>5, <2>6, <2>7, <2>8
<1>5. ASSUME DestroyEntry PROVE Owners'
  <2> USE <1>5 DEF DestroyEntry
  <2>1. HandlerAtSlot' /\ SpawnHasEntry' /\ CreatingHasOwner' /\ RunningIsTimed'
    BY DEF HandlerAtSlot, SpawnHasEntry, TimerHasEntry, CreatingHasOwner, ArmingPC, Joining,
      SlotOf, StoppingIsJoined, RunningIsTimed
  <2>2. CollectorAtSlot' BY DEF CollectorAtSlot
  <2>3. DeletingHasOwner' BY DEF SlotOf, Timer, TimerHasEntry, DeletingHasOwner
  <2>4. TimerHasEntry' BY DEF SlotOf, TimerHasEntry
  <2>5. StoppingIsJoined' BY DEF Joining, StoppingIsJoined
  <2> QED BY <2>1, <2>2, <2>3, <2>4, <2>5
<1>6. ASSUME ForgetDevice PROVE Owners'
  <2> USE <1>6 DEF ForgetDevice, IdleCollector
  <2>1. HandlerAtSlot' /\ SpawnHasEntry' /\ CreatingHasOwner' /\ RunningIsTimed' /\
      TimerHasEntry'
    BY DEF HandlerAtSlot, SpawnHasEntry, TimerHasEntry, CreatingHasOwner, ArmingPC, Joining,
      SlotOf, StoppingIsJoined, RunningIsTimed
  <2>2. CollectorAtSlot' BY DEF CollectorAtSlot
  <2>3. DeletingHasOwner' BY DEF SlotOf, Timer, TimerHasEntry, DeletingHasOwner
  <2>4. StoppingIsJoined' BY DEF Joining, StoppingIsJoined
  <2> QED BY <2>1, <2>2, <2>3, <2>4
<1> HIDE DEF Owners
<1> QED BY <1>2, <1>3, <1>4, <1>5, <1>6, DieOwners DEF CollectorStep

\* A registration keeps the entries a device has, and containers own nothing.
LEMMA EnvironmentOwners ==
    ASSUME TypeOK, Owners
    PROVE  /\ \A d \in Device : RegisNode(d) \/ Disconnect(d) => Owners'
           /\ \A s \in Slot : BootService(s) \/ ExitContainer(s) => Owners'
           /\ Restart \/ UNCHANGED vars => Owners'
<1> USE DEF registry, slots, threads, vars
<1>1. ASSUME NEW d \in Device, Disconnect(d) PROVE Owners'
  BY <1>1 DEF Disconnect, TypeOK, Collector, Owners, HandlerAtSlot, CollectorAtSlot,
      SpawnHasEntry, CreatingHasOwner,
     DeletingHasOwner, RunningIsTimed, TimerHasEntry, StoppingIsJoined, SlotOf, Joining, Timer
<1>2. ASSUME entries \subseteq entries', UNCHANGED <<stored, timer, threads>> PROVE Owners'
  BY <1>2 DEF Owners, HandlerAtSlot, CollectorAtSlot, SpawnHasEntry, CreatingHasOwner,
     DeletingHasOwner, RunningIsTimed, TimerHasEntry, StoppingIsJoined, SlotOf, Joining
<1> QED BY <1>1, <1>2 DEF RegisNode, BootService, ExitContainer, Restart

-----------------------------------------------------------------------------
(* Theorems *)

\* A gateway starts with an empty registry, which satisfies the invariant.
LEMMA InitInvariant == Init => IInv
<1> SUFFICES ASSUME Init PROVE IInv
  OBVIOUS
<1> USE SlotFacts, NoCallType, ConfiguredAssumption DEF Init
<1>1. IdleCollector \in Collector /\ Configured \subseteq Slot
  BY DEF IdleCollector, Collector, Slot
<1>2. TypeOK
  BY <1>1 DEF TypeOK, HandlerPC, Status, TimerThread, ContainerState
<1>3. Owners
  BY DEF Owners, HandlerAtSlot, CollectorAtSlot, SpawnHasEntry, CreatingHasOwner,
     DeletingHasOwner, RunningIsTimed, TimerHasEntry, StoppingIsJoined, IdleCollector, Timer
<1> QED BY <1>2, <1>3 DEF IInv

\* Every step of every thread preserves the invariant.
LEMMA NextInvariant == IInv /\ [Next]_vars => IInv'
<1> SUFFICES ASSUME TypeOK, Owners, [Next]_vars PROVE TypeOK' /\ Owners'
  BY DEF IInv
<1>0. HandlerAtSlot /\ CollectorAtSlot /\ TimerHasEntry BY DEF Owners
<1>1. ASSUME NEW h \in Handler, CallStep(h) PROVE TypeOK' /\ Owners'
  BY <1>1, CallType, CallStepOwners
<1>2. ASSUME NEW h \in Handler, HandlerStep(h) PROVE TypeOK' /\ Owners'
  BY <1>0, <1>2, HandlerType, QuietHandlerStep, OwnerHandlerStep DEF HandlerStep, QuietStep
<1>3. ASSUME NEW k \in Timer, TimerStep(k) PROVE TypeOK' /\ Owners'
  BY <1>0, <1>3, TimerType, TimerStepOwners
<1>4. CASE CollectorStep
  BY <1>0, <1>4, CollectorType, CollectorStepOwners
<1>5. ASSUME NEW d \in Device, RegisNode(d) \/ Disconnect(d) PROVE TypeOK' /\ Owners'
  BY <1>5, EnvironmentType, EnvironmentOwners
<1>6. ASSUME NEW s \in Slot, BootService(s) \/ ExitContainer(s) PROVE TypeOK' /\ Owners'
  BY <1>6, EnvironmentType, EnvironmentOwners
<1>7. CASE Restart \/ UNCHANGED vars
  BY <1>7, EnvironmentType, EnvironmentOwners
<1> QED BY <1>1, <1>2, <1>3, <1>4, <1>5, <1>6, <1>7 DEF Next

\* The conjunction of the invariants below is inductive: it holds in every reachable state
\* of the gateway, whatever its number of handlers, task types and devices.
THEOREM Invariant == Spec => []IInv
  BY InitInvariant, NextInvariant, PTL DEF Spec

\* Every variable keeps its type; above all no handler works outside a slot.
THEOREM TypeCorrect == Spec => []TypeOK
  BY Invariant, PTL DEF IInv

\* A slot in Creating always has a handler inside createContainerByTType that will take it
\* out, or the creation that stored it last has been cut by the exception of
\* DockerClient::CreateContainer: no other exit and no interleaving orphans it.
THEOREM CreatingOwned == Spec => []CreatingHasOwner
<1>1. IInv => CreatingHasOwner BY DEF IInv, Owners
<1> QED BY <1>1, Invariant, PTL

\* A slot in Deleting always has the timer thread that will take it out, inside
\* inactiveTimeCallback.
THEOREM DeletingOwned == Spec => []DeletingHasOwner
<1>1. IInv => DeletingHasOwner BY DEF IInv, Owners
<1> QED BY <1>1, Invariant, PTL

\* A Running service always has a timer thread, or somebody about to start or remove it.
THEOREM RunningTimed == Spec => []RunningIsTimed
<1>1. IInv => RunningIsTimed BY DEF IInv, Owners
<1> QED BY <1>1, Invariant, PTL

\* RemoveDevice never frees a TimerCallback under its thread.
THEOREM TimersHaveEntries == Spec => []TimerHasEntry
<1>1. IInv => TimerHasEntry BY DEF IInv, Owners
<1> QED BY <1>1, Invariant, PTL

\* A timer thread that has been told to stop is always being joined.
THEOREM StoppingJoined == Spec => []StoppingIsJoined
<1>1. IInv => StoppingIsJoined BY DEF IInv, Owners
<1> QED BY <1>1, Invariant, PTL

-----------------------------------------------------------------------------
(* Why calls, removals and timer threads end.  Each has a measure of what it has left to  *)
(* do.  Its own steps make the measure smaller and no other thread makes it larger, so    *)
(* that only a step that is never taken could keep it from its end.                       *)

\* How far each label of a call is from its end.
LabelRank ==
    [idle |-> 0, forward |-> 1, hotNext |-> 1, answer |-> 2, failed |-> 2, freed |-> 2,
     refresh |-> 3, spawn |-> 3, join |-> 4, arm |-> 5, configure |-> 6, run |-> 7, publish |-> 8,
     waitPort |-> 9, start |-> 10, docker |-> 11, clear |-> 12, create |-> 13, reset |-> 14,
     drop |-> 15, probe |-> 16, waited |-> 17, waitedOnDevice |-> 17, waiting |-> 18,
     waitingOnDevice |-> 18, dispatch |-> 19, dispatchOnDevice |-> 19, supports |-> 20,
     lookup |-> 21]

\* Devices that HotStartAllNodeByTType has not visited, then the label, then the polls.
CallLeft(h) == [todo |-> call[h].todo, rank |-> LabelRank[pc[h]], ticks |-> call[h].ticks]

\* Tasks whose entries RemoveDevice has not looked at, then where it is with one of them.
RemovalRank == [idle |-> 0, next |-> 1, destroy |-> 2, erase |-> 3, join |-> 4]
RemovalLeft == [todo |-> collector.todo, rank |-> RemovalRank[collector.pc], ticks |-> 0]

\* Of a finite set and two numbers, in the order in which they count.
Smaller(m, n) ==
    \/ m.todo \subseteq n.todo /\ m.todo # n.todo
    \/ m.todo = n.todo /\ m.rank < n.rank
    \/ m.todo = n.todo /\ m.rank = n.rank /\ m.ticks < n.ticks

ThreadRank ==
    [none |-> 0, ended |-> 1, resetting |-> 2, removing |-> 3, expired |-> 4, stopping |-> 5,
     waiting |-> 6]

\* The poll of getOrCrtSrvByTType that has no bound.
Polling(h) == pc[h] = "waiting" /\ call[h].ticks = 0 /\ status[at[h]] = "Creating"

\* No timer thread that exists gets away from its end.
ThreadsKept == \A k \in Timer : timer[k] # "none" => ThreadRank[timer'[k]] <= ThreadRank[timer[k]]

\* A step of handler h is about its own call, and brings it nearer to its end.
Advances(h) ==
    /\ \A g \in Handler \ {h} : CallLeft(g)' = CallLeft(g)
    /\ RemovalLeft' = RemovalLeft
    /\ ThreadsKept
    /\ Smaller(CallLeft(h)', CallLeft(h)) \/ (Polling(h) /\ CallLeft(h)' = CallLeft(h))

LEMMA Ranks ==
    ASSUME TypeOK
    PROVE  /\ \A h \in Handler : LabelRank[pc[h]] \in Nat /\ (pc[h] # "idle" => LabelRank[pc[h]] > 0)
           /\ RemovalRank[collector.pc] \in Nat
           /\ collector.pc # "idle" => RemovalRank[collector.pc] > 0
           /\ \A k \in Timer : ThreadRank[timer[k]] \in Nat
BY DEF TypeOK, HandlerPC, TimerThread, Collector, LabelRank, RemovalRank, ThreadRank

\* A process that dies has nothing left to do.
LEMMA DieEndsAll ==
    ASSUME TypeOK, Die
    PROVE  /\ \A h \in Handler : pc[h] # "idle" => Smaller(CallLeft(h)', CallLeft(h))
           /\ collector.pc # "idle" => Smaller(RemovalLeft', RemovalLeft)
           /\ \A k \in Timer : timer[k] # "none" => ThreadRank[timer'[k]] < ThreadRank[timer[k]]
<1>1. ASSUME NEW h \in Handler, pc[h] # "idle" PROVE Smaller(CallLeft(h)', CallLeft(h))
  <2>1. CallLeft(h)' = [todo |-> {}, rank |-> 0, ticks |-> 0]
    BY DEF Die, CallLeft, NoCall, LabelRank
  <2> QED BY <1>1, <2>1, Ranks DEF Smaller, CallLeft
<1>2. ASSUME collector.pc # "idle" PROVE Smaller(RemovalLeft', RemovalLeft)
  <2>1. RemovalLeft' = [todo |-> {}, rank |-> 0, ticks |-> 0]
    BY DEF Die, RemovalLeft, IdleCollector, RemovalRank
  <2> QED BY <1>2, <2>1, Ranks DEF Smaller, RemovalLeft
<1>3. \A k \in Timer : timer[k] # "none" => ThreadRank[timer'[k]] < ThreadRank[timer[k]]
  BY DEF Die, TypeOK, TimerThread, ThreadRank
<1> QED BY <1>1, <1>2, <1>3

\* A call that returns has nothing left; the other calls are not touched.
LEMMA ReturnAdvances ==
    ASSUME TypeOK, NEW h \in Handler, pc[h] # "idle", Return(h)
    PROVE  /\ Smaller(CallLeft(h)', CallLeft(h))
           /\ \A g \in Handler \ {h} : CallLeft(g)' = CallLeft(g)
<1>1. CallLeft(h)' = [todo |-> {}, rank |-> 0, ticks |-> 0]
  BY DEF Return, CallLeft, NoCall, LabelRank, TypeOK
<1>2. \A g \in Handler \ {h} : CallLeft(g)' = CallLeft(g)
  BY DEF Return, CallLeft, TypeOK
<1>3. Smaller(CallLeft(h)', CallLeft(h))
  BY <1>1, Ranks DEF Smaller, CallLeft
<1> QED BY <1>2, <1>3

\* start() returns: to the loop over the devices, or to the quest.
LEMMA ArmedAdvances ==
    ASSUME TypeOK, NEW h \in Handler, NEW kept \in BOOLEAN, pc[h] \in {"spawn", "freed"},
           Armed(h, kept), ThreadsKept
    PROVE  Advances(h)
<1>1. /\ call' = [call EXCEPT ![h].kept = kept /\ ~call[h].hot] /\ UNCHANGED collector
      /\ pc' = [pc EXCEPT ![h] = IF call[h].hot THEN "hotNext" ELSE "forward"]
  BY DEF Armed, Goto
<1>2. /\ call'[h].todo = call[h].todo /\ pc'[h] \in {"hotNext", "forward"}
      /\ \A g \in Handler \ {h} : pc'[g] = pc[g] /\ call'[g] = call[g]
  BY <1>1 DEF TypeOK, Call
<1> QED BY <1>1, <1>2 DEF Advances, Smaller, CallLeft, RemovalLeft, LabelRank

\* The three ways a step changes the call it serves.
LEMMA CallMoves ==
    ASSUME TypeOK, NEW h \in Handler, pc[h] # "idle", UNCHANGED <<timer, collector>>
    PROVE  /\ Return(h) => Advances(h)
           /\ \A l \in HandlerPC : Goto(h, l) /\ UNCHANGED call /\ LabelRank[l] < LabelRank[pc[h]]
                => Advances(h)
           /\ \A l \in HandlerPC, c \in Call :
                Goto(h, l) /\ call' = [call EXCEPT ![h] = c] /\ c.todo = call[h].todo
                    /\ LabelRank[l] < LabelRank[pc[h]]
                => Advances(h)
<1>1. RemovalLeft' = RemovalLeft /\ ThreadsKept
  BY Ranks DEF RemovalLeft, ThreadsKept
<1>2. Return(h) => Advances(h)
  BY <1>1, ReturnAdvances DEF Advances
<1>3. ASSUME NEW l \in HandlerPC, NEW c \in Call, Goto(h, l), call' = [call EXCEPT ![h] = c],
             c.todo = call[h].todo, LabelRank[l] < LabelRank[pc[h]]
      PROVE  Advances(h)
  <2>1. /\ CallLeft(h)' = [todo |-> c.todo, rank |-> LabelRank[l], ticks |-> c.ticks]
        /\ \A g \in Handler \ {h} : CallLeft(g)' = CallLeft(g)
    BY <1>3 DEF Goto, CallLeft, TypeOK
  <2> QED BY <1>1, <1>3, <2>1 DEF Advances, Smaller, CallLeft
<1>4. ASSUME NEW l \in HandlerPC, Goto(h, l), UNCHANGED call, LabelRank[l] < LabelRank[pc[h]]
      PROVE  Advances(h)
  <2>1. call' = [call EXCEPT ![h] = call[h]] /\ call[h] \in Call
    BY <1>4 DEF TypeOK
  <2> QED BY <1>3, <1>4, <2>1
<1> QED BY <1>2, <1>3, <1>4

\* Every step of a call is about that call and brings it nearer to its end, but the polls
\* of a quest that waits for a creation without bound.
LEMMA HandlerAdvances ==
    ASSUME TypeOK, TimerHasEntry, NEW h \in Handler, HandlerStep(h), ~Die
    PROVE  Advances(h)
<1> USE DEF LabelRank
<1>0. /\ call \in [Handler -> Call] /\ pc \in [Handler -> HandlerPC] /\ at \in [Handler -> AnySlot]
      /\ timer \in [Timer -> TimerThread]
      /\ call[h].ticks \in 0..WaitTicks /\ call[h].todo \subseteq Device
  BY DEF TypeOK, Call
<1>a. ASSUME pc[h] # "idle", UNCHANGED <<timer, collector>>, Return(h) PROVE Advances(h)
  BY <1>a, CallMoves
<1>b. ASSUME pc[h] # "idle", UNCHANGED <<timer, collector, call>>,
             NEW l \in HandlerPC, Goto(h, l), LabelRank[l] < LabelRank[pc[h]]
      PROVE  Advances(h)
  BY <1>b, CallMoves
<1>c. ASSUME pc[h] # "idle", UNCHANGED <<timer, collector>>,
             NEW l \in HandlerPC, Goto(h, l), LabelRank[l] < LabelRank[pc[h]],
             NEW c \in Call, call' = [call EXCEPT ![h] = c], c.todo = call[h].todo
      PROVE  Advances(h)
  BY <1>c, CallMoves
<1>d. ASSUME pc[h] # "idle", UNCHANGED <<timer, collector>>,
             NEW l \in HandlerPC, Goto(h, l), LabelRank[l] < LabelRank[pc[h]],
             NEW n \in 0..WaitTicks, call' = [call EXCEPT ![h].ticks = n]
      PROVE  Advances(h)
  <2> DEFINE c == [call[h] EXCEPT !.ticks = n]
  <2>1. call' = [call EXCEPT ![h] = c] /\ c \in Call /\ c.todo = call[h].todo
    <3>1. call[h] \in Call
      BY <1>0
    <3>2. c \in Call
      BY <3>1, <1>d, CallUpdate
    <3>3. c.todo = call[h].todo
      BY <3>1 DEF Call
    <3>4. call' = [call EXCEPT ![h] = c]
      BY <1>0, <1>d
    <3> QED BY <3>2, <3>3, <3>4
  <2> HIDE DEF c
  <2> QED BY <1>c, <1>d, <2>1
<1>e. (RemovalLeft' = RemovalLeft /\ ThreadsKept) \/ ~UNCHANGED <<timer, collector>>
  BY Ranks DEF RemovalLeft, ThreadsKept
<1>1. CASE LookUpDevice(h)
  BY <1>1, <1>a, <1>b DEF LookUpDevice, Branch, NoService, HandlerPC
<1>2. CASE CheckSupport(h)
  BY <1>2, <1>a, <1>b DEF CheckSupport, Branch, NoService, HandlerPC
<1>3. CASE ProbeService(h)
  BY <1>3, <1>a, <1>b DEF ProbeService, Branch, HandlerPC
<1>4. CASE DropService(h)
  BY <1>4, <1>a, <1>b DEF DropService, StoreServices, HandlerPC
<1>5. CASE ResetStatus(h)
  BY <1>5, <1>a, <1>b DEF ResetStatus, StoreStatus, HandlerPC
<1>6. CASE TagCreating(h)
  BY <1>6, <1>a, <1>b DEF TagCreating, HandlerPC
<1>7. CASE ClearServices(h)
  BY <1>7, <1>a, <1>b DEF ClearServices, StoreServices, HandlerPC
<1>8. CASE CreateContainer(h)
  BY <1>8, <1>a, <1>b DEF CreateContainer, HandlerPC
<1>9. CASE StartContainer(h)
  BY <1>9, <1>a, <1>b DEF StartContainer, HandlerPC
<1>10. CASE AwaitPort(h)
  BY <1>10, <1>a, <1>b DEF AwaitPort, Branch, HandlerPC
<1>11. CASE FailCreation(h)
  BY <1>11, <1>a, <1>b DEF FailCreation, CreationFailed, HandlerPC
<1>12. CASE PublishService(h)
  BY <1>12, <1>a, <1>b DEF PublishService, StoreServices, HandlerPC
<1>13. CASE TagRunning(h)
  BY <1>13, <1>a, <1>b DEF TagRunning, StoreStatus, HandlerPC
<1>14. CASE Forwarded(h)
  BY <1>14, <1>a, <1>b DEF Forwarded, HandlerPC
<1>15. CASE CheckWait(h)
  <2>1. pc[h] = "waited" /\ UNCHANGED <<timer, collector>>
    BY <1>15 DEF CheckWait, AfterWait, NoService
  <2>2. Return(h) \/ (Goto(h, "refresh") /\ call' = [call EXCEPT ![h].ticks = 0])
    BY <1>15 DEF CheckWait, AfterWait, NoService
  <2> QED BY <1>a, <1>d, <2>1, <2>2, NoCallType DEF HandlerPC
<1>16. CASE CheckWaitOnDevice(h)
  <2>1. pc[h] = "waitedOnDevice" /\ UNCHANGED <<timer, collector>>
    BY <1>16 DEF CheckWaitOnDevice, AfterWait, NoService
  <2>2. Return(h) \/ (Goto(h, "refresh") /\ call' = [call EXCEPT ![h].ticks = 0])
    BY <1>16 DEF CheckWaitOnDevice, AfterWait, NoService
  <2> QED BY <1>a, <1>d, <2>1, <2>2, NoCallType DEF HandlerPC
<1>17. CASE Dispatch(h)
  BY <1>17, <1>a, <1>b, <1>d, NoCallType DEF Dispatch, Switch, Branch, NoService, HandlerPC
<1>18. CASE DispatchOnDevice(h)
  BY <1>18, <1>a, <1>b, <1>d, NoCallType DEF DispatchOnDevice, Switch, Branch, NoService, HandlerPC
<1>19. CASE Wait(h)
  <2> DEFINE turn == status[at[h]] = "Creating" \/ call[h].ticks > 0
  <2>1. CASE ~turn
    BY <1>19, <1>b, <2>1 DEF Wait, WaitLoop, Branch, HandlerPC
  <2>2. CASE turn
    <3>1. /\ call' = [call EXCEPT ![h].ticks = IF @ = 0 THEN 0 ELSE @ - 1]
          /\ UNCHANGED <<pc, timer, collector>>
      BY <1>19, <2>2 DEF Wait, WaitLoop
    <3>2. /\ call'[h].todo = call[h].todo
          /\ call'[h].ticks = IF call[h].ticks = 0 THEN 0 ELSE call[h].ticks - 1
          /\ \A g \in Handler \ {h} : CallLeft(g)' = CallLeft(g)
      BY <1>0, <3>1 DEF Call, CallLeft
    <3>3. Smaller(CallLeft(h)', CallLeft(h)) \/ (Polling(h) /\ CallLeft(h)' = CallLeft(h))
      <4>1. CASE call[h].ticks = 0
        BY <1>19, <2>2, <3>1, <3>2, <4>1 DEF Wait, Polling, CallLeft
      <4>2. CASE call[h].ticks # 0
        <5>1. call'[h].ticks < call[h].ticks
          BY <1>0, <3>2, <4>2
        <5> QED BY <3>1, <3>2, <5>1 DEF Smaller, CallLeft
      <4> QED BY <4>1, <4>2
    <3> QED BY <1>e, <3>1, <3>2, <3>3 DEF Advances
  <2> QED BY <2>1, <2>2
<1>20. CASE WaitOnDevice(h)
  <2> DEFINE turn == status[at[h]] = "Creating" /\ call[h].ticks > 0
  <2>1. CASE ~turn
    BY <1>20, <1>b, <2>1 DEF WaitOnDevice, WaitLoop, Branch, HandlerPC
  <2>2. CASE turn
    <3>1. /\ call' = [call EXCEPT ![h].ticks = IF @ = 0 THEN 0 ELSE @ - 1]
          /\ UNCHANGED <<pc, timer, collector>>
      BY <1>20, <2>2 DEF WaitOnDevice, WaitLoop
    <3>2. /\ call'[h].todo = call[h].todo
          /\ call'[h].ticks = IF call[h].ticks = 0 THEN 0 ELSE call[h].ticks - 1
          /\ \A g \in Handler \ {h} : CallLeft(g)' = CallLeft(g)
      BY <1>0, <3>1 DEF Call, CallLeft
    <3>3. Smaller(CallLeft(h)', CallLeft(h)) \/ (Polling(h) /\ CallLeft(h)' = CallLeft(h))
      <4>1. CASE call[h].ticks = 0
        BY <1>20, <2>2, <3>1, <3>2, <4>1 DEF WaitOnDevice, Polling, CallLeft
      <4>2. CASE call[h].ticks # 0
        <5>1. call'[h].ticks < call[h].ticks
          BY <1>0, <3>2, <4>2
        <5> QED BY <3>1, <3>2, <5>1 DEF Smaller, CallLeft
      <4> QED BY <4>1, <4>2
    <3> QED BY <1>e, <3>1, <3>2, <3>3 DEF Advances
  <2> QED BY <2>1, <2>2
<1>21. CASE RefreshTimer(h)
  <2>1. PICK kept \in BOOLEAN : call' = [call EXCEPT ![h].kept = kept]
    BY <1>21 DEF RefreshTimer
  <2> DEFINE c == [call[h] EXCEPT !.kept = kept]
  <2>2. call' = [call EXCEPT ![h] = c] /\ c \in Call /\ c.todo = call[h].todo
    <3>1. call[h] \in Call
      BY <1>0
    <3>2. c \in Call
      BY <3>1, <2>1, CallUpdate
    <3>3. c.todo = call[h].todo
      BY <3>1 DEF Call
    <3>4. call' = [call EXCEPT ![h] = c]
      BY <1>0, <2>1
    <3> QED BY <3>2, <3>3, <3>4
  <2> HIDE DEF c
  <2>3. pc[h] = "refresh" /\ Goto(h, "answer") /\ UNCHANGED <<timer, collector>>
    BY <1>21 DEF RefreshTimer
  <2>4. "answer" \in HandlerPC /\ LabelRank["answer"] < LabelRank[pc[h]] /\ pc[h] # "idle"
    BY <2>3 DEF HandlerPC
  <2> HIDE DEF LabelRank
  <2> QED BY <1>c, <2>2, <2>3, <2>4
<1>22. CASE AnswerService(h)
  BY <1>22, <1>b DEF AnswerService, Branch, HandlerPC
<1>23. CASE ArmTimer(h)
  <2>0. pc[h] = "arm" /\ UNCHANGED collector /\ timer' = [timer EXCEPT ![at[h]] = Stopped(@)]
    BY <1>23 DEF ArmTimer
  <2>1. ThreadsKept /\ RemovalLeft' = RemovalLeft
    BY <1>0, <2>0 DEF ThreadsKept, ThreadRank, Stopped, TimerThread, RemovalLeft
  <2>2. CASE Return(h)
    BY <2>0, <2>1, <2>2, ReturnAdvances DEF Advances
  <2>3. ASSUME NEW l \in {"spawn", "join"}, Goto(h, l), UNCHANGED call PROVE Advances(h)
    BY <1>0, <2>0, <2>1, <2>3 DEF Advances, CallLeft, Goto, Smaller
  <2> QED BY <1>23, <2>2, <2>3 DEF ArmTimer
<1>24. CASE JoinTimer(h)
  <2>1. timer' = [timer EXCEPT ![at[h]] = "none"] /\ UNCHANGED <<call, collector>>
    BY <1>24 DEF JoinTimer
  <2>2. ThreadsKept /\ RemovalLeft' = RemovalLeft
    BY <1>0, <2>1 DEF ThreadsKept, ThreadRank, TimerThread, RemovalLeft
  <2> QED BY <1>0, <1>24, <2>1, <2>2 DEF JoinTimer, Advances, CallLeft, Goto, Smaller
<1>25. CASE SpawnTimer(h)
  <2>1. /\ pc[h] = "spawn" /\ timer[at[h]] = "none" /\ timer' = [timer EXCEPT ![at[h]] = "waiting"]
        /\ Armed(h, TRUE)
    BY <1>25 DEF SpawnTimer
  <2>2. ThreadsKept
    BY <1>0, <2>1 DEF ThreadsKept, ThreadRank, TimerThread
  <2> QED BY <2>1, <2>2, ArmedAdvances
<1>26. CASE SpawnFreedTimer(h)
  <2>1. pc[h] = "freed" /\ Armed(h, FALSE) /\ UNCHANGED timer
    BY <1>26 DEF SpawnFreedTimer
  <2>2. ThreadsKept
    BY <2>1, Ranks DEF ThreadsKept
  <2> QED BY <2>1, <2>2, ArmedAdvances
<1>27. CASE HotNext(h)
  <2>1. CASE HotEnd(h)
    BY <1>27, <2>1, <1>a DEF HotNext, HotEnd
  <2>2. ASSUME NEW d \in call[h].todo, HotVisit(h, d) PROVE Advances(h)
    <3>1. /\ call' = [call EXCEPT ![h].todo = @ \ {d}, ![h].dangling = FALSE]
          /\ UNCHANGED <<timer, collector>>
          /\ \A g \in Handler \ {h} : pc'[g] = pc[g]
      BY <1>0, <2>2 DEF HotVisit, Goto
    <3>2. /\ call'[h].todo = call[h].todo \ {d}
          /\ \A g \in Handler \ {h} : call'[g] = call[g]
      BY <1>0, <3>1 DEF Call
    <3>3. Smaller(CallLeft(h)', CallLeft(h))
      BY <3>2 DEF Smaller, CallLeft
    <3>4. \A g \in Handler \ {h} : CallLeft(g)' = CallLeft(g)
      BY <3>1, <3>2 DEF CallLeft
    <3> QED BY <1>e, <3>1, <3>3, <3>4 DEF Advances
  <2> QED BY <1>27, <2>1, <2>2 DEF HotNext
<1>28. CASE SetTimer(h)
  BY <1>28, <1>b DEF SetTimer, HandlerPC
<1> QED BY <1>1, <1>2, <1>3, <1>4, <1>5, <1>6, <1>7, <1>8, <1>9, <1>10, <1>11, <1>12, <1>13,
           <1>14, <1>15, <1>16, <1>17, <1>18, <1>19, <1>20, <1>21, <1>22, <1>23, <1>24, <1>25,
           <1>26, <1>27, <1>28 DEF HandlerStep

\* A call that begins is in nobody's way.
LEMMA CallStepKeeps ==
    ASSUME TypeOK, NEW h \in Handler, CallStep(h)
    PROVE  /\ pc[h] = "idle"
           /\ \A g \in Handler \ {h} : CallLeft(g)' = CallLeft(g)
           /\ RemovalLeft' = RemovalLeft /\ ThreadsKept
<1> USE DEF TypeOK, threads
<1>1. pc[h] = "idle" /\ UNCHANGED <<timer, collector>>
  BY DEF CallStep, QuestOnNode, Quest, HotStart, Serve
<1>2. \A g \in Handler \ {h} : pc'[g] = pc[g] /\ call'[g] = call[g]
  BY DEF CallStep, QuestOnNode, Quest, HotStart, Serve, Goto
<1> QED BY <1>1, <1>2, Ranks DEF CallLeft, RemovalLeft, ThreadsKept

\* A timer thread changes no call and no removal, and comes nearer to its end.
LEMMA TimerAdvances ==
    ASSUME TypeOK, NEW k \in Timer, TimerStep(k), ~Die
    PROVE  /\ UNCHANGED threads
           /\ ThreadsKept /\ ThreadRank[timer'[k]] < ThreadRank[timer[k]]
<1>1. UNCHANGED threads
  BY DEF TimerStep, StopTimerThread, ExpireTimer, TagDeleting, RemoveContainer, TagNoExist
<1>2. \E v \in TimerThread :
        timer' = [timer EXCEPT ![k] = v] /\ ThreadRank[v] < ThreadRank[timer[k]]
  BY DEF TimerStep, StopTimerThread, ExpireTimer, TagDeleting, RemoveContainer, TagNoExist,
         TimerThread, ThreadRank
<1>3. /\ ThreadRank[timer'[k]] < ThreadRank[timer[k]] /\ timer'[k] \in TimerThread
      /\ \A j \in Timer \ {k} : timer'[j] = timer[j]
  BY <1>2 DEF TypeOK
<1>4. ThreadRank[timer'[k]] <= ThreadRank[timer[k]]
  BY <1>3, Ranks DEF ThreadRank, TimerThread
<1> QED BY <1>1, <1>3, <1>4, Ranks DEF ThreadsKept

\* What a step of RemoveDevice does to the calls is to leave their references dangling.
LEMMA CollectorAdvances ==
    ASSUME TypeOK, CollectorAtSlot, TimerHasEntry, CollectorStep, ~Die
    PROVE  /\ \A h \in Handler : CallLeft(h)' = CallLeft(h) \/ Smaller(CallLeft(h)', CallLeft(h))
           /\ Smaller(RemovalLeft', RemovalLeft)
           /\ ThreadsKept
<1> USE SlotFacts
<1>0. /\ timer \in [Timer -> TimerThread] /\ collector \in Collector
      /\ pc \in [Handler -> HandlerPC] /\ call \in [Handler -> Call]
  BY DEF TypeOK
<1>1. ASSUME UNCHANGED <<pc, call>>
      PROVE  \A h \in Handler : CallLeft(h)' = CallLeft(h) \/ Smaller(CallLeft(h)', CallLeft(h))
  BY <1>1 DEF CallLeft
<1>2. UNCHANGED timer => ThreadsKept
  BY Ranks DEF ThreadsKept
<1>3. ASSUME NEW k \in Timer, NEW v \in TimerThread, timer' = [timer EXCEPT ![k] = v],
             ThreadRank[v] <= ThreadRank[timer[k]]
      PROVE  ThreadsKept
  BY <1>0, <1>3, Ranks DEF ThreadsKept
<1>4. CASE RemoveEntry
  <2>1. PICK t \in collector.todo :
          \/ collector' = [collector EXCEPT !.todo = @ \ {t}] /\ UNCHANGED <<timer, pc, call>>
          \/ StopForRemoval(<<t, collector.dev>>)
    BY <1>4 DEF RemoveEntry
  <2>2. collector'.todo = collector.todo \ {t} /\ UNCHANGED <<pc, call>>
    BY <1>0, <2>1 DEF StopForRemoval, Collector
  <2>3. Smaller(RemovalLeft', RemovalLeft)
    BY <2>2 DEF Smaller, RemovalLeft
  <2>4. ThreadsKept
    <3>1. CASE UNCHANGED timer
      BY <1>2, <3>1
    <3>2. CASE StopForRemoval(<<t, collector.dev>>)
      BY <1>0, <3>2 DEF StopForRemoval, ThreadsKept, Stopped, ThreadRank, TimerThread
    <3> QED BY <2>1, <3>1, <3>2
  <2> QED BY <1>1, <2>2, <2>3, <2>4
<1>5. CASE CollectorJoin
  <2>1. /\ timer' = [timer EXCEPT ![collector.slot] = "none"] /\ UNCHANGED <<pc, call>>
        /\ collector.pc = "join" /\ collector' = [collector EXCEPT !.pc = "erase"]
    BY <1>5 DEF CollectorJoin
  <2>2. ThreadsKept
    BY <1>0, <2>1 DEF ThreadsKept, ThreadRank, TimerThread
  <2>3. Smaller(RemovalLeft', RemovalLeft)
    BY <1>0, <2>1 DEF Smaller, RemovalLeft, RemovalRank, Collector
  <2> QED BY <1>1, <2>1, <2>2, <2>3
<1>6. CASE EraseEntry
  <2> DEFINE s == collector.slot
  <2>1. /\ timer' = [timer EXCEPT ![s] = "none", ![Unlinked] = Stopped(timer[s])]
        /\ pc' = [h \in Handler |-> IF at[h] = s /\ pc[h] = "spawn" THEN "freed" ELSE pc[h]]
        /\ call' = [h \in Handler |->
                      IF at[h] = s THEN [call[h] EXCEPT !.dangling = call[h].hot] ELSE call[h]]
        /\ collector.pc = "erase" /\ collector' = [collector EXCEPT !.pc = "destroy"]
    BY <1>6 DEF EraseEntry
  <2>2. timer[Unlinked] = "none"
    BY <2>1 DEF TimerHasEntry
  <2>3. ThreadsKept
    BY <1>0, <2>1, <2>2 DEF ThreadsKept, ThreadRank, TimerThread
  <2>4. Smaller(RemovalLeft', RemovalLeft)
    BY <1>0, <2>1 DEF Smaller, RemovalLeft, RemovalRank, Collector
  <2>5. ASSUME NEW h \in Handler
        PROVE  CallLeft(h)' = CallLeft(h) \/ Smaller(CallLeft(h)', CallLeft(h))
    <3>1. call'[h].todo = call[h].todo /\ call'[h].ticks = call[h].ticks
      BY <1>0, <2>1 DEF Call
    <3>2. pc'[h] = pc[h] \/ (pc[h] = "spawn" /\ pc'[h] = "freed")
      BY <2>1
    <3> QED BY <3>1, <3>2 DEF CallLeft, Smaller, LabelRank
  <2> QED BY <2>3, <2>4, <2>5
<1>7. CASE DestroyEntry
  <2>1. /\ timer' = [timer EXCEPT ![Unlinked] = "none"] /\ UNCHANGED <<pc, call>>
        /\ collector.pc = "destroy" /\ collector' = [collector EXCEPT !.pc = "next", !.slot = NoSlot]
    BY <1>7 DEF DestroyEntry
  <2>2. ThreadsKept
    BY <1>0, <2>1 DEF ThreadsKept, ThreadRank, TimerThread
  <2>3. Smaller(RemovalLeft', RemovalLeft)
    BY <1>0, <2>1 DEF Smaller, RemovalLeft, RemovalRank, Collector
  <2> QED BY <1>1, <2>1, <2>2, <2>3
<1>8. CASE ForgetDevice
  <2>1. /\ UNCHANGED <<timer, pc, call>> /\ collector.pc = "next" /\ collector.todo = {}
        /\ collector' = IdleCollector
    BY <1>8 DEF ForgetDevice, slots
  <2>2. Smaller(RemovalLeft', RemovalLeft)
    BY <2>1 DEF Smaller, RemovalLeft, RemovalRank, IdleCollector
  <2> QED BY <1>1, <1>2, <2>1, <2>2
<1> QED BY <1>4, <1>5, <1>6, <1>7, <1>8 DEF CollectorStep

\* What every step does to the three measures.
CallsNearer ==
    \A h \in Handler : pc[h] # "idle" =>
        /\ CallLeft(h)' = CallLeft(h) \/ Smaller(CallLeft(h)', CallLeft(h))
        /\ HandlerStep(h) => Smaller(CallLeft(h)', CallLeft(h)) \/ Polling(h)

RemovalNearer ==
    collector.pc # "idle" =>
        /\ RemovalLeft' = RemovalLeft \/ Smaller(RemovalLeft', RemovalLeft)
        /\ CollectorStep => Smaller(RemovalLeft', RemovalLeft)

ThreadsNearer ==
    /\ ThreadsKept
    /\ \A k \in Timer : TimerStep(k) => ThreadRank[timer'[k]] < ThreadRank[timer[k]]

LEMMA StepNearer ==
    ASSUME IInv, Next
    PROVE  CallsNearer /\ RemovalNearer /\ ThreadsNearer
<1>0. TypeOK /\ CollectorAtSlot /\ TimerHasEntry
  BY DEF IInv, Owners
<1>1. ASSUME NEW h \in Handler, HandlerStep(h), pc[h] # "idle"
      PROVE  Smaller(CallLeft(h)', CallLeft(h)) \/ Polling(h)
  BY <1>0, <1>1, HandlerAdvances, DieEndsAll DEF Advances
<1>2. ASSUME CollectorStep, collector.pc # "idle" PROVE Smaller(RemovalLeft', RemovalLeft)
  BY <1>0, <1>2, CollectorAdvances, DieEndsAll
<1>3. ASSUME NEW k \in Timer, TimerStep(k) PROVE ThreadRank[timer'[k]] < ThreadRank[timer[k]]
  <2>1. timer[k] # "none"
    BY <1>3 DEF TimerStep, StopTimerThread, ExpireTimer, TagDeleting, RemoveContainer, TagNoExist
  <2> QED BY <1>0, <1>3, <2>1, TimerAdvances, DieEndsAll
<1> DEFINE Kept(h) ==
      pc[h] # "idle" => CallLeft(h)' = CallLeft(h) \/ Smaller(CallLeft(h)', CallLeft(h))
<1> DEFINE RemovalKept ==
      collector.pc # "idle" => RemovalLeft' = RemovalLeft \/ Smaller(RemovalLeft', RemovalLeft)
<1>4. (\A h \in Handler : Kept(h)) /\ RemovalKept /\ ThreadsKept
  <2>1. CASE Die
    <3>1. ThreadsKept
      BY <1>0, <2>1, DieEndsAll, Ranks DEF ThreadsKept, Die, ThreadRank
    <3> QED BY <1>0, <2>1, <3>1, DieEndsAll
  <2>2. ASSUME NEW h \in Handler, HandlerStep(h), ~Die
        PROVE  (\A g \in Handler : Kept(g)) /\ RemovalKept /\ ThreadsKept
    BY <1>0, <2>2, HandlerAdvances DEF Advances
  <2>3. ASSUME NEW h \in Handler, CallStep(h)
        PROVE  (\A g \in Handler : Kept(g)) /\ RemovalKept /\ ThreadsKept
    BY <1>0, <2>3, CallStepKeeps
  <2>4. ASSUME UNCHANGED <<pc, call>>
        PROVE  \A g \in Handler : Kept(g)
    BY <2>4 DEF CallLeft
  <2>5. ASSUME NEW k \in Timer, TimerStep(k), ~Die
        PROVE  (\A g \in Handler : Kept(g)) /\ RemovalKept /\ ThreadsKept
    BY <1>0, <2>4, <2>5, TimerAdvances DEF threads, RemovalLeft
  <2>6. ASSUME CollectorStep, ~Die
        PROVE  (\A g \in Handler : Kept(g)) /\ RemovalKept /\ ThreadsKept
    BY <1>0, <2>6, CollectorAdvances
  <2>7. ASSUME \/ \E d \in Device : RegisNode(d) \/ Disconnect(d)
               \/ \E s \in Slot : BootService(s) \/ ExitContainer(s)
               \/ Restart
        PROVE  (\A g \in Handler : Kept(g)) /\ RemovalKept /\ ThreadsKept
    <3>1. UNCHANGED <<pc, call, timer>>
      BY <2>7 DEF RegisNode, Disconnect, BootService, ExitContainer, Restart, threads
    <3>2. collector.pc # "idle" => UNCHANGED collector
      BY <2>7 DEF RegisNode, Disconnect, BootService, ExitContainer, Restart, threads
    <3> QED BY <1>0, <2>4, <3>1, <3>2, Ranks DEF RemovalLeft, ThreadsKept
  <2> QED BY <2>1, <2>2, <2>3, <2>5, <2>6, <2>7 DEF Next
<1> QED BY <1>1, <1>2, <1>3, <1>4 DEF CallsNearer, RemovalNearer, ThreadsNearer

\* Every step of a call brings it nearer to its answer, through the loops over devices, the
\* bounded wait and the joins of start(), and nothing that other threads do sets it back.
\* The only exception is the poll of getOrCrtSrvByTType while the service is Creating.
THEOREM CallsRunDown == Spec => [][CallsNearer]_vars
<1>1. IInv /\ [Next]_vars => [CallsNearer]_vars
  BY StepNearer
<1> QED BY <1>1, Invariant, PTL DEF Spec

\* RemoveDevice comes nearer to giving devs_mutex back with each of its steps, and no other
\* thread puts an entry back into its way.
THEOREM RemovalsRunDown == Spec => [][RemovalNearer]_vars
<1>1. IInv /\ [Next]_vars => [RemovalNearer]_vars
  BY StepNearer
<1> QED BY <1>1, Invariant, PTL DEF Spec

\* A timer thread goes through inactiveTimeCallback to its end, and nobody restarts it: a
\* start() that finds it joins it first.
THEOREM ThreadsRunDown == Spec => [][ThreadsNearer]_vars
<1>1. IInv /\ [Next]_vars => [ThreadsNearer]_vars
  BY StepNearer
<1> QED BY <1>1, Invariant, PTL DEF Spec

-----------------------------------------------------------------------------
(* Joins.  What a thread that joins waits for has been told to stop, or is past its wait. *)

Ending == {"stopping", "expired", "removing", "resetting", "ended"}

\* A thread has one joiner, and a joiner has a thread that will end.
JoinersWait ==
    /\ \A h \in Handler : pc[h] = "join" => timer[at[h]] \in Ending
    /\ \A g, h \in Handler : pc[g] = "join" /\ pc[h] = "join" /\ at[g] = at[h] => g = h
    /\ collector.pc = "join" =>
        /\ timer[collector.slot] \in Ending
        /\ \A h \in Handler : pc[h] = "join" => at[h] # collector.slot
    /\ timer[Unlinked] # "waiting"

LEMMA HandlerJoins ==
    ASSUME IInv, JoinersWait, NEW h \in Handler, HandlerStep(h), ~Die
    PROVE  JoinersWait'
<1> USE SlotFacts DEF JoinersWait
<1>0. /\ TypeOK /\ HandlerAtSlot /\ CollectorAtSlot
      /\ pc[h] \notin {"idle", "hotNext"} => at[h] \in Slot
  BY DEF IInv, Owners, HandlerAtSlot
<1>1. ASSUME UNCHANGED <<timer, collector>>, pc'[h] # "join",
             \A g \in Handler \ {h} : pc'[g] = pc[g] /\ at'[g] = at[g]
      PROVE  JoinersWait'
  BY <1>1
<1>2. CASE QuietStep(h)
  <2>1. QuietMove(h)
    BY <1>0, <1>2, QuietSteps
  <2> QED BY <1>1, <2>1 DEF QuietMove
<1>3. CASE ResetStatus(h) \/ TagRunning(h)
  BY <1>0, <1>1, <1>3 DEF ResetStatus, TagRunning, StoreStatus, Goto, TypeOK
<1>4. CASE TagCreating(h)
  BY <1>0, <1>1, <1>4 DEF TagCreating, Goto, TypeOK
<1>5. CASE FailCreation(h)
  BY <1>0, <1>1, <1>5 DEF FailCreation, CreationFailed, Return, Goto, TypeOK
<1>6. CASE ArmTimer(h)
  <2>1. /\ pc[h] = "arm" /\ UNCHANGED collector
        /\ timer' = [timer EXCEPT ![at[h]] = Stopped(@)]
        /\ \/ timer[at[h]] # "none" /\ Joining(at[h]) /\ Return(h)
           \/ UNCHANGED at /\ Goto(h, "spawn") /\ timer[at[h]] = "none"
           \/ /\ UNCHANGED at /\ Goto(h, "join") /\ timer[at[h]] # "none"
              /\ ~Joining(at[h])
    BY <1>6 DEF ArmTimer
  <2>2. \A k \in Timer : /\ timer'[k] = IF k = at[h] THEN Stopped(timer[k]) ELSE timer[k]
                         /\ timer[k] \in Ending => timer'[k] \in Ending
                         /\ timer'[k] # "waiting" \/ timer[k] = "waiting"
    BY <1>0, <2>1 DEF TypeOK, Stopped, Ending
  <2>3. timer[at[h]] # "none" => timer'[at[h]] \in Ending
    BY <1>0, <2>1, <2>2 DEF TypeOK, TimerThread, Stopped, Ending
  <2>4. \A g \in Handler \ {h} : pc'[g] = pc[g] /\ at'[g] = at[g]
    BY <1>0, <2>1 DEF Return, Goto, TypeOK
  <2>5. \A g \in Handler : pc[g] = "join" => at[g] \in Timer
    BY <1>0 DEF HandlerAtSlot
  <2>6. collector.pc = "join" => collector.slot \in Timer
    BY <1>0 DEF CollectorAtSlot
  <2>7. CASE pc'[h] # "join"
    BY <2>1, <2>2, <2>4, <2>5, <2>6, <2>7
  <2>8. CASE pc'[h] = "join"
    <3>1. at'[h] = at[h] /\ timer[at[h]] # "none" /\ ~Joining(at[h])
      BY <1>0, <2>1, <2>8 DEF Return, Goto, TypeOK
    <3> QED BY <2>1, <2>2, <2>3, <2>4, <2>5, <2>6, <3>1 DEF Joining
  <2> QED BY <2>7, <2>8
<1>7. CASE JoinTimer(h)
  <2>1. /\ pc[h] = "join" /\ pc'[h] = "spawn" /\ UNCHANGED <<at, collector>>
        /\ timer' = [timer EXCEPT ![at[h]] = "none"]
        /\ \A g \in Handler \ {h} : pc'[g] = pc[g]
    BY <1>0, <1>7 DEF JoinTimer, Goto, TypeOK
  <2>2. /\ \A g \in Handler \ {h} : pc[g] = "join" => at[g] # at[h]
        /\ collector.pc = "join" => collector.slot # at[h]
    BY <2>1
  <2>3. \A k : k # at[h] => timer'[k] = timer[k]
    BY <1>0, <2>1 DEF TypeOK
  <2> QED BY <1>0, <2>1, <2>2, <2>3
<1>8. CASE SpawnTimer(h)
  <2>1. /\ pc[h] = "spawn" /\ pc'[h] # "join" /\ UNCHANGED <<at, collector>>
        /\ timer[at[h]] = "none" /\ timer' = [timer EXCEPT ![at[h]] = "waiting"]
        /\ \A g \in Handler \ {h} : pc'[g] = pc[g]
    BY <1>0, <1>8 DEF SpawnTimer, Armed, Goto, TypeOK
  <2>2. /\ \A g \in Handler \ {h} : pc[g] = "join" => at[g] # at[h]
        /\ collector.pc = "join" => collector.slot # at[h]
    BY <2>1 DEF Ending
  <2>3. \A k : k # at[h] => timer'[k] = timer[k]
    BY <1>0, <2>1 DEF TypeOK
  <2> QED BY <1>0, <2>1, <2>2, <2>3
<1>9. CASE CreateContainer(h)
  BY <1>0, <1>1, <1>9 DEF CreateContainer, Return, Goto, TypeOK
<1>10. CASE SetTimer(h)
  BY <1>0, <1>1, <1>10 DEF SetTimer, Goto, TypeOK
<1> QED BY <1>2, <1>3, <1>4, <1>5, <1>6, <1>7, <1>8, <1>9, <1>10 DEF HandlerStep, QuietStep

LEMMA CollectorJoins ==
    ASSUME IInv, JoinersWait, CollectorStep, ~Die
    PROVE  JoinersWait'
<1> USE SlotFacts DEF JoinersWait
<1>0. /\ TypeOK /\ HandlerAtSlot /\ CollectorAtSlot
      /\ \A h \in Handler : pc[h] = "join" => at[h] \in Slot
  BY DEF IInv, Owners, HandlerAtSlot
<1>1. CASE RemoveEntry
  <2>1. PICK t \in collector.todo :
          \/ collector' = [collector EXCEPT !.todo = @ \ {t}] /\ UNCHANGED <<timer, pc, at>>
          \/ /\ StopForRemoval(<<t, collector.dev>>)
             /\ \/ timer[<<t, collector.dev>>] = "none"
                \/ ~Joining(<<t, collector.dev>>)
    BY <1>1 DEF RemoveEntry
  <2>2. CASE collector' = [collector EXCEPT !.todo = @ \ {t}] /\ UNCHANGED <<timer, pc, at>>
    BY <1>0, <2>2 DEF TypeOK, Collector
  <2>3. CASE /\ StopForRemoval(<<t, collector.dev>>)
             /\ timer[<<t, collector.dev>>] = "none" \/ ~Joining(<<t, collector.dev>>)
    <3> DEFINE s == <<t, collector.dev>>
    <3>1. s \in Slot /\ s \in Timer /\ s # Unlinked
      BY <1>0, <1>1 DEF TypeOK, Collector, CollectorAtSlot, RemoveEntry, Slot
    <3>2. collector'.slot = s /\ collector'.pc = (IF timer[s] = "none" THEN "erase" ELSE "join")
      BY <1>0, <2>3 DEF StopForRemoval, TypeOK, Collector
    <3>3. UNCHANGED <<pc, at>> /\ timer' = [timer EXCEPT ![s] = Stopped(@)]
      BY <2>3 DEF StopForRemoval
    <3>4. timer[s] = "none" \/ ~Joining(s)
      BY <2>3
    <3> HIDE DEF s
    <3>5. \A k \in Timer : /\ timer'[k] = IF k = s THEN Stopped(timer[k]) ELSE timer[k]
                           /\ timer[k] \in Ending => timer'[k] \in Ending
      BY <1>0, <3>3 DEF TypeOK, Stopped, Ending
    <3>6. timer[s] # "none" => timer'[s] \in Ending
      BY <1>0, <3>1, <3>5 DEF TypeOK, TimerThread, Stopped, Ending
    <3> QED BY <1>0, <3>1, <3>2, <3>3, <3>4, <3>5, <3>6 DEF Joining
  <2> QED BY <2>1, <2>2, <2>3
<1>2. CASE CollectorJoin
  <2>1. /\ UNCHANGED <<pc, at>> /\ timer' = [timer EXCEPT ![collector.slot] = "none"]
        /\ collector.pc = "join" /\ collector'.pc = "erase"
    BY <1>0, <1>2 DEF CollectorJoin, TypeOK, Collector
  <2> QED BY <1>0, <2>1 DEF TypeOK
<1>3. CASE EraseEntry
  <2> DEFINE s == collector.slot
  <2>1. /\ timer[s] = "none" \/ ~Joining(s)
        /\ timer' = [timer EXCEPT ![s] = "none", ![Unlinked] = Stopped(timer[s])]
        /\ pc' = [h \in Handler |-> IF at[h] = s /\ pc[h] = "spawn" THEN "freed" ELSE pc[h]]
        /\ UNCHANGED at /\ collector.pc = "erase" /\ collector'.pc = "destroy"
    BY <1>0, <1>3 DEF EraseEntry, TypeOK, Collector
  <2>2. s \in Slot /\ \A h \in Handler : pc[h] = "join" => at[h] # s
    BY <1>0, <2>1 DEF CollectorAtSlot, Joining, Ending
  <2>3. \A h \in Handler : pc'[h] = "join" => pc[h] = "join"
    BY <2>1
  <2>4. /\ timer'[Unlinked] # "waiting"
        /\ \A k \in Slot \ {s} : timer'[k] = timer[k]
    BY <1>0, <2>1, <2>2 DEF TypeOK, Stopped
  <2> HIDE DEF s
  <2> QED BY <1>0, <2>1, <2>2, <2>3, <2>4
<1>4. CASE DestroyEntry
  <2>1. /\ UNCHANGED <<pc, at>> /\ timer' = [timer EXCEPT ![Unlinked] = "none"]
        /\ collector'.pc = "next"
    BY <1>0, <1>4 DEF DestroyEntry, TypeOK, Collector
  <2> QED BY <1>0, <2>1 DEF TypeOK
<1>5. CASE ForgetDevice
  BY <1>5 DEF ForgetDevice, IdleCollector, slots
<1> QED BY <1>1, <1>2, <1>3, <1>4, <1>5 DEF CollectorStep

LEMMA JoinersInvariant == IInv /\ JoinersWait /\ [Next]_vars => JoinersWait'
<1> SUFFICES ASSUME IInv, JoinersWait, [Next]_vars PROVE JoinersWait'
  OBVIOUS
<1> USE SlotFacts
<1>0. /\ TypeOK /\ CollectorAtSlot
      /\ \A h \in Handler : pc[h] = "join" => at[h] \in Slot
  BY DEF IInv, Owners, HandlerAtSlot
<1>1. CASE Die
  BY <1>1 DEF Die, JoinersWait, IdleCollector
<1>2. ASSUME NEW h \in Handler, HandlerStep(h), ~Die PROVE JoinersWait'
  BY <1>2, HandlerJoins
<1>3. ASSUME NEW h \in Handler, CallStep(h) PROVE JoinersWait'
  <2>1. UNCHANGED <<timer, collector>>
    BY <1>3 DEF CallStep, QuestOnNode, Quest, HotStart, Serve, threads
  <2>2. \A g \in Handler : pc'[g] = "join" => pc[g] = "join" /\ at'[g] = at[g]
    BY <1>0, <1>3 DEF CallStep, QuestOnNode, Quest, HotStart, Serve, Goto, threads, TypeOK
  <2> QED BY <2>1, <2>2 DEF JoinersWait
<1>4. ASSUME NEW k \in Timer, TimerStep(k), ~Die PROVE JoinersWait'
  <2>1. UNCHANGED <<pc, at, collector>>
    BY <1>0, <1>4, TimerAdvances DEF threads
  <2>2. \E v \in Ending : timer' = [timer EXCEPT ![k] = v]
    BY <1>4 DEF TimerStep, StopTimerThread, ExpireTimer, TagDeleting, RemoveContainer, TagNoExist,
                Ending
  <2>3. \A j \in Timer : timer'[j] = timer[j] \/ timer'[j] \in Ending
    BY <1>0, <2>2 DEF TypeOK
  <2> QED BY <1>0, <2>1, <2>3 DEF JoinersWait, CollectorAtSlot, Ending
<1>5. CASE CollectorStep /\ ~Die
  BY <1>5, CollectorJoins
<1>6. CASE \/ \E d \in Device : RegisNode(d) \/ Disconnect(d)
           \/ \E s \in Slot : BootService(s) \/ ExitContainer(s)
           \/ Restart \/ UNCHANGED vars
  <2>1. UNCHANGED <<pc, at, timer>> /\ (UNCHANGED collector \/ collector'.pc = "next")
    BY <1>6 DEF RegisNode, Disconnect, BootService, ExitContainer, Restart, vars, threads
  <2> QED BY <2>1 DEF JoinersWait
<1> QED BY <1>1, <1>2, <1>3, <1>4, <1>5, <1>6 DEF Next

\* A join always comes to its end: the thread that is joined has been told to stop or is on
\* its way out, which by ThreadsRunDown it never leaves, and nobody else joins it.
THEOREM JoinsAreAwaited == Spec => []JoinersWait
<1>1. Init => JoinersWait
  BY SlotFacts DEF Init, JoinersWait, IdleCollector
<1> QED BY <1>1, JoinersInvariant, Invariant, PTL DEF Spec

-----------------------------------------------------------------------------
(* What a wait in getOrCrtSrvByTType comes to. *)

\* A quest leaves the wait loop with all its polls used up.
PollsUsedUp == \A h \in Handler : pc[h] = "waited" => call[h].ticks = 0

LEMMA HandlerPolls ==
    ASSUME TypeOK, NEW h \in Handler, HandlerStep(h), ~Die
    PROVE  /\ \A g \in Handler \ {h} : pc'[g] = pc[g] /\ call'[g] = call[g]
           /\ pc'[h] = "waited" => call'[h].ticks = 0
<1> USE DEF Goto, Return, Branch, NoService
<1>0. /\ pc \in [Handler -> HandlerPC] /\ call \in [Handler -> Call]
      /\ call[h].ticks \in 0..WaitTicks /\ WaitTicks \in Nat
  BY WaitAssumption DEF TypeOK, Call
<1>1. CASE LookUpDevice(h) \/ CheckSupport(h) \/ ProbeService(h) \/ DropService(h) \/ ResetStatus(h)
  BY <1>0, <1>1 DEF LookUpDevice, CheckSupport, ProbeService, DropService, StoreServices, ResetStatus,
     StoreStatus
<1>2. CASE Dispatch(h) \/ DispatchOnDevice(h)
  BY <1>0, <1>2 DEF Dispatch, DispatchOnDevice, Switch
<1>3. CASE Wait(h)
  BY <1>0, <1>3 DEF Wait, WaitLoop
<1>4. CASE WaitOnDevice(h)
  BY <1>0, <1>4 DEF WaitOnDevice, WaitLoop
<1>5. CASE CheckWait(h) \/ CheckWaitOnDevice(h)
  BY <1>0, <1>5 DEF CheckWait, CheckWaitOnDevice, AfterWait
<1>6. CASE RefreshTimer(h) \/ AnswerService(h) \/ TagCreating(h) \/ ClearServices(h)
  BY <1>0, <1>6 DEF RefreshTimer, AnswerService, TagCreating, ClearServices, StoreServices
<1>7. CASE CreateContainer(h) \/ StartContainer(h) \/ AwaitPort(h) \/ FailCreation(h)
  BY <1>0, <1>7 DEF CreateContainer, StartContainer, AwaitPort, FailCreation, CreationFailed
<1>8. CASE PublishService(h) \/ TagRunning(h) \/ SetTimer(h) \/ ArmTimer(h) \/ JoinTimer(h)
  BY <1>0, <1>8 DEF SetTimer, PublishService, StoreServices, TagRunning, StoreStatus, ArmTimer, JoinTimer
<1>9. CASE SpawnTimer(h) \/ SpawnFreedTimer(h)
  BY <1>0, <1>9 DEF SpawnTimer, SpawnFreedTimer, Armed
<1>10. CASE HotNext(h) \/ Forwarded(h)
  BY <1>0, <1>10 DEF HotNext, HotVisit, HotEnd, Forwarded
<1> QED BY <1>1, <1>2, <1>3, <1>4, <1>5, <1>6, <1>7, <1>8, <1>9, <1>10 DEF HandlerStep

LEMMA StepPolls == IInv /\ PollsUsedUp /\ [Next]_vars => PollsUsedUp'
<1> SUFFICES ASSUME TypeOK, PollsUsedUp, [Next]_vars PROVE PollsUsedUp'
  BY DEF IInv
<1>1. CASE Die
  BY <1>1 DEF Die, PollsUsedUp
<1>2. ASSUME NEW h \in Handler, HandlerStep(h), ~Die PROVE PollsUsedUp'
  BY <1>2, HandlerPolls DEF PollsUsedUp
<1>3. ASSUME NEW h \in Handler, CallStep(h) PROVE PollsUsedUp'
  <2> DEFINE Arrived ==
        pc'[h] # "waited" /\ \A g \in Handler \ {h} : pc'[g] = pc[g] /\ call'[g] = call[g]
  <2>1. Arrived
    <3>0. pc \in [Handler -> HandlerPC] /\ call \in [Handler -> Call]
      BY DEF TypeOK
    <3>1. ASSUME NEW t \in Task, NEW d \in Device, QuestOnNode(h, t, d) PROVE Arrived
      BY <3>0, <3>1 DEF QuestOnNode, Serve, Goto
    <3>2. ASSUME NEW t \in Task, Quest(h, t) PROVE Arrived
      BY <3>0, <3>2 DEF Quest, Serve, Goto, threads
    <3>3. ASSUME NEW t \in Task, HotStart(h, t) PROVE Arrived
      BY <3>0, <3>3 DEF HotStart, Serve, Goto
    <3> QED BY <1>3, <3>1, <3>2, <3>3 DEF CallStep
  <2> QED BY <2>1 DEF PollsUsedUp
<1>4. ASSUME NEW k \in Timer, TimerStep(k), ~Die PROVE PollsUsedUp'
  BY <1>4, TimerAdvances DEF PollsUsedUp, threads
<1>5. CASE CollectorStep /\ ~Die
  <2>1. ASSUME NEW h \in Handler
        PROVE  (pc'[h] = "waited" => pc[h] = "waited") /\ call'[h].ticks = call[h].ticks
    <3>0. call[h] \in Call
      BY DEF TypeOK
    <3>1. CASE EraseEntry
      BY <1>5, <3>0, <3>1 DEF EraseEntry, Call
    <3>2. CASE RemoveEntry \/ CollectorJoin \/ DestroyEntry \/ ForgetDevice
      BY <1>5, <3>2 DEF RemoveEntry, StopForRemoval, CollectorJoin, DestroyEntry, ForgetDevice
    <3> QED BY <1>5, <3>1, <3>2 DEF CollectorStep
  <2> QED BY <2>1 DEF PollsUsedUp
<1>6. CASE UNCHANGED vars \/ Restart \/ (\E d \in Device : RegisNode(d) \/ Disconnect(d))
           \/ (\E s \in Slot : BootService(s) \/ ExitContainer(s))
  BY <1>6 DEF RegisNode, Disconnect, BootService, ExitContainer, Restart, vars, threads, PollsUsedUp
<1> QED BY <1>1, <1>2, <1>3, <1>4, <1>5, <1>6 DEF Next

\* A quest that has waited in getOrCrtSrvByTType for the creation of its service is refused,
\* always, whatever has become of the creation: || in the condition of the loop
\* (scheduler.cpp:597) makes it go on until index is 0, which line 602 takes for a timeout.
THEOREM WaitersRefused == Spec => [][\A h \in Handler : CheckWait(h) => NoService(h)]_vars
<1>1. Init => PollsUsedUp
  BY DEF Init, PollsUsedUp
<1>2. PollsUsedUp => \A h \in Handler : CheckWait(h) => NoService(h)
  BY DEF PollsUsedUp, CheckWait, AfterWait
<1> QED BY <1>1, <1>2, StepPolls, Invariant, PTL DEF Spec

-----------------------------------------------------------------------------
(* What the exception of CreateContainer leaves behind. *)

\* The labels of a handler that stores no status of its slot and works on no timer.
IdlingPC == {"lookup", "supports", "dispatch", "waiting", "waited", "dispatchOnDevice",
             "waitingOnDevice", "waitedOnDevice", "refresh", "answer", "forward", "freed",
             "hotNext"}

\* A cut creation's Creating, with nobody on the slot whose next stores would cover it up:
\* no second creation, no handler that probes or arms, no timer that is still to fire.
Stranded(s) ==
    /\ s \in abandoned /\ status[s] = "Creating"
    /\ \A k \in Timer : SlotOf(k) = s => timer[k] \in {"none", "ended"}
    /\ \A h \in Handler : at[h] = s => pc[h] \in IdlingPC

\* The ways out: the entry goes, with its device or with the process, or a hot start
\* creates the service without a look at its status.
Recreated(s) == s \notin entries' \/ \E h \in Handler : at'[h] = s /\ pc'[h] = "create"

StrandedStays(s) ==
    /\ Stranded(s)'
    /\ \A h \in Handler : at[h] = s /\ pc[h] = "waiting" => pc'[h] = "waiting" /\ at'[h] = s

\* No handler idling at the slot, nor one at another slot, takes it out of Creating.
LEMMA StrandedHandler ==
    ASSUME IInv, NEW s \in Slot, Stranded(s), s \in entries,
           NEW h \in Handler, HandlerStep(h) \/ CallStep(h), ~Die, ~Recreated(s)
    PROVE  StrandedStays(s)
<1> USE DEF registry, slots, threads
<1>0. /\ TypeOK /\ HandlerAtSlot /\ CollectorAtSlot
      /\ pc \in [Handler -> HandlerPC] /\ at \in [Handler -> AnySlot]
      /\ status \in [Slot -> Status] /\ timer \in [Timer -> TimerThread]
      /\ NoSlot # s
  BY NoSlotAssumption DEF IInv, Owners, TypeOK, Slot
<1> SUFFICES /\ UNCHANGED collector /\ s \in abandoned' /\ status'[s] = "Creating"
             /\ \A k \in Timer : SlotOf(k) = s => timer'[k] \in {"none", "ended"}
             /\ \A g \in Handler \ {h} : pc'[g] = pc[g] /\ at'[g] = at[g]
             /\ at'[h] = s => pc'[h] \in IdlingPC
             /\ at[h] = s /\ pc[h] = "waiting" => pc'[h] = "waiting" /\ at'[h] = s
  BY DEF Stranded, StrandedStays, SlotOf
<1>1. CASE QuietStep(h)
  <2>1. QuietMove(h)
    BY <1>0, <1>1, QuietSteps
  <2>2. CASE HotNext(h)
    <3>1. at'[h] = s => pc'[h] \in IdlingPC
      BY <1>0, <2>2 DEF HotNext, HotEnd, HotVisit, Return, Goto, IdlingPC, Recreated
    <3> QED BY <2>1, <2>2, <3>1 DEF QuietMove, Stranded, HotNext
  <2>3. CASE ~HotNext(h)
    <3>1. at'[h] \in {at[h], NoSlot}
      BY <1>0, <1>1, <2>3 DEF QuietStep, LookUpDevice, CheckSupport, Dispatch, DispatchOnDevice,
         Switch, Wait, WaitOnDevice, WaitLoop, CheckWait, CheckWaitOnDevice, AfterWait,
         ProbeService, DropService, RefreshTimer, AnswerService, ClearServices, StoreServices,
         StartContainer, AwaitPort, PublishService, SpawnFreedTimer, Armed, Forwarded, Branch,
         NoService, Return
    <3>2. ASSUME at[h] = s, at'[h] = s
          PROVE  pc'[h] \in IdlingPC /\ (pc[h] = "waiting" => pc'[h] = "waiting")
      <4> USE DEF Branch, NoService, Return, Goto, IdlingPC, Stranded
      <4>1. CASE LookUpDevice(h) \/ CheckSupport(h)
        BY <1>0, <3>2, <4>1 DEF LookUpDevice, CheckSupport
      <4>2. CASE Dispatch(h) \/ DispatchOnDevice(h)
        BY <1>0, <3>2, <4>2 DEF Dispatch, DispatchOnDevice, Switch
      <4>3. CASE Wait(h) \/ WaitOnDevice(h)
        BY <1>0, <3>2, <4>3 DEF Wait, WaitOnDevice, WaitLoop
      <4>4. CASE CheckWait(h) \/ CheckWaitOnDevice(h)
        BY <1>0, <3>2, <4>4 DEF CheckWait, CheckWaitOnDevice, AfterWait
      <4>5. CASE RefreshTimer(h) \/ AnswerService(h) \/ SpawnFreedTimer(h) \/ Forwarded(h)
        BY <1>0, <3>2, <4>5 DEF RefreshTimer, AnswerService, SpawnFreedTimer, Armed, Forwarded
      <4>6. ~(\/ ProbeService(h) \/ DropService(h) \/ ClearServices(h) \/ StartContainer(h)
              \/ AwaitPort(h) \/ PublishService(h))
        BY <3>2 DEF ProbeService, DropService, ClearServices, StartContainer, AwaitPort,
           PublishService
      <4> QED BY <1>1, <2>3, <4>1, <4>2, <4>3, <4>4, <4>5, <4>6 DEF QuietStep
    <3>3. at[h] = s /\ pc[h] = "waiting" => at'[h] = s
      BY <1>0, <1>1, <2>3 DEF Stranded, QuietStep, LookUpDevice, CheckSupport, Dispatch,
         DispatchOnDevice, Wait, WaitOnDevice, WaitLoop, CheckWait, CheckWaitOnDevice,
         ProbeService, DropService, RefreshTimer, AnswerService, ClearServices, StartContainer,
         AwaitPort, PublishService, SpawnFreedTimer, Forwarded
    <3> QED BY <2>1, <1>0, <3>1, <3>2, <3>3 DEF QuietMove, Stranded
  <2> QED BY <2>2, <2>3
<1>2. CASE \/ ResetStatus(h) \/ TagCreating(h) \/ CreateContainer(h) \/ FailCreation(h)
           \/ TagRunning(h) \/ SetTimer(h) \/ ArmTimer(h) \/ JoinTimer(h) \/ SpawnTimer(h)
  <2>1. at[h] # s /\ at[h] \in Slot
    BY <1>0, <1>2 DEF Stranded, IdlingPC, HandlerAtSlot, ResetStatus, TagCreating,
       CreateContainer, FailCreation, TagRunning, SetTimer, ArmTimer, JoinTimer, SpawnTimer
  <2>2. UNCHANGED collector /\ (at'[h] = at[h] \/ at'[h] = NoSlot)
        /\ \A g \in Handler \ {h} : pc'[g] = pc[g] /\ at'[g] = at[g]
    BY <1>0, <1>2 DEF ResetStatus, TagCreating, StoreStatus, CreateContainer, FailCreation,
       CreationFailed, TagRunning, SetTimer, ArmTimer, JoinTimer, SpawnTimer, Armed, Goto, Return
  <2>3. s \in abandoned' /\ status'[s] = "Creating"
    BY <1>0, <1>2, <2>1 DEF Stranded, ResetStatus, TagCreating, StoreStatus, SetStatus,
       CreateContainer, FailCreation, TagRunning, SetTimer, ArmTimer, JoinTimer, SpawnTimer, Armed
  <2>4. \A k \in Timer : k # at[h] => timer'[k] = timer[k]
    BY <1>0, <1>2 DEF ResetStatus, TagCreating, StoreStatus, CreateContainer, FailCreation,
       TagRunning, SetTimer, ArmTimer, JoinTimer, SpawnTimer, Armed
  <2>5. \A k \in Timer : SlotOf(k) = s => k # at[h]
    BY <2>1, SlotFacts DEF SlotOf
  <2> QED BY <1>0, <2>1, <2>2, <2>3, <2>4, <2>5 DEF Stranded
<1>3. CASE CallStep(h)
  BY <1>0, <1>3, SlotFacts DEF Stranded, CallStep, QuestOnNode, Quest, HotStart, Serve, Goto,
     IdlingPC
<1> QED BY <1>1, <1>2, <1>3 DEF HandlerStep, QuietStep

\* Once an exception has cut a creation and nobody else is at work on its slot, every quest for
\* it polls without end (scheduler.cpp:597) or is refused after its ten polls: nothing takes the
\* slot out of the Creating of line 713 again, but the removal of its device, the end of the
\* process, or a hot start.
THEOREM CutForGood ==
    Spec => [][\A s \in Slot : Stranded(s) /\ s \in entries => StrandedStays(s) \/ Recreated(s)]_vars
<1>1. ASSUME IInv, Next, NEW s \in Slot, Stranded(s), s \in entries, ~Recreated(s)
      PROVE  StrandedStays(s)
  <2> USE DEF registry, slots, threads
  <2>0. /\ TypeOK /\ CollectorAtSlot /\ TimerHasEntry /\ collector \in Collector
        /\ timer \in [Timer -> TimerThread] /\ status \in [Slot -> Status]
        /\ pc \in [Handler -> HandlerPC] /\ at \in [Handler -> AnySlot]
    BY <1>1 DEF IInv, Owners, TypeOK
  <2>1. ~Die
    BY <1>1 DEF Die, Recreated
  <2>2. ASSUME NEW h \in Handler, CallStep(h) \/ HandlerStep(h) PROVE StrandedStays(s)
    BY <1>1, <2>1, <2>2, StrandedHandler
  <2>3. ASSUME NEW k \in Timer, TimerStep(k) PROVE StrandedStays(s)
    <3>1. SlotOf(k) # s /\ SlotOf(k) \in Slot
      BY <1>1, <2>0, <2>3 DEF Stranded, TimerStep, StopTimerThread, ExpireTimer, TagDeleting,
         RemoveContainer, TagNoExist, SlotOf, Timer, TimerHasEntry, CollectorAtSlot
    <3>2. /\ UNCHANGED <<pc, at, collector>> /\ s \in abandoned' /\ status'[s] = "Creating"
          /\ \A j \in Timer : j # k => timer'[j] = timer[j]
      BY <1>1, <2>0, <2>1, <2>3, <3>1 DEF Stranded, TimerStep, StopTimerThread, ExpireTimer,
         TagDeleting, RemoveContainer, TagNoExist, SetStatus
    <3> QED BY <1>1, <3>1, <3>2 DEF Stranded, StrandedStays, SlotOf
  <2>4. CASE CollectorStep
    <3>1. CASE RemoveEntry
      BY <1>1, <2>0, <2>1, <3>1, SlotFacts DEF RemoveEntry, StopForRemoval, Stopped, Stranded,
         StrandedStays, SlotOf, TimerHasEntry, Collector
    <3>2. CASE CollectorJoin \/ DestroyEntry \/ ForgetDevice
      BY <1>1, <2>0, <2>1, <3>2, SlotFacts DEF CollectorJoin, DestroyEntry, ForgetDevice,
         IdleCollector, Stranded, StrandedStays, SlotOf, TimerHasEntry, Collector
    <3>3. CASE EraseEntry
      <4>1. collector.slot # s
        BY <1>1, <2>1, <3>3 DEF EraseEntry, Recreated
      <4> QED BY <1>1, <2>0, <2>1, <3>3, <4>1, SlotFacts DEF EraseEntry, Stopped, Stranded,
              StrandedStays, SlotOf, TimerHasEntry, CollectorAtSlot, Collector
    <3> QED BY <2>4, <3>1, <3>2, <3>3 DEF CollectorStep
  <2>5. CASE (\E d \in Device : RegisNode(d) \/ Disconnect(d)) \/ Restart
             \/ (\E c \in Slot : BootService(c) \/ ExitContainer(c))
    BY <1>1, <2>0, <2>5, SlotFacts DEF RegisNode, Disconnect, Restart, BootService, ExitContainer,
       Stranded, StrandedStays, SlotOf, TimerHasEntry
  <2> QED BY <1>1, <2>2, <2>3, <2>4, <2>5 DEF Next
<1>2. IInv /\ [Next]_vars =>
        [\A s \in Slot : Stranded(s) /\ s \in entries => StrandedStays(s) \/ Recreated(s)]_vars
  BY <1>1
<1> QED BY <1>2, Invariant, PTL DEF Spec

=============================================================================
