---------------------------- MODULE TaskService ----------------------------
(***************************************************************************)
(* The life of a task service in the gateway (src/scheduler/scheduler.cpp). *)
(*                                                                         *)
(* A slot <<task, device>> is a cell of Docker_scheduler::tdMap: the status *)
(* of the container that serves the task on that device, the list of        *)
(* published services and a TimerCallback that removes the idle container.  *)
(* Handlers (httplib pool threads), the timer threads and the collector     *)
(* thread all work on the slots; only the registry reads of a handler and   *)
(* the removal of a device take devs_mutex.                                 *)
(*                                                                         *)
(* A step is what one thread does between two accesses to state that        *)
(* another thread may change.  A slot's container stands for the container  *)
(* of that name on the device's docker daemon, whether it is addressed by   *)
(* its id or by its name: only the gateway removes containers.              *)
(***************************************************************************)
EXTENDS Naturals

CONSTANTS
    Handler,      \* threads of the gateway's HTTP pool
    Task,         \* task types
    Device,       \* device ids
    Configured,   \* the <<task, device>> pairs static_info.json describes
    WaitTicks,    \* one-second polls of a handler that waits for a creation (10)
    Workload,     \* what happens to the gateway: a subset of Calls
    NoDevice,     \* the default Device, with an empty address
    NoSlot,       \* where an idle handler is
    Unlinked      \* names the timer of an entry that erase() has taken out of tdMap

Calls == {"quest", "questOnNode", "hotStart", "disconnect"}

ASSUME WorkloadAssumption == Workload \subseteq Calls
ASSUME ConfiguredAssumption == Configured \subseteq Task \X Device
ASSUME WaitAssumption == WaitTicks \in Nat \ {0}
ASSUME NoSlotAssumption ==
    /\ NoSlot \notin Task \X (Device \union {NoDevice})
    /\ Unlinked \notin Task \X Device

VARIABLES
    device_static_info,  \* [Device -> absent | known | blank (inserted by operator[])]
    static_info,         \* the <<task, device>> keys of static_info
    tgt_dev,             \* the device getTgtDevByTtypeAndDevIds caches over its calls
    tasks,               \* the outer keys of tdMap
    entries,             \* the <<task, device>> keys of tdMap
    status,              \* [Slot -> DevSrvInfos::dev_srv_info_status]
    abandoned,           \* not code: the slots whose creation an exception has cut and whose
                         \* Creating is still the last thing stored
    srv_infos,           \* [Slot -> whether DevSrvInfos::srv_infos is non-empty]
    timer,               \* [Timer -> the thread of DevSrvInfos::timer_callback]
    unset,               \* the timers that are as the default constructor leaves them, with
                         \* an empty callback, although a handler has set them to start them
    container,           \* [Slot -> the state of the container]
    pc,                  \* [Handler -> program counter]
    at,                  \* [Handler -> the slot it works on]
    call,                \* [Handler -> the API call it serves and its locals]
    collector,           \* the collector thread inside RemoveDevice
    alive                \* the gateway process has not died

registry == <<device_static_info, static_info, tgt_dev, tasks>>
timers   == <<timer, unset>>
stored   == <<status, abandoned>>
slots    == <<entries, stored, srv_infos>>
threads  == <<pc, at, call, collector>>
vars     == <<registry, timers, slots, threads, container, alive>>

Slot    == Task \X Device
Timer   == Slot \union {Unlinked}
AnySlot == (Task \X (Device \union {NoDevice})) \union {NoSlot}

Status  == {"NoExist", "Creating", "Running", "Deleting"}

\* none: not joinable.  stopping: waiting with stop_flag set.  expired .. resetting:
\* inside inactiveTimeCallback.  ended: run() has returned, the thread is not joined.
TimerThread == {"none", "waiting", "stopping", "expired", "removing", "resetting", "ended"}

ContainerState == {"absent", "stopped", "starting", "up"}

\* hot: the call is HotStartAllNodeByTType, with todo the keys not visited yet.
\* kept: it has put elapsed_time back to 0.  dangling: RemoveDevice has erased the entry
\* its map iterator stands on.
Call == [hot : BOOLEAN, ticks : 0..WaitTicks, todo : SUBSET Device,
         kept : BOOLEAN, dangling : BOOLEAN]
NoCall == [hot |-> FALSE, ticks |-> 0, todo |-> {}, kept |-> FALSE, dangling |-> FALSE]

\* The labels ...OnDevice are those of getOrCrtSrvByTTypeOnDevice.
HandlerPC == {"idle", "lookup", "supports",
              "dispatch", "waiting", "waited",
              "dispatchOnDevice", "waitingOnDevice", "waitedOnDevice",
              "probe", "drop", "reset", "refresh", "answer",
              "create", "clear", "docker", "start", "waitPort", "failed",
              "publish", "run", "configure", "arm", "join", "spawn", "freed",
              "hotNext", "forward"}

\* A handler between its store of Creating and the store that ends the creation.
CreatingPC == {"clear", "docker", "start", "waitPort", "failed", "publish", "run"}
\* A handler that has set Running and still has to start the timer.
ArmingPC   == {"configure", "arm", "join", "spawn"}

Collector == [pc : {"idle", "next", "join", "erase", "destroy"},
              dev : Device \union {NoDevice}, slot : AnySlot, todo : SUBSET Task]
IdleCollector == [pc |-> "idle", dev |-> NoDevice, slot |-> NoSlot, todo |-> {}]

TypeOK ==
    /\ device_static_info \in [Device -> {"absent", "known", "blank"}]
    /\ static_info \subseteq Slot
    /\ tgt_dev \in Device \union {NoDevice, "unscheduled"}
    /\ tasks \subseteq Task
    /\ entries \subseteq Slot
    /\ status \in [Slot -> Status]
    /\ abandoned \subseteq Slot
    /\ srv_infos \in [Slot -> BOOLEAN]
    /\ timer \in [Timer -> TimerThread]
    /\ unset \subseteq Timer
    /\ container \in [Slot -> ContainerState]
    /\ pc \in [Handler -> HandlerPC]
    /\ at \in [Handler -> AnySlot]
    /\ call \in [Handler -> Call]
    /\ collector \in Collector
    /\ alive \in BOOLEAN

\* A gateway process starts with an empty registry; an earlier one may have left
\* containers behind.
Init ==
    /\ device_static_info = [d \in Device |-> "absent"]
    /\ static_info = Configured
    /\ tgt_dev = "unscheduled"
    /\ tasks = {}
    /\ entries = {}
    /\ status = [s \in Slot |-> "NoExist"]
    /\ abandoned = {}
    /\ srv_infos = [s \in Slot |-> FALSE]
    /\ timer = [k \in Timer |-> "none"]
    /\ unset = {}
    /\ pc = [h \in Handler |-> "idle"]
    /\ at = [h \in Handler |-> NoSlot]
    /\ call = [h \in Handler |-> NoCall]
    /\ collector = IdleCollector
    /\ alive = TRUE
    /\ container \in {c \in [Slot -> {"absent", "up", "stopped"}] :
                        \A s \in Slot \ Configured : c[s] = "absent"}

-----------------------------------------------------------------------------
(* Idioms of the code *)

Goto(h, label) == pc' = [pc EXCEPT ![h] = label]

\* The call is answered and the handler thread goes back to the pool.
Return(h) ==
    /\ pc' = [pc EXCEPT ![h] = "idle"]
    /\ at' = [at EXCEPT ![h] = NoSlot]
    /\ call' = [call EXCEPT ![h] = NoCall]

\* tdMap[ttype][global_id]: the access inserts a default entry when there is none.
Touch(s) == entries' = entries \union {s}

SetStatus(s, v) ==
    /\ Touch(s)
    /\ status' = [status EXCEPT ![s] = v]
    /\ abandoned' = abandoned \ {s}

\* devs_mutex: the collector holds it exclusively during RemoveDevice.
DevsLocked == collector.pc # "idle"

\* std::terminate, or undefined behaviour that takes the process down.  Its memory is
\* gone, the containers are not.
Die ==
    /\ alive' = FALSE
    /\ device_static_info' = [d \in Device |-> "absent"]
    /\ static_info' = Configured
    /\ tgt_dev' = "unscheduled"
    /\ tasks' = {}
    /\ entries' = {}
    /\ status' = [s \in Slot |-> "NoExist"]
    /\ abandoned' = {}
    /\ srv_infos' = [s \in Slot |-> FALSE]
    /\ timer' = [k \in Timer |-> "none"]
    /\ unset' = {}
    /\ pc' = [h \in Handler |-> "idle"]
    /\ at' = [h \in Handler |-> NoSlot]
    /\ call' = [h \in Handler |-> NoCall]
    /\ collector' = IdleCollector
    /\ UNCHANGED container

\* What the caller does with createContainerByTType's nullopt: a quest is answered
\* 400, HotStartAllNodeByTType goes on to the next device.
CreationFailed(h) ==
    IF call[h].hot THEN Goto(h, "hotNext") /\ UNCHANGED <<at, call>> ELSE Return(h)

-----------------------------------------------------------------------------
(* The API calls (src/gateway/HttpServer.cpp) *)

Serve(h, s, label, hot) ==
    /\ pc[h] = "idle"
    /\ Goto(h, label)
    /\ at' = [at EXCEPT ![h] = s]
    /\ call' = [call EXCEPT ![h] = [NoCall EXCEPT !.hot = hot, !.todo = IF hot THEN Device ELSE {}]]
    /\ UNCHANGED <<timers, slots, collector, container, alive>>

QuestOnNode(h, t, d) ==
    /\ Serve(h, <<t, d>>, "lookup", FALSE)
    /\ UNCHANGED registry

\* Z3_schedule_v2 runs on every twentieth call only; the calls in between take the
\* cached device whatever their task type.  A device that does not support the task
\* may be chosen, and a key without a known device (see NodeRegistry) is a blank Device,
\* whose empty address makes every docker call fail.
ScheduleChoice ==
    {d \in Device : device_static_info[d] = "known"} \union {NoDevice}
        \union ({tgt_dev} \ {"unscheduled"})

\* Not modelled as steps: a quest for a task type that no node supports, or whose
\* scheduling throws, which is answered without touching anything.
Quest(h, t) ==
    /\ t \in tasks
    /\ \E d \in ScheduleChoice :
          /\ tgt_dev' = d
          /\ IF d = NoDevice
             THEN pc[h] = "idle" /\ UNCHANGED <<timers, slots, threads, container, alive>>
             ELSE Serve(h, <<t, d>>, "dispatch", FALSE)
    /\ UNCHANGED <<device_static_info, static_info, tasks>>

\* The loop runs over the live map; a key is visited at most once.
HotStart(h, t) ==
    /\ Serve(h, <<t, NoDevice>>, "hotNext", TRUE)
    /\ tasks' = tasks \union {t}
    /\ UNCHANGED <<device_static_info, static_info, tgt_dev>>

\* device_static_info[deviceId] inserts a blank Device when the device has been removed.
HotVisit(h, d) ==
    LET s == <<at[h][1], d>> IN
    /\ call' = [call EXCEPT ![h].todo = @ \ {d}, ![h].dangling = FALSE]
    /\ \/ /\ s \in entries /\ device_static_info[d] = "known"
          /\ Goto(h, "create")
          /\ at' = [at EXCEPT ![h] = s]
          /\ UNCHANGED registry
       \/ /\ s \in entries /\ device_static_info[d] # "known"
          /\ device_static_info' = [device_static_info EXCEPT ![d] = "blank"]
          /\ UNCHANGED <<pc, at, static_info, tgt_dev, tasks>>
       \/ s \notin entries /\ UNCHANGED <<pc, at, registry>>
    /\ UNCHANGED <<timers, slots, collector, container, alive>>

HotEnd(h) ==
    /\ call[h].todo = {}
    /\ Return(h)
    /\ UNCHANGED <<registry, timers, slots, collector, container, alive>>

\* The iterator dangles when the collector has erased the entry it stands on.
HotNext(h) ==
    /\ pc[h] = "hotNext"
    /\ \/ call[h].dangling /\ Die
       \/ HotEnd(h)
       \/ \E d \in call[h].todo : HotVisit(h, d)

\* ForwardMultipartRequest has used the service until here.
Forwarded(h) ==
    /\ pc[h] = "forward"
    /\ Return(h)
    /\ UNCHANGED <<registry, timers, slots, collector, container, alive>>

\* RegisNode takes no lock and keeps the entries a known device has.
RegisNode(d) ==
    LET supported == {t \in Task : <<t, d>> \in static_info} IN
    /\ device_static_info' = [device_static_info EXCEPT ![d] = "known"]
    /\ entries' = entries \union (supported \X {d})
    /\ tasks' = tasks \union supported
    /\ UNCHANGED <<static_info, tgt_dev, stored, srv_infos, timers, threads, container, alive>>

-----------------------------------------------------------------------------
(* getOrCrtSrvByTType and getOrCrtSrvByTTypeOnDevice *)

\* The handler moves on without a store to anything shared.
Branch(h, label) ==
    /\ Goto(h, label)
    /\ UNCHANGED <<registry, timers, stored, srv_infos, at, call, collector, container, alive>>

\* return nullopt
NoService(h) ==
    /\ Return(h)
    /\ UNCHANGED <<registry, timers, stored, srv_infos, collector, container, alive>>

\* A blank device is found as well, but every docker call on it fails.
LookUpDevice(h) ==
    /\ pc[h] = "lookup" /\ ~DevsLocked
    /\ IF device_static_info[at[h][2]] = "known" THEN Branch(h, "supports") ELSE NoService(h)
    /\ UNCHANGED entries

CheckSupport(h) ==
    /\ pc[h] = "supports" /\ ~DevsLocked
    /\ IF device_static_info[at[h][2]] = "known" /\ at[h] \in static_info
       THEN Branch(h, "dispatchOnDevice") ELSE NoService(h)
    /\ UNCHANGED entries

\* Mutation of Switch: one poll too many.
Switch_ExtraPoll(h, waiting) ==
    /\ Touch(at[h])
    /\ status[at[h]] = "Creating"
    /\ Goto(h, waiting)
    /\ call' = [call EXCEPT ![h].ticks = WaitTicks + 1]
    /\ UNCHANGED <<registry, timers, stored, srv_infos, at, collector, container, alive>>

\* switch (dev_srv_info_status)
Switch(h, waiting) ==
    /\ Touch(at[h])
    /\ \/ /\ status[at[h]] = "Creating"
          /\ Goto(h, waiting)
          /\ call' = [call EXCEPT ![h].ticks = WaitTicks]
          /\ UNCHANGED <<registry, timers, stored, srv_infos, at, collector, container, alive>>
       \/ status[at[h]] = "Running"  /\ Branch(h, "probe")
       \/ status[at[h]] = "NoExist"  /\ Branch(h, "create")
       \/ status[at[h]] = "Deleting" /\ NoService(h)

Dispatch(h) == pc[h] = "dispatch" /\ Switch(h, "waiting")
DispatchOnDevice(h) == pc[h] = "dispatchOnDevice" /\ Switch(h, "waitingOnDevice")

\* One turn of a wait loop, or its end.  index only matters as positive or not, so it
\* stays at 0.
WaitLoop(h, condition, exit) ==
    /\ Touch(at[h])
    /\ IF condition
       THEN /\ call' = [call EXCEPT ![h].ticks = IF @ = 0 THEN 0 ELSE @ - 1]
            /\ UNCHANGED <<registry, timers, stored, srv_infos, pc, at, collector, container,
                           alive>>
       ELSE Branch(h, exit)

Wait(h) ==
    /\ pc[h] = "waiting"
    /\ WaitLoop(h, status[at[h]] = "Creating" \/ call[h].ticks > 0, "waited")

\* Mutation of WaitOnDevice: the bound on the polls is missing.
WaitOnDevice_Unbounded(h) ==
    /\ pc[h] = "waitingOnDevice"
    /\ WaitLoop(h, status[at[h]] = "Creating", "waitedOnDevice")

WaitOnDevice(h) ==
    /\ pc[h] = "waitingOnDevice"
    /\ WaitLoop(h, status[at[h]] = "Creating" /\ call[h].ticks > 0, "waitedOnDevice")

\* index <= 0 || status == NoExist, a second read of the status.
AfterWait(h) ==
    /\ IF call[h].ticks = 0 THEN UNCHANGED entries ELSE Touch(at[h])
    /\ IF call[h].ticks = 0 \/ status[at[h]] = "NoExist"
       THEN NoService(h)
       ELSE /\ Goto(h, "refresh")
            /\ call' = [call EXCEPT ![h].ticks = 0]
            /\ UNCHANGED <<registry, timers, stored, srv_infos, at, collector, container, alive>>

CheckWait(h) == pc[h] = "waited" /\ AfterWait(h)
CheckWaitOnDevice(h) == pc[h] = "waitedOnDevice" /\ AfterWait(h)

\* A connection to a listening port may still fail within the two seconds.
ProbeService(h) ==
    /\ pc[h] = "probe"
    /\ Touch(at[h])
    /\ \/ srv_infos[at[h]] /\ container[at[h]] = "up" /\ Branch(h, "refresh")
       \/ Branch(h, "drop")

\* A store to the slot's status or to its list of services.
StoreStatus(h, v, label) ==
    /\ SetStatus(at[h], v)
    /\ Goto(h, label)
    /\ UNCHANGED <<registry, timers, srv_infos, at, call, collector, container, alive>>

StoreServices(h, v, label) ==
    /\ Touch(at[h])
    /\ srv_infos' = [srv_infos EXCEPT ![at[h]] = v]
    /\ Goto(h, label)
    /\ UNCHANGED <<registry, timers, stored, at, call, collector, container, alive>>

DropService(h) == pc[h] = "drop" /\ StoreServices(h, FALSE, "reset")
ResetStatus(h) == pc[h] = "reset" /\ StoreStatus(h, "NoExist", "create")

\* elapsed_time = 0 races with the timer thread's elapsed_time++ and may be lost; it
\* is of no effect once the interval has passed.
RefreshTimer(h) ==
    /\ pc[h] = "refresh"
    /\ Touch(at[h])
    /\ Goto(h, "answer")
    /\ \E kept \in BOOLEAN :
          /\ kept => timer[at[h]] \in {"waiting", "stopping"}
          /\ call' = [call EXCEPT ![h].kept = kept]
    /\ UNCHANGED <<registry, timers, stored, srv_infos, at, collector, container, alive>>

\* srv_infos[0] of an empty vector: the destroyed element, or a wild read.
AnswerService(h) ==
    /\ pc[h] = "answer"
    /\ \/ Touch(at[h]) /\ Branch(h, "forward")
       \/ ~srv_infos[at[h]] /\ Die

-----------------------------------------------------------------------------
(* createContainerByTType *)

\* static_info[ttype][dtype] leaves an empty description behind for a pair that has none.
TagCreating(h) ==
    /\ pc[h] = "create"
    /\ static_info' = static_info \union {at[h]}
    /\ SetStatus(at[h], "Creating")
    /\ Goto(h, "clear")
    /\ UNCHANGED <<device_static_info, tgt_dev, tasks, timers, srv_infos, at, call,
                   collector, container, alive>>

ClearServices(h) == pc[h] = "clear" /\ StoreServices(h, FALSE, "docker")

\* DockerClient::CreateContainer.  Its id, or the name when the answer was not 201,
\* stands for the same container.  An answer that is not the JSON it expects throws out of
\* the handler, a hot start included, and nobody stores the status again.
CreateContainer(h) ==
    /\ pc[h] = "docker"
    /\ \/ /\ container[at[h]] = "absent" /\ at[h] \in Configured
          /\ container' = [container EXCEPT ![at[h]] = "stopped"]
       \/ UNCHANGED container
    /\ \/ Goto(h, "start") /\ UNCHANGED <<at, call, abandoned>>
       \/ /\ Return(h)
          /\ abandoned' = abandoned \union {s \in {at[h]} : status[s] = "Creating"}
    /\ UNCHANGED <<registry, timers, entries, status, srv_infos, collector, alive>>

\* Started (204, or 304 when it runs already), or refused or unanswered.
StartContainer(h) ==
    /\ pc[h] = "start"
    /\ \/ /\ container[at[h]] # "absent"
          /\ container' = [container EXCEPT ![at[h]] =
                             IF @ = "up" THEN "up" ELSE "starting"]
          /\ \E label \in {"waitPort", "failed"} : Goto(h, label)
       \/ Goto(h, "failed") /\ UNCHANGED container
    /\ UNCHANGED <<registry, timers, slots, at, call, collector, alive>>

AwaitPort(h) ==
    /\ pc[h] = "waitPort"
    /\ \/ container[at[h]] = "up" /\ Branch(h, "publish")
       \/ Branch(h, "failed")
    /\ UNCHANGED entries

\* Mutation of FailCreation: a failure exit without the reset of the status.
FailCreation_NoReset(h) ==
    /\ pc[h] = "failed"
    /\ CreationFailed(h)
    /\ UNCHANGED <<registry, slots, timers, collector, container, alive>>

\* The three failure exits.  The container is left as it is.
FailCreation(h) ==
    /\ pc[h] = "failed"
    /\ SetStatus(at[h], "NoExist")
    /\ CreationFailed(h)
    /\ UNCHANGED <<registry, timers, srv_infos, collector, container, alive>>

PublishService(h) == pc[h] = "publish" /\ StoreServices(h, TRUE, "run")
TagRunning(h) == pc[h] = "run" /\ StoreStatus(h, "Running", "configure")

-----------------------------------------------------------------------------
(* TimerCallback (src/time_tools/TimeCallback.h): start() = stop(), then spawn *)

Joining(k) ==
    \/ \E h \in Handler : pc[h] = "join" /\ at[h] = k
    \/ collector.pc = "join" /\ collector.slot = k
    \/ collector.pc = "destroy" /\ k = Unlinked

\* The slot a timer's callback works on.
SlotOf(k) == IF k = Unlinked THEN collector.slot ELSE k

\* set_interval, set_callback, set_once_flag.  The std::function that is assigned may be
\* one that another handler is assigning, or that the timer thread reads (ExpireTimer).
SetTimer(h) ==
    /\ pc[h] = "configure"
    /\ \/ /\ Touch(at[h])
          /\ unset' = unset \ {at[h]}
          /\ Goto(h, "arm")
          /\ UNCHANGED <<registry, timer, stored, srv_infos, at, call, collector, container,
                         alive>>
       \/ (\E g \in Handler \ {h} : pc[g] = "configure" /\ at[g] = at[h]) /\ Die

\* What stop() leaves of the thread it is about to join.
Stopped(thread) == IF thread = "waiting" THEN "stopping" ELSE thread

\* Mutation of ArmTimer: start() does nothing when a thread exists already.
ArmTimer_Reuse(h) ==
    /\ pc[h] = "arm"
    /\ Touch(at[h])
    /\ IF timer[at[h]] = "none"
       THEN Goto(h, "spawn") /\ UNCHANGED <<at, call>>
       ELSE CreationFailed(h)
    /\ UNCHANGED <<registry, timers, stored, srv_infos, collector, container, alive>>

\* Mutation of ArmTimer: stop() sets the flag and does not join.
ArmTimer_NoJoin(h) ==
    /\ pc[h] = "arm"
    /\ Touch(at[h])
    /\ timer' = [timer EXCEPT ![at[h]] = Stopped(@)]
    /\ Goto(h, "spawn")
    /\ UNCHANGED <<registry, unset, stored, srv_infos, at, call, collector, container, alive>>

\* stop() of start(): a second join of one thread throws std::system_error, which
\* httplib answers with a 500, or is undefined.
ArmTimer(h) ==
    /\ pc[h] = "arm"
    /\ \/ /\ Touch(at[h])
          /\ timer' = [timer EXCEPT ![at[h]] = Stopped(@)]
          /\ IF timer[at[h]] # "none" /\ Joining(at[h])
             THEN Return(h)
             ELSE /\ Goto(h, IF timer[at[h]] = "none" THEN "spawn" ELSE "join")
                  /\ UNCHANGED <<at, call>>
          /\ UNCHANGED <<registry, unset, stored, srv_infos, collector, container, alive>>
       \/ timer[at[h]] # "none" /\ Joining(at[h]) /\ Die

JoinTimer(h) ==
    /\ pc[h] = "join" /\ timer[at[h]] = "ended"
    /\ timer' = [timer EXCEPT ![at[h]] = "none"]
    /\ Goto(h, "spawn")
    /\ UNCHANGED <<registry, unset, slots, at, call, collector, container, alive>>

\* start() returns the service to the caller.
Armed(h, kept) ==
    /\ Goto(h, IF call[h].hot THEN "hotNext" ELSE "forward")
    /\ call' = [call EXCEPT ![h].kept = kept /\ ~call[h].hot]
    /\ UNCHANGED <<registry, unset, slots, at, collector, container, alive>>

\* Assigning to a joinable std::thread terminates the process.
SpawnTimer(h) ==
    /\ pc[h] = "spawn"
    /\ \/ /\ timer[at[h]] = "none"
          /\ timer' = [timer EXCEPT ![at[h]] = "waiting"]
          /\ Armed(h, TRUE)
       \/ timer[at[h]] # "none" /\ Die

\* RemoveDevice has destroyed the TimerCallback that start() works on.
SpawnFreedTimer(h) ==
    /\ pc[h] = "freed"
    /\ \/ Armed(h, FALSE) /\ UNCHANGED timer
       \/ Die

\* run(): the flag is read once a second, before the sleep.
StopTimerThread(k) ==
    /\ timer[k] = "stopping"
    /\ timer' = [timer EXCEPT ![k] = "ended"]
    /\ UNCHANGED <<registry, unset, slots, threads, container, alive>>

\* 600 seconds without a refresh, or the default 30.  A forwarded quest ends long before
\* the 600: httplib's read timeout is at most 300 seconds.  An empty callback throws out of
\* the thread; one that is being assigned may do anything.
ExpireTimer(k) ==
    /\ timer[k] \in {"waiting", "stopping"}
    /\ k \in unset \/ ~\E h \in Handler : at[h] = SlotOf(k) /\ call[h].kept
    /\ \/ /\ k \notin unset
          /\ timer' = [timer EXCEPT ![k] = "expired"]
          /\ UNCHANGED <<registry, unset, slots, threads, container, alive>>
       \/ /\ k \in unset \/ \E h \in Handler : pc[h] = "configure" /\ at[h] = k
          /\ Die

\* Mutation of TagDeleting: the callback also clears the published services.
TagDeleting_Clears(k) ==
    /\ timer[k] = "expired"
    /\ timer' = [timer EXCEPT ![k] = "removing"]
    /\ SetStatus(SlotOf(k), "Deleting")
    /\ srv_infos' = [srv_infos EXCEPT ![SlotOf(k)] = FALSE]
    /\ UNCHANGED <<registry, unset, threads, container, alive>>

\* inactiveTimeCallback, after sleep(2).
TagDeleting(k) ==
    /\ timer[k] = "expired"
    /\ timer' = [timer EXCEPT ![k] = "removing"]
    /\ SetStatus(SlotOf(k), "Deleting")
    /\ UNCHANGED <<registry, unset, srv_infos, threads, container, alive>>

RemoveContainer(k) ==
    /\ timer[k] = "removing"
    /\ timer' = [timer EXCEPT ![k] = "resetting"]
    /\ \/ container' = [container EXCEPT ![SlotOf(k)] = "absent"]
       \/ UNCHANGED container
    /\ UNCHANGED <<registry, unset, slots, threads, alive>>

\* Mutation of TagNoExist: the status is reset only when the removal succeeded.
TagNoExist_OnlyIfRemoved(k) ==
    /\ timer[k] = "resetting"
    /\ IF container[SlotOf(k)] = "absent"
       THEN SetStatus(SlotOf(k), "NoExist") ELSE UNCHANGED <<entries, stored>>
    /\ timer' = [timer EXCEPT ![k] = "ended"]
    /\ UNCHANGED <<registry, unset, srv_infos, threads, container, alive>>

\* Mutation of TagNoExist: the timer is not a one-time timer and forgets the stop.
TagNoExist_Rearms(k) ==
    /\ timer[k] = "resetting"
    /\ SetStatus(SlotOf(k), "NoExist")
    /\ timer' = [timer EXCEPT ![k] = "waiting"]
    /\ UNCHANGED <<registry, unset, srv_infos, threads, container, alive>>

\* Whatever the daemon answered; then once_flag ends the thread.
TagNoExist(k) ==
    /\ timer[k] = "resetting"
    /\ SetStatus(SlotOf(k), "NoExist")
    /\ timer' = [timer EXCEPT ![k] = "ended"]
    /\ UNCHANGED <<registry, unset, srv_infos, threads, container, alive>>

-----------------------------------------------------------------------------
(* The collector thread: RemoveDevice, under devs_mutex *)

\* Three failed polls in a row (the count is NodeRegistry's).
Disconnect(d) ==
    /\ collector.pc = "idle" /\ device_static_info[d] # "absent"
    /\ collector' = [pc |-> "next", dev |-> d, slot |-> NoSlot, todo |-> Task]
    /\ UNCHANGED <<registry, timers, slots, pc, at, call, container, alive>>

\* timer_callback.stop() of the entry; no handler catches what it throws here.
StopForRemoval(s) ==
    /\ timer' = [timer EXCEPT ![s] = Stopped(@)]
    /\ collector' = [collector EXCEPT !.slot = s, !.todo = @ \ {s[1]},
                       !.pc = IF timer[s] = "none" THEN "erase" ELSE "join"]
    /\ UNCHANGED <<registry, unset, slots, pc, at, call, container, alive>>

RemoveEntry ==
    /\ collector.pc = "next"
    /\ \E t \in collector.todo :
        LET s == <<t, collector.dev>> IN
        \/ /\ s \notin entries
           /\ collector' = [collector EXCEPT !.todo = @ \ {t}]
           /\ UNCHANGED <<registry, timers, slots, pc, at, call, container, alive>>
        \/ s \in entries /\ (timer[s] = "none" \/ ~Joining(s)) /\ StopForRemoval(s)
        \/ s \in entries /\ timer[s] # "none" /\ Joining(s) /\ Die

CollectorJoin ==
    /\ collector.pc = "join" /\ timer[collector.slot] = "ended"
    /\ timer' = [timer EXCEPT ![collector.slot] = "none"]
    /\ collector' = [collector EXCEPT !.pc = "erase"]
    /\ UNCHANGED <<registry, unset, slots, pc, at, call, container, alive>>

\* Mutation of EraseEntry: the destructor does not stop a thread started since.
EraseEntry_NoJoin ==
    LET s == collector.slot IN
    /\ collector.pc = "erase"
    /\ entries' = entries \ {s}
    /\ status' = [status EXCEPT ![s] = "NoExist"]
    /\ abandoned' = abandoned \ {s}
    /\ srv_infos' = [srv_infos EXCEPT ![s] = FALSE]
    /\ collector' = [collector EXCEPT !.pc = "next", !.slot = NoSlot]
    /\ UNCHANGED <<registry, timers, pc, at, call, container, alive>>

\* erase(it) unlinks the entry, then ~TimerCallback stops and joins a thread started
\* since.  A handler inside start(), or a HotStart loop standing on the entry, is left
\* with a dangling reference; one that has set its timer starts a new one.
EraseEntry ==
    LET s == collector.slot
        set == \E h \in Handler : at[h] = s /\ pc[h] = "arm" IN
    /\ collector.pc = "erase"
    /\ \/ /\ timer[s] = "none" \/ ~Joining(s)
          /\ entries' = entries \ {s}
          /\ status' = [status EXCEPT ![s] = "NoExist"]
          /\ abandoned' = abandoned \ {s}
          /\ srv_infos' = [srv_infos EXCEPT ![s] = FALSE]
          /\ timer' = [timer EXCEPT ![s] = "none", ![Unlinked] = Stopped(timer[s])]
          /\ unset' = (IF set THEN {s} ELSE {}) \union (IF s \in unset THEN {Unlinked} ELSE {})
                         \union (unset \ {s, Unlinked})
          /\ pc' = [h \in Handler |-> IF at[h] = s /\ pc[h] = "spawn" THEN "freed" ELSE pc[h]]
          /\ call' = [h \in Handler |->
                        IF at[h] = s THEN [call[h] EXCEPT !.dangling = call[h].hot] ELSE call[h]]
          /\ collector' = [collector EXCEPT !.pc = "destroy"]
          /\ UNCHANGED <<registry, at, container, alive>>
       \/ timer[s] # "none" /\ Joining(s) /\ Die

DestroyEntry ==
    /\ collector.pc = "destroy" /\ timer[Unlinked] \in {"none", "ended"}
    /\ timer' = [timer EXCEPT ![Unlinked] = "none"]
    /\ unset' = unset \ {Unlinked}
    /\ collector' = [collector EXCEPT !.pc = "next", !.slot = NoSlot]
    /\ UNCHANGED <<registry, slots, pc, at, call, container, alive>>

ForgetDevice ==
    /\ collector.pc = "next" /\ collector.todo = {}
    /\ device_static_info' = [device_static_info EXCEPT ![collector.dev] = "absent"]
    /\ collector' = IdleCollector
    /\ UNCHANGED <<static_info, tgt_dev, tasks, timers, slots, pc, at, call, container, alive>>

-----------------------------------------------------------------------------
(* The containers on their own *)

BootService(s) ==
    /\ container[s] = "starting"
    /\ container' = [container EXCEPT ![s] = "up"]
    /\ UNCHANGED <<registry, timers, slots, threads, alive>>

ExitContainer(s) ==
    /\ container[s] \in {"starting", "up"}
    /\ container' = [container EXCEPT ![s] = "stopped"]
    /\ UNCHANGED <<registry, timers, slots, threads, alive>>

\* Somebody starts the gateway again.
Restart ==
    /\ ~alive /\ alive' = TRUE
    /\ UNCHANGED <<registry, timers, slots, threads, container>>

-----------------------------------------------------------------------------
CallStep(h) ==
    \/ "questOnNode" \in Workload /\ \E t \in Task, d \in Device : QuestOnNode(h, t, d)
    \/ "quest" \in Workload /\ \E t \in Task : Quest(h, t)
    \/ "hotStart" \in Workload /\ \E t \in Task : HotStart(h, t)

HandlerStep(h) ==
    \/ LookUpDevice(h) \/ CheckSupport(h)
    \/ Dispatch(h) \/ Wait(h) \/ CheckWait(h)
    \/ DispatchOnDevice(h) \/ WaitOnDevice(h) \/ CheckWaitOnDevice(h)
    \/ ProbeService(h) \/ DropService(h) \/ ResetStatus(h)
    \/ RefreshTimer(h) \/ AnswerService(h)
    \/ TagCreating(h) \/ ClearServices(h) \/ CreateContainer(h) \/ StartContainer(h)
    \/ AwaitPort(h) \/ FailCreation(h) \/ PublishService(h) \/ TagRunning(h)
    \/ SetTimer(h) \/ ArmTimer(h) \/ JoinTimer(h) \/ SpawnTimer(h) \/ SpawnFreedTimer(h)
    \/ HotNext(h) \/ Forwarded(h)

TimerStep(k) ==
    \/ StopTimerThread(k) \/ ExpireTimer(k)
    \/ TagDeleting(k) \/ RemoveContainer(k) \/ TagNoExist(k)

CollectorStep ==
    RemoveEntry \/ CollectorJoin \/ EraseEntry \/ DestroyEntry \/ ForgetDevice

Next ==
    \/ alive /\ \E h \in Handler : CallStep(h) \/ HandlerStep(h)
    \/ alive /\ \E k \in Timer : TimerStep(k)
    \/ alive /\ CollectorStep
    \/ alive /\ \E d \in Device : RegisNode(d)
    \/ alive /\ "disconnect" \in Workload /\ \E d \in Device : Disconnect(d)
    \/ \E s \in Slot : BootService(s) \/ ExitContainer(s)
    \/ Restart

Spec == Init /\ [][Next]_vars

\* Threads run.  A handler that reads the registry gets devs_mutex sooner or later,
\* although the collector takes it again and again.  Calls, removals and what the
\* containers do are not fair.
Fairness ==
    /\ \A h \in Handler :
        /\ WF_vars(alive /\ HandlerStep(h))
        /\ SF_vars(alive /\ (LookUpDevice(h) \/ CheckSupport(h)))
    /\ \A k \in Timer : WF_vars(alive /\ TimerStep(k))
    /\ WF_vars(alive /\ CollectorStep)

FairSpec == Spec /\ Fairness

-----------------------------------------------------------------------------
(* Properties *)

\* A slot in Creating has a handler inside createContainerByTType that will store Running
\* or NoExist: of all the exits of a creation, under every interleaving with other
\* creations, timers and removals, only the exception of CreateContainer leaves the status
\* behind, and then only until it is stored again.
CreatingHasOwner ==
    \A s \in Slot : status[s] = "Creating" =>
        s \in abandoned \/ \E h \in Handler : at[h] = s /\ pc[h] \in CreatingPC

\* No slot is stuck in Deleting, which getOrCrtSrvByTType* answers with nullopt: the
\* timer thread that stored it is still to store NoExist.
DeletingHasOwner ==
    \A s \in Slot : status[s] = "Deleting" =>
        \E k \in Timer : SlotOf(k) = s /\ timer[k] \in {"removing", "resetting"}

\* A Running service always has the timer that will remove its idle container: a live
\* thread, or a handler about to start one, or its device is being removed.
RunningIsTimed ==
    \A s \in Slot : status[s] = "Running" =>
        \/ timer[s] \notin {"none", "ended"}
        \/ \E h \in Handler : at[h] = s /\ pc[h] \in ArmingPC
        \/ collector.pc \in {"join", "erase"} /\ collector.slot = s

\* A timer thread works on a TimerCallback that exists, in an entry of tdMap or in the
\* entry RemoveDevice is destroying: it is joined before its TimerCallback is gone.
TimerHasEntry ==
    /\ \A s \in Slot : timer[s] # "none" => s \in entries
    /\ timer[Unlinked] # "none" => collector.pc = "destroy"

\* A thread that was told to stop is being joined, by start() or by RemoveDevice.
StoppingIsJoined == \A k \in Timer : timer[k] = "stopping" => Joining(k)

\* Every call comes to an end, including the bounded wait of getOrCrtSrvByTTypeOnDevice
\* and the joins of start(), unless it is a quest that polls a creation without bound.
CallsEnd ==
    \A h \in Handler :
        pc[h] \notin {"idle", "waiting"} ~> pc[h] \in {"idle", "waiting"}

\* A slot leaves Creating and Deleting again, unless an exception has cut its creation.
TransientStatusEnds ==
    \A s \in Slot :
        /\ status[s] = "Creating" ~> status[s] # "Creating" \/ s \in abandoned
        /\ status[s] = "Deleting" ~> status[s] # "Deleting"

\* RemoveDevice, which joins the timer thread of a task service under devs_mutex, gives the
\* mutex back: inactiveTimeCallback needs no lock.  (Its timers of sub-agents, whose
\* callback does, are in SubAgentTimers.)
RemovalEnds == DevsLocked ~> ~DevsLocked

\* A Running service that no quest keeps alive is taken out of service.
IdleServiceReclaimed ==
    \A s \in Slot :
        status[s] = "Running" ~>
            status[s] # "Running" \/ \E h \in Handler : at[h] = s /\ call[h].kept

\* "srv_infos has only one Creating Srv instance" (device.h:217): one handler at a time
\* creates the service of a slot.
OneCreation ==
    \A g, h \in Handler :
        pc[g] \in CreatingPC /\ pc[h] \in CreatingPC /\ at[g] = at[h] => g = h

\* "wait until create complete or quest time_out" (scheduler.cpp:599): a quest that
\* waited for a creation which has completed goes on with the service.
WaiterServed ==
    [][\A h \in Handler :
        pc[h] = "waited" /\ pc'[h] # "waited" /\ alive' /\ status[at[h]] = "Running"
            => pc'[h] = "refresh"]_vars

\* "sleep to wait questing toi finish to avoid the current quest failed"
\* (scheduler.cpp:555): no quest uses the service when its container is removed.
NoRemovalUnderQuest ==
    \A k \in Timer : timer[k] = "removing" =>
        ~\E h \in Handler : at[h] = SlotOf(k) /\ pc[h] = "forward"

=============================================================================
