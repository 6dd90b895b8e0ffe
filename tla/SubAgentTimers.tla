-------------------------- MODULE SubAgentTimers --------------------------
(*****************************************************************************)
(* The idle timers of sub-agent containers (src/scheduler/scheduler.cpp).    *)
(*                                                                           *)
(* startSubAgentOnDevice starts an agent's container on a device and arms    *)
(* a TimerCallback that removes it.  The timers are shared_ptrs in           *)
(* g_sub_agent_idle_timers, under g_sub_agent_idle_timer_mutex.  Handlers,   *)
(* the timers' own threads and the collector, which holds devs_mutex while   *)
(* it removes a device, all take that mutex, and some join a thread under it.*)
(*****************************************************************************)
CONSTANTS
    Handler,    \* threads of the gateway's HTTP pool
    Agent,      \* sub-agent names
    Device,     \* device ids
    Timer,      \* names for TimerCallback objects, reused: the bound on those alive at once
    NoTimer, NoKey, Nobody, Collector

Key == Agent \X Device

ASSUME NamesAssumption ==
    /\ NoTimer \notin Timer /\ NoKey \notin Key
    /\ {Nobody, Collector} \cap (Handler \union Timer) = {} /\ Nobody # Collector

VARIABLES
    known,        \* the keys of device_static_info
    idle_timers,  \* [Key -> Timer | NoTimer]: g_sub_agent_idle_timers
    mutex,        \* who holds g_sub_agent_idle_timer_mutex
    key,          \* [Timer -> the key its callback captures | NoKey: no such object]
    thread,       \* [Timer -> the state of its timer_thread]
    container,    \* [Key -> the state of the agent's container]
    pc, at,       \* [Handler -> label], [Handler -> key]
    timer,        \* [Handler -> the local shared_ptr of ArmOrRefreshSubAgentIdleTimer]
    victim,       \* [Handler -> the TimerCallback whose destructor it runs]
    collector,    \* the collector thread inside RemoveDevice
    alive         \* the gateway process has not died

objects == <<idle_timers, key, thread>>
locals  == <<pc, at, timer, victim>>
vars    == <<known, mutex, objects, container, locals, collector, alive>>

\* none: not joinable.  expired .. removed: inside the callback.  detached: the callback
\* has destroyed its own TimerCallback.  ended: run() has returned, not yet joined.
TimerThread == {"none", "waiting", "stopping", "expired", "removed", "detached", "ended"}

\* Labels from the lookup to the end of ArmOrRefreshSubAgentIdleTimer.
HandlerPC == {"idle", "lookup", "probe", "create", "startNew", "startNamed", "waitPort",
              "arm", "insert", "joinOld", "spawn", "release", "joinOwn"}

\* Holds the object it has created, which nobody else destroys meanwhile.
OwningPC == {"joinOld", "spawn", "release"}

TypeOK ==
    /\ known \subseteq Device
    /\ idle_timers \in [Key -> Timer \union {NoTimer}]
    /\ mutex \in Handler \union {Nobody, Collector}
    /\ key \in [Timer -> Key \union {NoKey}]
    /\ thread \in [Timer -> TimerThread]
    /\ container \in [Key -> {"absent", "stopped", "running"}]
    /\ pc \in [Handler -> HandlerPC]
    /\ at \in [Handler -> Key \union {NoKey}]
    /\ timer \in [Handler -> Timer \union {NoTimer}]
    /\ \A h \in Handler : timer[h] # NoTimer <=> pc[h] \in OwningPC
    /\ victim \in [Handler -> Timer \union {NoTimer}]
    /\ collector \in [pc : {"idle", "lock", "next", "join"}, key : Key \union {NoKey},
                      todo : SUBSET Key]
    /\ alive \in BOOLEAN

IdleCollector == [pc |-> "idle", key |-> NoKey, todo |-> {}]

Init ==
    /\ known = {}
    /\ idle_timers = [k \in Key |-> NoTimer]
    /\ mutex = Nobody
    /\ key = [o \in Timer |-> NoKey]
    /\ thread = [o \in Timer |-> "none"]
    /\ container \in [Key -> {"absent", "stopped", "running"}]
    /\ pc = [h \in Handler |-> "idle"]
    /\ at = [h \in Handler |-> NoKey]
    /\ timer = [h \in Handler |-> NoTimer]
    /\ victim = [h \in Handler |-> NoTimer]
    /\ collector = IdleCollector
    /\ alive = TRUE

\* The process goes down with all its threads; the containers stay.
Die ==
    /\ known' = {}
    /\ idle_timers' = [k \in Key |-> NoTimer]
    /\ mutex' = Nobody
    /\ key' = [o \in Timer |-> NoKey]
    /\ thread' = [o \in Timer |-> "none"]
    /\ pc' = [h \in Handler |-> "idle"]
    /\ at' = [h \in Handler |-> NoKey]
    /\ timer' = [h \in Handler |-> NoTimer]
    /\ victim' = [h \in Handler |-> NoTimer]
    /\ collector' = IdleCollector
    /\ alive' = FALSE
    /\ UNCHANGED container

Restart == ~alive /\ alive' = TRUE /\ UNCHANGED <<known, mutex, objects, container, locals, collector>>

-----------------------------------------------------------------------------
(* startSubAgentOnDevice *)

\* devs_mutex: the collector holds it exclusively during RemoveDevice.
DevsLocked == collector.pc # "idle"

Goto(h, label) == pc' = [pc EXCEPT ![h] = label]

Return(h) == Goto(h, "idle") /\ at' = [at EXCEPT ![h] = NoKey]

\* The handler works on its own, and the agent's container may change.
Local(h) == UNCHANGED <<known, mutex, objects, timer, victim, collector, alive>>

StartSubAgent(h, k) ==
    /\ pc[h] = "idle"
    /\ Goto(h, "lookup")
    /\ at' = [at EXCEPT ![h] = k]
    /\ Local(h) /\ UNCHANGED container

\* No such device, or no configuration of the agent for its type.
LookUpDevice(h) ==
    /\ pc[h] = "lookup" /\ ~DevsLocked
    /\ \/ at[h][2] \in known /\ Goto(h, "probe") /\ UNCHANGED at
       \/ Return(h)
    /\ Local(h) /\ UNCHANGED container

ProbeAgent(h) ==
    /\ pc[h] = "probe"
    /\ \/ container[at[h]] = "running" /\ Goto(h, "arm")
       \/ Goto(h, "create")
    /\ Local(h) /\ UNCHANGED <<at, container>>

\* An answer other than 201, or none, leads to a start by name.
CreateContainer(h) ==
    /\ pc[h] = "create"
    /\ \/ /\ container[at[h]] = "absent"
          /\ container' = [container EXCEPT ![at[h]] = "stopped"]
          /\ \E label \in {"startNew", "startNamed"} : Goto(h, label)
       \/ Goto(h, "startNamed") /\ UNCHANGED container
    /\ Local(h) /\ UNCHANGED at

StartsContainer(h) ==
    /\ container[at[h]] # "absent"
    /\ container' = [container EXCEPT ![at[h]] = "running"]

StartNew(h) ==
    /\ pc[h] = "startNew"
    /\ \/ StartsContainer(h) /\ Goto(h, "waitPort") /\ UNCHANGED at
       \/ Return(h) /\ UNCHANGED container
    /\ Local(h)

\* The result of a start by name is ignored.
StartNamed(h) ==
    /\ pc[h] = "startNamed"
    /\ StartsContainer(h) \/ UNCHANGED container
    /\ Goto(h, "waitPort")
    /\ Local(h) /\ UNCHANGED at

AwaitPort(h) ==
    /\ pc[h] = "waitPort"
    /\ \/ container[at[h]] = "running" /\ Goto(h, "arm") /\ UNCHANGED at
       \/ Return(h)
    /\ Local(h) /\ UNCHANGED container

-----------------------------------------------------------------------------
(* ArmOrRefreshSubAgentIdleTimer *)

\* The first critical section: refresh() of a timer that is there.
ArmOrRefresh(h) ==
    /\ pc[h] = "arm" /\ mutex = Nobody
    /\ IF idle_timers[at[h]] # NoTimer THEN Return(h) ELSE Goto(h, "insert") /\ UNCHANGED at
    /\ Local(h) /\ UNCHANGED container

Stopped(t) == IF t = "waiting" THEN "stopping" ELSE t

\* Some handler's local shared_ptr keeps the object alive.
Shared(o) == \E h \in Handler : timer[h] = o

\* Mutation of InsertTimer: the timer another handler has put there is not destroyed.
InsertTimer_Leaks(h) ==
    /\ pc[h] = "insert" /\ mutex = Nobody
    /\ \E o \in Timer :
        /\ key[o] = NoKey /\ thread[o] = "none"
        /\ key' = [key EXCEPT ![o] = at[h]]
        /\ timer' = [timer EXCEPT ![h] = o]
        /\ idle_timers' = [idle_timers EXCEPT ![at[h]] = o]
        /\ Goto(h, "spawn")
    /\ UNCHANGED <<known, mutex, thread, container, at, victim, collector, alive>>

\* The second one: the assignment drops the timer another handler has put there since,
\* and its destructor joins the thread under the mutex.
InsertTimer(h) ==
    LET old == idle_timers[at[h]] IN
    /\ pc[h] = "insert" /\ mutex = Nobody
    /\ \E o \in Timer :
        /\ key[o] = NoKey /\ thread[o] = "none"
        /\ key' = [key EXCEPT ![o] = at[h]]
        /\ timer' = [timer EXCEPT ![h] = o]
        /\ idle_timers' = [idle_timers EXCEPT ![at[h]] = o]
    /\ IF old = NoTimer \/ Shared(old)
       THEN Goto(h, "spawn") /\ UNCHANGED <<mutex, thread, victim>>
       ELSE /\ Goto(h, "joinOld")
            /\ mutex' = h
            /\ thread' = [thread EXCEPT ![old] = Stopped(@)]
            /\ victim' = [victim EXCEPT ![h] = old]
    /\ UNCHANGED <<known, container, at, collector, alive>>

\* The destructor has joined the thread; the object is gone.
Destroyed(h) ==
    /\ thread[victim[h]] \in {"none", "ended"}
    /\ thread' = [thread EXCEPT ![victim[h]] = "none"]
    /\ key' = [key EXCEPT ![victim[h]] = NoKey]
    /\ victim' = [victim EXCEPT ![h] = NoTimer]

\* Mutation of JoinOld: the mutex is not given back.
JoinOld_KeepsMutex(h) ==
    /\ pc[h] = "joinOld"
    /\ Destroyed(h)
    /\ Goto(h, "spawn")
    /\ UNCHANGED <<known, mutex, idle_timers, container, at, timer, collector, alive>>

JoinOld(h) ==
    /\ pc[h] = "joinOld"
    /\ Destroyed(h)
    /\ mutex' = Nobody
    /\ Goto(h, "spawn")
    /\ UNCHANGED <<known, idle_timers, container, at, timer, collector, alive>>

\* timer->start()
SpawnTimer(h) ==
    /\ pc[h] = "spawn"
    /\ thread' = [thread EXCEPT ![timer[h]] = "waiting"]
    /\ Goto(h, "release")
    /\ UNCHANGED <<known, mutex, idle_timers, key, container, at, timer, victim, collector, alive>>

\* Mutation of ReleaseTimer: the local reference stays.
ReleaseTimer_Keeps(h) ==
    /\ pc[h] = "release"
    /\ Return(h)
    /\ UNCHANGED <<known, mutex, objects, container, timer, victim, collector, alive>>

\* The local shared_ptr goes out of scope.  When the map has lost the timer since, its
\* destructor runs here.
ReleaseTimer(h) ==
    LET o == timer[h] IN
    /\ pc[h] = "release"
    /\ timer' = [timer EXCEPT ![h] = NoTimer]
    /\ IF idle_timers[at[h]] = o
       THEN Return(h) /\ UNCHANGED <<thread, victim>>
       ELSE /\ Goto(h, "joinOwn")
            /\ victim' = [victim EXCEPT ![h] = o]
            /\ thread' = [thread EXCEPT ![o] = Stopped(@)]
            /\ UNCHANGED at
    /\ UNCHANGED <<known, mutex, idle_timers, key, container, collector, alive>>

JoinOwn(h) ==
    /\ pc[h] = "joinOwn"
    /\ Destroyed(h)
    /\ Return(h)
    /\ UNCHANGED <<known, mutex, idle_timers, container, timer, collector, alive>>

-----------------------------------------------------------------------------
(* The timer threads *)

Alone == UNCHANGED <<known, locals, collector, alive>>

StopTimerThread(o) ==
    /\ thread[o] = "stopping"
    /\ thread' = [thread EXCEPT ![o] = "ended"]
    /\ Alone /\ UNCHANGED <<mutex, idle_timers, key, container>>

\* kSubAgentIdleTimeoutSec without a refresh.  A handler is never that long between the
\* two critical sections and its return.
ExpireTimer(o) ==
    /\ thread[o] \in {"waiting", "stopping"}
    /\ ~\E h \in Handler :
          /\ at[h] = key[o]
          /\ pc[h] \in {"insert", "joinOld", "spawn", "release", "joinOwn"}
    /\ thread' = [thread EXCEPT ![o] = "expired"]
    /\ Alone /\ UNCHANGED <<mutex, idle_timers, key, container>>

\* The callback goes on whatever the daemon answers.
RemoveContainer(o) ==
    /\ thread[o] = "expired"
    /\ thread' = [thread EXCEPT ![o] = "removed"]
    /\ \/ container' = [container EXCEPT ![key[o]] = "absent"]
       \/ UNCHANGED container
    /\ Alone /\ UNCHANGED <<mutex, idle_timers, key>>

\* Mutation of EraseOwnEntry: the callback forgets the map.
EraseOwnEntry_Forgets(o) ==
    /\ thread[o] = "removed" /\ mutex = Nobody
    /\ thread' = [thread EXCEPT ![o] = "ended"]
    /\ Alone /\ UNCHANGED <<mutex, idle_timers, key, container>>

\* erase(key) drops the last reference: ~TimerCallback detaches its own thread.  (That
\* the entry is the thread's own, and no handler shares it, is OwnEntry below.)
EraseOwnEntry(o) ==
    /\ thread[o] = "removed" /\ mutex = Nobody
    /\ idle_timers' = [idle_timers EXCEPT ![key[o]] = NoTimer]
    /\ thread' = [thread EXCEPT ![o] = "detached"]
    /\ Alone /\ UNCHANGED <<mutex, key, container>>

\* run() goes on in the destroyed object: it finds once_flag as it was, or it does not.
LeaveDestroyedTimer(o) ==
    /\ thread[o] = "detached"
    /\ \/ /\ thread' = [thread EXCEPT ![o] = "none"]
          /\ key' = [key EXCEPT ![o] = NoKey]
          /\ Alone /\ UNCHANGED <<mutex, idle_timers, container>>
       \/ Die

-----------------------------------------------------------------------------
(* The collector thread: RemoveDevice, of which TaskService has the task services *)

Disconnect(d) ==
    /\ collector.pc = "idle" /\ d \in known
    /\ known' = known \ {d}
    /\ collector' = [IdleCollector EXCEPT !.pc = "lock", !.todo = Agent \X {d}]
    /\ UNCHANGED <<mutex, objects, container, locals, alive>>

CollectorLock ==
    /\ collector.pc = "lock" /\ mutex = Nobody
    /\ mutex' = Collector
    /\ collector' = [collector EXCEPT !.pc = "next"]
    /\ UNCHANGED <<known, objects, container, locals, alive>>

\* stop() of the next timer of the device: it joins under both mutexes.
StopEntry ==
    /\ collector.pc = "next"
    /\ \E k \in collector.todo :
        LET o == idle_timers[k] IN
        IF o = NoTimer
        THEN collector' = [collector EXCEPT !.todo = @ \ {k}] /\ UNCHANGED thread
        ELSE /\ collector' = [collector EXCEPT !.pc = "join", !.key = k, !.todo = @ \ {k}]
             /\ thread' = [thread EXCEPT ![o] = Stopped(@)]
    /\ UNCHANGED <<known, mutex, idle_timers, key, container, locals, alive>>

EraseEntry ==
    LET o == idle_timers[collector.key] IN
    /\ collector.pc = "join" /\ thread[o] \in {"none", "ended"}
    /\ thread' = [thread EXCEPT ![o] = "none"]
    /\ idle_timers' = [idle_timers EXCEPT ![collector.key] = NoTimer]
    /\ key' = IF Shared(o) THEN key ELSE [key EXCEPT ![o] = NoKey]
    /\ collector' = [collector EXCEPT !.pc = "next", !.key = NoKey]
    /\ UNCHANGED <<known, mutex, container, locals, alive>>

CollectorUnlock ==
    /\ collector.pc = "next" /\ collector.todo = {}
    /\ mutex' = Nobody
    /\ collector' = IdleCollector
    /\ UNCHANGED <<known, objects, container, locals, alive>>

-----------------------------------------------------------------------------
RegisNode(d) ==
    /\ known' = known \union {d}
    /\ UNCHANGED <<mutex, objects, container, locals, collector, alive>>

ExitContainer(k) ==
    /\ container[k] = "running"
    /\ container' = [container EXCEPT ![k] = "stopped"]
    /\ UNCHANGED <<known, mutex, objects, locals, collector, alive>>

HandlerStep(h) ==
    \/ LookUpDevice(h) \/ ProbeAgent(h)
    \/ CreateContainer(h) \/ StartNew(h) \/ StartNamed(h) \/ AwaitPort(h)
    \/ ArmOrRefresh(h) \/ InsertTimer(h) \/ JoinOld(h)
    \/ SpawnTimer(h) \/ ReleaseTimer(h) \/ JoinOwn(h)

\* What a timer thread does once it has run out or been stopped.
TimerStep(o) ==
    \/ StopTimerThread(o) \/ RemoveContainer(o) \/ EraseOwnEntry(o) \/ LeaveDestroyedTimer(o)

CollectorStep == CollectorLock \/ StopEntry \/ EraseEntry \/ CollectorUnlock

Next ==
    \/ alive /\ \E h \in Handler : HandlerStep(h) \/ \E k \in Key : StartSubAgent(h, k)
    \/ alive /\ \E o \in Timer : TimerStep(o) \/ ExpireTimer(o)
    \/ alive /\ CollectorStep
    \/ alive /\ \E d \in Device : RegisNode(d) \/ Disconnect(d)
    \/ \E k \in Key : ExitContainer(k)
    \/ Restart

Spec == Init /\ [][Next]_vars

\* Threads run, and who waits for a mutex that is free again and again gets it.  Calls,
\* removals, the end of an idle interval and a restart are not fair.
Fairness ==
    /\ \A h \in Handler :
        /\ WF_vars(alive /\ HandlerStep(h))
        /\ SF_vars(alive /\ (LookUpDevice(h) \/ ArmOrRefresh(h) \/ InsertTimer(h)))
    /\ \A o \in Timer : WF_vars(alive /\ TimerStep(o)) /\ SF_vars(alive /\ EraseOwnEntry(o))
    /\ WF_vars(alive /\ CollectorStep) /\ SF_vars(alive /\ CollectorLock)

FairSpec == Spec /\ Fairness

-----------------------------------------------------------------------------
(* Properties *)

\* A timer in the map is one that will remove its container: refresh() of it, all that a
\* start of a reachable agent does, keeps that promise.  It has a thread, or gets it from
\* the handler that inserted it, or is on its way out under the mutex.
LiveEntry ==
    \A k \in Key : idle_timers[k] # NoTimer =>
        LET o == idle_timers[k] IN
        /\ key[o] = k
        /\ \/ thread[o] \in {"waiting", "expired", "removed"}
           \/ \E h \in Handler : timer[h] = o /\ pc[h] \in {"joinOld", "spawn"}
           \/ collector.pc = "join" /\ collector.key = k

\* The callback erases the entry of its own timer, never one armed by a later start, and
\* it destroys an object no handler still uses.
OwnEntry ==
    \A o \in Timer : thread[o] \in {"expired", "removed"} =>
        idle_timers[key[o]] = o /\ ~Shared(o)

\* As long as no device is removed, every start of a sub-agent comes to an end, joins
\* under the mutex included.
StartsEnd ==
    [](~DevsLocked) =>
        \A h \in Handler : pc[h] # "idle" ~> pc[h] = "idle"

\* As long as no device is removed, a callback that has begun leaves its timer.
CallbackEnds ==
    [](~DevsLocked) =>
        \A o \in Timer : thread[o] = "expired" ~> thread[o] = "none"

\* "Thread-safe method to remove a device" (scheduler.h:113): it terminates.
RemovalEnds == DevsLocked ~> ~DevsLocked

=============================================================================
