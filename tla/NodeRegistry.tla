---------------------------- MODULE NodeRegistry ----------------------------
(*****************************************************************************)
(* The gateway's registry of boards and the scheduling of quests over it     *)
(* (src/scheduler/scheduler.cpp), with the boards' agents.  A board's agent  *)
(* registers once, before it listens; the collector polls what is known and  *)
(* removes a device after MaxFailures failed polls in a row; Z3_schedule_v2  *)
(* reads, and through operator[] writes, what it finds.  Only the collector  *)
(* takes devs_mutex: registrations and schedulings come between its steps.   *)
(*****************************************************************************)
EXTENDS Naturals, FiniteSets

CONSTANTS
    Device,         \* device ids, as numbers in the order of std::map<DeviceID, ...>
    Stray,          \* the id of a blank Device, none of a board's
    Garbage,        \* what a DeviceID that was never assigned may hold
    Type,           \* [Device -> device type]
    BlankType,      \* the type of a Device that operator[] inserts: the first of the enum
    Task,           \* task types
    Overhead,       \* [Task -> [device types of static_info[task] -> Load]]
    Status,         \* what a board's agent may report
    Full,           \* a load of 1.0
    MaxFailures,    \* kMaxDeviceInfoFailureCount
    CacheCalls,     \* the calls that share one result of the scheduler (20)
    Handler,        \* threads of the gateway's HTTP pool
    NoStatus, NoTask

Key == Device \union {Stray}

Load == [cpu : Nat, mem : Nat, xpu : Nat]

\* What DeviceStatus() holds: a device counts as unused until its first poll.
Zero == [cpu |-> 0, mem |-> 0, xpu |-> 0]

ASSUME KeyAssumption ==
    /\ Key \subseteq Nat \ {0} /\ Stray \notin Device
    /\ Garbage \subseteq Key /\ Garbage # {}
ASSUME DevicesAssumption == IsFiniteSet(Device)
ASSUME StatusAssumption == Status \subseteq Load /\ NoStatus \notin Load
ASSUME TaskAssumption ==
    /\ NoTask \notin Task
    /\ \A t \in Task : \A y \in DOMAIN Overhead[t] : Overhead[t][y] \in Load
ASSUME BoundAssumption == MaxFailures \in Nat \ {0} /\ CacheCalls \in Nat \ {0}

VARIABLES
    agent,          \* [Device -> the process of docker_scheduler_agent]
    registration,   \* [Device -> the handler of its /register_node]
    device_static_info,         \* [Key -> whether, and how, it is in the map]
    device_status,              \* [Key -> its DeviceStatus | NoStatus]
    device_info_failure_count,  \* [Key -> the count; 0 if there is none]
    poller,         \* the collector thread
    missed,         \* [Key -> polls it has failed in a row, as the boards see it]
    callCount,      \* the static counter of getTgtDevByTtypeAndDevIds, modulo CacheCalls
    tgt_dev,        \* its static Device: a device, or Stray for a blank one
    quest,          \* [Handler -> where its quest is in the scheduler]
    task, load,     \* [Handler -> its task type], [-> the expressions for the devices' load]
    choice          \* [Handler -> the Device that is returned to it]

boards   == <<agent, registration>>
maps     == <<device_static_info, device_status, device_info_failure_count>>
cache    == <<callCount, tgt_dev>>
handlers == <<quest, task, load, choice>>
vars     == <<boards, maps, poller, missed, cache, handlers>>

\* known: as the board registered it.  blank: inserted by operator[].
InfoState == {"absent", "known", "blank"}

\* visit: before the next key.  poll: waits for the answer of key.  info, status, count:
\* inside RemoveDevice(key), before the erase of each map.
PollerPC == {"asleep", "visit", "poll", "next", "info", "status", "count"}

\* asking: the agent waits for the answer.  registered: it has it, and does not listen yet.
AgentState == {"off", "asking", "registered", "serving"}

QuestPC == {"idle", "test", "read", "constrain", "select", "fallback", "store", "call", "answer"}

Asleep == [pc |-> "asleep", key |-> 0, blank |-> FALSE, given_up |-> {}]

TypeOK ==
    /\ agent \in [Device -> AgentState]
    /\ registration \in [Device -> {"none", "info", "status", "count"}]
    /\ device_static_info \in [Key -> InfoState]
    /\ device_status \in [Key -> Status \union {Zero, NoStatus}]
    /\ device_info_failure_count \in [Key -> 0..MaxFailures]
    /\ poller \in [pc : PollerPC, key : Key \union {0}, blank : BOOLEAN, given_up : SUBSET Key]
    /\ missed \in [Key -> 0..MaxFailures]
    /\ callCount \in 0..(CacheCalls - 1)
    /\ tgt_dev \in Key
    /\ quest \in [Handler -> QuestPC]
    /\ task \in [Handler -> Task \union {NoTask}]
    /\ DOMAIN load = Handler
    /\ \A h \in Handler : \E K \in SUBSET Key : load[h] \in [K -> Load]
    /\ choice \in [Handler -> Key]

\* Nothing has been polled or scheduled.
RestInit ==
    /\ device_info_failure_count = [k \in Key |-> 0]
    /\ poller = Asleep
    /\ missed = [k \in Key |-> 0]
    /\ callCount = 0
    /\ tgt_dev = Stray
    /\ quest = [h \in Handler |-> "idle"]
    /\ task = [h \in Handler |-> NoTask]
    /\ load = [h \in Handler |-> <<>>]
    /\ choice = [h \in Handler |-> Stray]

Init ==
    /\ agent = [d \in Device |-> "off"]
    /\ registration = [d \in Device |-> "none"]
    /\ device_static_info = [k \in Key |-> "absent"]
    /\ device_status = [k \in Key |-> NoStatus]
    /\ RestInit

-----------------------------------------------------------------------------
(* The boards' agents, and RegisNode, which takes no lock *)

\* A registration that does not reach the gateway ends the agent: it has not started.
StartAgent(d) ==
    /\ agent[d] = "off" /\ registration[d] = "none"
    /\ agent' = [agent EXCEPT ![d] = "asking"]
    /\ registration' = [registration EXCEPT ![d] = "info"]
    /\ UNCHANGED <<maps, poller, missed, cache, handlers>>

\* The process exits when it gets no answer in time or cannot listen, or it dies.
StopAgent(d) ==
    /\ agent[d] # "off"
    /\ agent' = [agent EXCEPT ![d] = "off"]
    /\ UNCHANGED <<registration, maps, poller, missed, cache, handlers>>

\* The agent only listens after it has registered; polls come in between.
Listen(d) ==
    /\ agent[d] = "registered"
    /\ agent' = [agent EXCEPT ![d] = "serving"]
    /\ UNCHANGED <<registration, maps, poller, missed, cache, handlers>>

StoreInfo(d) ==
    /\ registration[d] = "info"
    /\ registration' = [registration EXCEPT ![d] = "status"]
    /\ device_static_info' = [device_static_info EXCEPT ![d] = "known"]
    /\ UNCHANGED <<agent, device_status, device_info_failure_count, poller, missed, cache, handlers>>

StoreStatus(d) ==
    /\ registration[d] = "status"
    /\ registration' = [registration EXCEPT ![d] = "count"]
    /\ device_status' = [device_status EXCEPT ![d] = Zero]
    /\ UNCHANGED <<agent, device_static_info, device_info_failure_count, poller, missed, cache, handlers>>

\* The slots of the device (see TaskService) and the answer follow.  A collector that has
\* given the device up does not look at the count again.
StoreCount(d) ==
    /\ registration[d] = "count"
    /\ registration' = [registration EXCEPT ![d] = "none"]
    /\ agent' = [agent EXCEPT ![d] = IF @ = "asking" THEN "registered" ELSE @]
    /\ device_info_failure_count' = [device_info_failure_count EXCEPT ![d] = 0]
    /\ missed' = IF d \in poller.given_up THEN missed ELSE [missed EXCEPT ![d] = 0]
    /\ UNCHANGED <<device_static_info, device_status, poller, cache, handlers>>

-----------------------------------------------------------------------------
(* startDeviceInfoCollection and RemoveDevice *)

Least(S) == CHOOSE k \in S : \A l \in S : k <= l

Listed == {k \in Key : device_static_info[k] # "absent"}

\* Takes devs_mutex.
BeginCycle ==
    /\ poller.pc = "asleep"
    /\ poller' = [Asleep EXCEPT !.pc = "visit"]
    /\ UNCHANGED <<boards, maps, missed, cache, handlers>>

\* The loop's iterator is in the live map; the Device is a copy.
Visit ==
    LET ahead == {k \in Listed : k > poller.key}
    IN  /\ poller.pc = "visit"
        /\ poller' = IF ahead = {} THEN [poller EXCEPT !.pc = "next"]
                     ELSE [poller EXCEPT !.pc = "poll", !.key = Least(ahead),
                                         !.blank = device_static_info[Least(ahead)] = "blank"]
        /\ UNCHANGED <<boards, maps, missed, cache, handlers>>

\* Mutant: a success does not end the row of failures.
PollAnswered_KeepsCount(s) ==
    /\ poller.pc = "poll" /\ ~poller.blank /\ agent[poller.key] = "serving"
    /\ device_status' = [device_status EXCEPT ![poller.key] = s]
    /\ missed' = [missed EXCEPT ![poller.key] = 0]
    /\ poller' = [poller EXCEPT !.pc = "visit"]
    /\ UNCHANGED <<boards, device_static_info, device_info_failure_count, cache, handlers>>

PollAnswered(s) ==
    /\ poller.pc = "poll" /\ ~poller.blank /\ agent[poller.key] = "serving"
    /\ device_status' = [device_status EXCEPT ![poller.key] = s]
    /\ device_info_failure_count' = [device_info_failure_count EXCEPT ![poller.key] = 0]
    /\ missed' = [missed EXCEPT ![poller.key] = 0]
    /\ poller' = [poller EXCEPT !.pc = "visit"]
    /\ UNCHANGED <<boards, device_static_info, cache, handlers>>

Miss(k) == missed' = [missed EXCEPT ![k] = IF @ < MaxFailures THEN @ + 1 ELSE @]

\* Mutant: failure_count is a copy, not a reference.
PollFailed_OnCopy ==
    /\ poller.pc = "poll"
    /\ Miss(poller.key)
    /\ poller' = [poller EXCEPT !.pc = "visit",
           !.given_up = IF device_info_failure_count[poller.key] + 1 >= MaxFailures
                        THEN @ \union {poller.key} ELSE @]
    /\ UNCHANGED <<boards, maps, cache, handlers>>

\* Mutant: > in place of >=.
PollFailed_OneMore ==
    LET k == poller.key
        failure_count == device_info_failure_count[k] + 1
    IN  /\ poller.pc = "poll"
        /\ device_info_failure_count' = [device_info_failure_count EXCEPT ![k] = failure_count]
        /\ Miss(k)
        /\ poller' = [poller EXCEPT !.pc = "visit",
               !.given_up = IF failure_count > MaxFailures THEN @ \union {k} ELSE @]
        /\ UNCHANGED <<boards, device_static_info, device_status, cache, handlers>>

\* No answer, or one that is no success or no JSON.
PollFailed ==
    LET k == poller.key
        failure_count == device_info_failure_count[k] + 1
    IN  /\ poller.pc = "poll"
        /\ device_info_failure_count' = [device_info_failure_count EXCEPT ![k] = failure_count]
        /\ Miss(k)
        /\ poller' = [poller EXCEPT !.pc = "visit",
               !.given_up = IF failure_count >= MaxFailures THEN @ \union {k} ELSE @]
        /\ UNCHANGED <<boards, device_static_info, device_status, cache, handlers>>

\* RemoveDevice begins with the slots of the device (see TaskService), and ends with the
\* timers of its sub-agents (see SubAgentTimers).  After the last one the collector
\* releases devs_mutex and sleeps.
NextRemoval ==
    /\ poller.pc = "next"
    /\ poller' = IF poller.given_up = {} THEN Asleep
                 ELSE [poller EXCEPT !.pc = "info", !.key = Least(poller.given_up)]
    /\ UNCHANGED <<boards, maps, missed, cache, handlers>>

EraseInfo ==
    /\ poller.pc = "info"
    /\ poller' = [poller EXCEPT !.pc = "status"]
    /\ device_static_info' = [device_static_info EXCEPT ![poller.key] = "absent"]
    /\ missed' = [missed EXCEPT ![poller.key] = 0]
    /\ UNCHANGED <<boards, device_status, device_info_failure_count, cache, handlers>>

EraseStatus ==
    /\ poller.pc = "status"
    /\ poller' = [poller EXCEPT !.pc = "count"]
    /\ device_status' = [device_status EXCEPT ![poller.key] = NoStatus]
    /\ UNCHANGED <<boards, device_static_info, device_info_failure_count, missed, cache, handlers>>

EraseCount ==
    /\ poller.pc = "count"
    /\ poller' = [poller EXCEPT !.pc = "next", !.given_up = @ \ {poller.key}]
    /\ device_info_failure_count' = [device_info_failure_count EXCEPT ![poller.key] = 0]
    /\ UNCHANGED <<boards, device_static_info, device_status, missed, cache, handlers>>

-----------------------------------------------------------------------------
(* getTgtDevByTtypeAndDevIds and Z3_schedule_v2 *)

Goto(h, label) == quest' = [quest EXCEPT ![h] = label]

StartQuest(h, t) ==
    /\ quest[h] = "idle"
    /\ Goto(h, "test")
    /\ task' = [task EXCEPT ![h] = t]
    /\ UNCHANGED <<boards, maps, poller, missed, cache, load, choice>>

TestCache(h) ==
    /\ quest[h] = "test"
    /\ Goto(h, IF callCount = 0 THEN "read" ELSE "call")
    /\ UNCHANGED <<boards, maps, poller, missed, cache, task, load, choice>>

Reported == {k \in Key : device_status[k] # NoStatus}

\* Takes z3_mutex, which keeps out other schedulings and nothing else.
ReadLoads(h) ==
    /\ quest[h] = "read"
    /\ \A g \in Handler : quest[g] \notin {"constrain", "select", "fallback"}
    /\ Goto(h, "constrain")
    /\ load' = [load EXCEPT ![h] = [k \in Reported |-> device_status[k]]]
    /\ UNCHANGED <<boards, maps, poller, missed, cache, task, choice>>

\* operator[]: a key that is not there comes in with a blank Device.
Touch(S) ==
    device_static_info' = [k \in Key |-> IF k \in S /\ device_static_info[k] = "absent"
                                         THEN "blank" ELSE device_static_info[k]]

Plus(a, b) == [cpu |-> a.cpu + b.cpu, mem |-> a.mem + b.mem, xpu |-> a.xpu + b.xpu]

Fits(l) == l.cpu <= Full /\ l.mem <= Full /\ l.xpu <= Full

\* Goes through device_status again.  A device of the task's types that was not there
\* before has no expression, and *nullopt takes the process down (see Restart) or is what
\* the memory holds.  The task's overhead counts where it has no container (cold).
Constrain(h) ==
    LET overhead == Overhead[task[h]]
        TypeOf(k) == IF device_static_info[k] = "known" THEN Type[k] ELSE BlankType
        matching == {k \in Reported : TypeOf(k) \in DOMAIN overhead}
    IN  /\ quest[h] = "constrain"
        /\ Touch(IF overhead = <<>> THEN {} ELSE Reported)
        /\ \E junk \in [matching \ DOMAIN load[h] -> Status], cold \in SUBSET matching :
            LET loads == [k \in DOMAIN load[h] \union matching |->
                            LET own == IF k \in DOMAIN load[h] THEN load[h][k] ELSE junk[k]
                            IN  IF k \in cold THEN Plus(own, overhead[TypeOf(k)]) ELSE own]
            IN  /\ load' = [load EXCEPT ![h] = loads]
                /\ Goto(h, IF \A k \in matching : Fits(loads[k]) THEN "select" ELSE "fallback")
        /\ UNCHANGED <<boards, device_status, device_info_failure_count, poller, missed, cache, task, choice>>

\* device_static_info[k] is returned.
Found(h, k) ==
    /\ Touch({k})
    /\ choice' = [choice EXCEPT ![h] = IF device_static_info[k] = "known" THEN k ELSE Stray]
    /\ Goto(h, "store")

Lightest(loads) ==
    {k \in DOMAIN loads : \A l \in DOMAIN loads :
        loads[k].cpu + loads[k].xpu <= loads[l].cpu + loads[l].xpu}

\* The problem can be solved: it has no variable but the constraints.  The least loaded
\* device is taken, the first of them; a device over 1.0 that no constraint was about
\* raises an exception, and without devices selected_device_id is never assigned.
SelectDevice(h) ==
    /\ quest[h] = "select"
    /\ IF \E k \in DOMAIN load[h] : ~Fits(load[h][k])
       THEN Goto(h, "idle") /\ UNCHANGED <<device_static_info, choice>>
       ELSE \E k \in IF DOMAIN load[h] = {} THEN Garbage ELSE {Least(Lightest(load[h]))} : Found(h, k)
    /\ load' = [load EXCEPT ![h] = <<>>]
    /\ UNCHANGED <<boards, device_status, device_info_failure_count, poller, missed, cache, task>>

\* The first device whatever it is; begin() of an empty map is no device at all.
SelectFirst(h) ==
    /\ quest[h] = "fallback"
    /\ \E k \in IF Listed = {} THEN Garbage ELSE {Least(Listed)} : Found(h, k)
    /\ load' = [load EXCEPT ![h] = <<>>]
    /\ UNCHANGED <<boards, device_status, device_info_failure_count, poller, missed, cache, task>>

\* The assignment is made after z3_mutex has been released.
StoreChoice(h) ==
    /\ quest[h] = "store"
    /\ tgt_dev' = choice[h]
    /\ Goto(h, "call")
    /\ UNCHANGED <<boards, maps, poller, missed, callCount, task, load, choice>>

CountCall(h) ==
    /\ quest[h] = "call"
    /\ callCount' = IF callCount + 1 = CacheCalls THEN 0 ELSE callCount + 1
    /\ choice' = [choice EXCEPT ![h] = tgt_dev]
    /\ Goto(h, "answer")
    /\ UNCHANGED <<boards, maps, poller, missed, tgt_dev, task, load>>

\* On to the slot of the task on the device (see TaskService).
Dispatch(h) ==
    /\ quest[h] = "answer"
    /\ Goto(h, "idle")
    /\ UNCHANGED <<boards, maps, poller, missed, cache, task, load, choice>>

-----------------------------------------------------------------------------
\* The gateway dies, of undefined behaviour or otherwise, and is started again: nothing of
\* the registry is kept, and no board is told.
Restart ==
    /\ device_static_info' = [k \in Key |-> "absent"]
    /\ device_status' = [k \in Key |-> NoStatus]
    /\ device_info_failure_count' = [k \in Key |-> 0]
    /\ poller' = Asleep
    /\ missed' = [k \in Key |-> 0]
    /\ callCount' = 0 /\ tgt_dev' = Stray
    /\ quest' = [h \in Handler |-> "idle"]
    /\ task' = [h \in Handler |-> NoTask]
    /\ load' = [h \in Handler |-> <<>>]
    /\ choice' = [h \in Handler |-> Stray]
    /\ registration' = [d \in Device |-> "none"]
    /\ UNCHANGED agent

CollectorStep ==
    \/ BeginCycle \/ Visit \/ (\E s \in Status : PollAnswered(s)) \/ PollFailed
    \/ NextRemoval \/ EraseInfo \/ EraseStatus \/ EraseCount

RegistrationStep(d) == StoreInfo(d) \/ StoreStatus(d) \/ StoreCount(d)

SchedulerStep(h) ==
    \/ TestCache(h) \/ ReadLoads(h) \/ Constrain(h) \/ SelectDevice(h) \/ SelectFirst(h)
    \/ StoreChoice(h) \/ CountCall(h) \/ Dispatch(h)

Next ==
    \/ \E d \in Device : StartAgent(d) \/ StopAgent(d) \/ Listen(d) \/ RegistrationStep(d)
    \/ CollectorStep
    \/ \E h \in Handler : (\E t \in Task : StartQuest(h, t)) \/ SchedulerStep(h)
    \/ Restart

Spec == Init /\ [][Next]_vars

\* The gateway's threads run, and polls end, if only by their timeouts.  Boards may do as
\* they like.
Fairness ==
    /\ WF_vars(CollectorStep)
    /\ \A d \in Device : WF_vars(RegistrationStep(d))
    /\ \A h \in Handler : WF_vars(SchedulerStep(h))

FairSpec == Spec /\ Fairness

-----------------------------------------------------------------------------
(* Properties *)

\* Only MaxFailures failed polls in a row take a device out of the registry, none of them
\* before its last registration was complete, unless it came when the collector had already
\* given the device up.  (When the gateway restarts, all are lost.)
RemovedAfterFailures ==
    [][\A k \in Listed : device_static_info'[k] = "absent" =>
        missed[k] = MaxFailures \/ poller'.pc = "asleep"]_vars

\* A board that stays off is forgotten, and again whenever a registration that was cut short
\* or a blank entry of a scheduling has put it back: polls fail until it is removed.
SilentBoardForgotten ==
    \A d \in Device : <>[](agent[d] = "off") => []<>(device_static_info[d] = "absent")

=============================================================================
