------------------------- MODULE NodeRegistryProofs -------------------------
(* Theorems of NodeRegistry: the types of its state, that only failed polls in a row     *)
(* take a device out of the registry, and that every step of the collector brings a      *)
(* device whose board is off nearer to its removal.                                      *)
EXTENDS NodeRegistry, FiniteSetTheorems, WellFoundedInduction, TLAPS

\* A quest has a task type once it has begun.
Tasked == \A h \in Handler : quest[h] # "idle" => task[h] \in Task

\* A cycle goes up through the keys, and each is given up when it is polled.
Passed ==
    /\ poller.pc = "asleep" => poller.given_up = {}
    /\ poller.pc = "visit" => \A k \in poller.given_up : k <= poller.key
    /\ poller.pc = "poll" => poller.key \in Key /\ \A k \in poller.given_up : k < poller.key
    /\ poller.pc \in {"info", "status", "count"} => poller.key \in poller.given_up

\* The gateway's count never runs ahead of the polls a device has missed, and is full only
\* for a device that is being removed.
Counted ==
    \A k \in Key :
        /\ device_info_failure_count[k] = MaxFailures => k \in poller.given_up
        /\ k \notin poller.given_up => device_info_failure_count[k] <= missed[k]

\* Whoever is given up has missed enough polls, until it is out of the registry.
Missed ==
    \A k \in poller.given_up :
        missed[k] = MaxFailures \/ (poller.pc \in {"status", "count"} /\ k = poller.key)

IInv == TypeOK /\ Tasked /\ Passed /\ Counted /\ Missed

-----------------------------------------------------------------------------
LEMMA SmallestExists ==
    ASSUME NEW S, S \subseteq Nat, S # {}
    PROVE  \E k \in S : \A l \in S : k <= l
<1>1. PICK k \in S : \A l \in S : <<l, k>> \notin OpToRel(<, Nat)
  BY NatLessThanWellFounded, WFMin
<1>2. \A l \in S : ~(l < k)
  BY <1>1 DEF OpToRel
<1> QED BY <1>2

LEMMA LeastIsLeast ==
    ASSUME NEW S, S \subseteq Nat, S # {}
    PROVE  Least(S) \in S /\ \A l \in S : Least(S) <= l
BY SmallestExists DEF Least

LEMMA KeysAreNumbers == (\A k \in Key : k \in Nat /\ k > 0) /\ Garbage \subseteq Key /\ Stray \in Key
BY KeyAssumption DEF Key

LEMMA LeastLoaded ==
    ASSUME NEW K \in SUBSET Key, NEW loads \in [K -> Load], K # {}
    PROVE  Least(Lightest(loads)) \in Key
<1> DEFINE sum(k) == loads[k].cpu + loads[k].xpu
<1> DEFINE sums == {sum(k) : k \in K}
<1>2. \A k \in K : sum(k) \in Nat
  BY DEF Load
<1>3. sums \subseteq Nat /\ sums # {}
  BY <1>2
<1>4. PICK m \in sums : \A n \in sums : m <= n
  BY <1>3, SmallestExists
<1>5. PICK k \in K : sum(k) = m
  BY <1>4
<1>6. k \in Lightest(loads)
  BY <1>4, <1>5 DEF Lightest
<1>7. Lightest(loads) \subseteq K
  BY DEF Lightest
<1> HIDE DEF sums, sum
<1> QED BY <1>6, <1>7, LeastIsLeast, KeysAreNumbers

-----------------------------------------------------------------------------
(* Types *)

\* The state of the boards and of the maps.
MapTypes ==
    /\ agent \in [Device -> AgentState]
    /\ registration \in [Device -> {"none", "info", "status", "count"}]
    /\ device_static_info \in [Key -> InfoState]
    /\ device_status \in [Key -> Status \union {Zero, NoStatus}]
    /\ device_info_failure_count \in [Key -> 0..MaxFailures]
    /\ missed \in [Key -> 0..MaxFailures]

PollerType ==
    poller \in [pc : PollerPC, key : Key \union {0}, blank : BOOLEAN, given_up : SUBSET Key]

\* The state of the scheduler and of its callers.
QuestTypes ==
    /\ callCount \in 0..(CacheCalls - 1)
    /\ tgt_dev \in Key
    /\ quest \in [Handler -> QuestPC]
    /\ task \in [Handler -> Task \union {NoTask}]
    /\ DOMAIN load = Handler
    /\ \A h \in Handler : \E K \in SUBSET Key : load[h] \in [K -> Load]
    /\ choice \in [Handler -> Key]

LEMMA TypesSplit == TypeOK <=> MapTypes /\ PollerType /\ QuestTypes
BY DEF TypeOK, MapTypes, PollerType, QuestTypes

LEMMA InitInvariant == Init => IInv
<1> SUFFICES ASSUME Init PROVE IInv
  OBVIOUS
<1> USE BoundAssumption, KeysAreNumbers DEF Init, RestInit
<1>1. TypeOK
  <2>1. \A h \in Handler : load[h] \in [{} -> Load]
    OBVIOUS
  <2>2. poller \in [pc : PollerPC, key : Key \union {0}, blank : BOOLEAN, given_up : SUBSET Key]
    BY DEF Asleep, PollerPC
  <2>3. MapTypes
    BY DEF MapTypes, InfoState, AgentState
  <2>4. callCount \in 0..(CacheCalls - 1)
    OBVIOUS
  <2>5. QuestTypes
    BY <2>1, <2>4 DEF QuestTypes, QuestPC
  <2> QED BY <2>2, <2>3, <2>5, TypesSplit DEF PollerType
<1>2. Tasked /\ Passed /\ Counted /\ Missed
  BY DEF Tasked, Passed, Counted, Missed, Asleep
<1> QED BY <1>1, <1>2 DEF IInv

BoardStep(d) == StartAgent(d) \/ StopAgent(d) \/ Listen(d) \/ RegistrationStep(d)

LEMMA BoardTypes ==
    ASSUME IInv, NEW d \in Device, BoardStep(d)
    PROVE  IInv'
<1> USE BoundAssumption, KeysAreNumbers
<1>0. d \in Key /\ MapTypes /\ PollerType /\ QuestTypes
  BY TypesSplit DEF IInv, Key
<1>1. UNCHANGED <<poller, cache, handlers>>
  BY DEF BoardStep, RegistrationStep, StartAgent, StopAgent, Listen, StoreInfo, StoreStatus,
         StoreCount
<1>2. PollerType' /\ QuestTypes' /\ Tasked' /\ Passed'
  BY <1>0, <1>1 DEF IInv, PollerType, QuestTypes, Tasked, Passed, cache, handlers
<1>3. MapTypes' /\ Counted' /\ Missed'
  <2>1. CASE StartAgent(d)
    BY <1>0, <2>1 DEF IInv, StartAgent, MapTypes, AgentState, Counted, Missed, maps
  <2>2. CASE StopAgent(d)
    BY <1>0, <2>2 DEF IInv, StopAgent, MapTypes, AgentState, Counted, Missed, maps
  <2>3. CASE Listen(d)
    BY <1>0, <2>3 DEF IInv, Listen, MapTypes, AgentState, Counted, Missed, maps
  <2>4. CASE StoreInfo(d)
    BY <1>0, <2>4 DEF IInv, StoreInfo, MapTypes, InfoState, Counted, Missed
  <2>5. CASE StoreStatus(d)
    BY <1>0, <2>5 DEF IInv, StoreStatus, MapTypes, Counted, Missed
  <2>6. CASE StoreCount(d)
    BY <1>0, <2>6 DEF IInv, StoreCount, MapTypes, AgentState, Counted, Missed
  <2> QED BY <2>1, <2>2, <2>3, <2>4, <2>5, <2>6 DEF BoardStep, RegistrationStep
<1> QED BY <1>2, <1>3, TypesSplit, PTL DEF IInv

-----------------------------------------------------------------------------
(* The collector *)

LEMMA CollectorInvariant ==
    ASSUME IInv, CollectorStep
    PROVE  IInv'
<1> USE BoundAssumption, KeysAreNumbers
<1>0. MapTypes /\ PollerType /\ QuestTypes
  BY TypesSplit DEF IInv
<1>1. UNCHANGED <<boards, cache, handlers>>
  BY DEF CollectorStep, BeginCycle, Visit, PollAnswered, PollFailed, NextRemoval, EraseInfo,
         EraseStatus, EraseCount
<1>2. QuestTypes' /\ Tasked'
  BY <1>0, <1>1 DEF IInv, QuestTypes, Tasked, cache, handlers
<1>3. MapTypes' /\ PollerType' /\ Passed' /\ Counted' /\ Missed'
  <2>1. CASE BeginCycle
    BY <1>0, <2>1 DEF IInv, BeginCycle, Asleep, MapTypes, PollerType, PollerPC, Passed, Counted, Missed,
                      boards, maps
  <2>2. CASE Visit
    <3> DEFINE ahead == {k \in Listed : k > poller.key}
    <3>1. ahead # {} => Least(ahead) \in Key /\ Least(ahead) > poller.key
      BY <1>0, LeastIsLeast DEF Listed, PollerType
    <3>2. UNCHANGED <<boards, maps, missed>> /\ poller.pc = "visit"
      BY <2>2 DEF Visit
    <3>3. CASE ahead = {}
      <4>1. poller' = [poller EXCEPT !.pc = "next"]
        BY <2>2, <3>3 DEF Visit
      <4> QED BY <1>0, <3>2, <4>1 DEF IInv, MapTypes, PollerType, PollerPC, Passed, Counted, Missed,
                                       boards, maps
    <3>4. CASE ahead # {}
      <4>1. \E b \in BOOLEAN :
              poller' = [poller EXCEPT !.pc = "poll", !.key = Least(ahead), !.blank = b]
        BY <2>2, <3>4 DEF Visit
      <4> HIDE DEF ahead
      <4>2. poller'.pc = "poll" /\ poller'.key = Least(ahead) /\ poller'.given_up = poller.given_up
        BY <1>0, <4>1 DEF PollerType
      <4>3. PollerType'
        BY <1>0, <3>1, <3>4, <4>1 DEF PollerType, PollerPC
      <4>4. \A k \in poller.given_up : k \in Key /\ k <= poller.key
        BY <1>0, <3>2 DEF IInv, Passed, PollerType
      <4>5. poller.key \in Nat
        <5>1. poller.key \in Key \union {0}
          BY <1>0 DEF PollerType
        <5> QED BY <5>1
      <4>6. Passed'
        <5>1. Least(ahead) \in Key /\ Least(ahead) > poller.key
          BY <3>1, <3>4
        <5>2. \A k \in poller.given_up : k < Least(ahead)
          BY <4>4, <4>5, <5>1
        <5> QED BY <4>2, <5>1, <5>2 DEF Passed
      <4>7. MapTypes' /\ Counted' /\ Missed'
        BY <1>0, <3>2, <4>2 DEF IInv, MapTypes, Counted, Missed, boards, maps
      <4> QED BY <4>3, <4>6, <4>7
    <3> QED BY <3>3, <3>4
  <2>3. CASE \E s \in Status : PollAnswered(s)
    BY <1>0, <2>3 DEF IInv, PollAnswered, MapTypes, PollerType, PollerPC, Passed, Counted, Missed, boards
  <2>4. CASE PollFailed
    <3> DEFINE key == poller.key
    <3> DEFINE count == device_info_failure_count[key] + 1
    <3>1. /\ key \in Key /\ key \notin poller.given_up
          /\ \A k \in poller.given_up : k < key
          /\ count \in 1..MaxFailures /\ count <= missed[key] + 1
      BY <1>0, <2>4 DEF IInv, Passed, Counted, PollFailed, MapTypes, PollerType
    <3>2. /\ device_info_failure_count' = [device_info_failure_count EXCEPT ![key] = count]
          /\ missed' = [missed EXCEPT ![key] = IF @ < MaxFailures THEN @ + 1 ELSE @]
          /\ UNCHANGED <<boards, device_static_info, device_status>>
      BY <2>4 DEF PollFailed, Miss
    <3>3. /\ poller'.pc = "visit" /\ poller'.key = key /\ poller'.blank = poller.blank
          /\ poller'.given_up = IF count >= MaxFailures THEN poller.given_up \union {key}
                                                        ELSE poller.given_up
          /\ PollerType'
      BY <1>0, <2>4, <3>1 DEF PollFailed, PollerType, PollerPC
    <3>4. /\ count <= missed'[key] /\ missed'[key] \in 0..MaxFailures
          /\ device_info_failure_count'[key] = count
      <4>1. missed[key] \in 0..MaxFailures /\ key \in DOMAIN missed
        BY <1>0, <3>1 DEF MapTypes
      <4>2. missed'[key] = IF missed[key] < MaxFailures THEN missed[key] + 1 ELSE missed[key]
        BY <3>2, <4>1
      <4>3. device_info_failure_count'[key] = count
        BY <1>0, <3>1, <3>2 DEF MapTypes
      <4> HIDE DEF key, count
      <4> QED BY <3>1, <4>1, <4>2, <4>3
    <3>5. \A k \in Key \ {key} :
            /\ missed'[k] = missed[k]
            /\ device_info_failure_count'[k] = device_info_failure_count[k]
      BY <1>0, <3>2 DEF MapTypes
    <3>6. MapTypes'
      BY <1>0, <3>1, <3>2, <3>4 DEF MapTypes, boards
    <3> HIDE DEF key, count
    <3>7. Passed'
      BY <1>0, <3>1, <3>3 DEF Passed, PollerType
    <3>8. Counted'
      <4> SUFFICES ASSUME NEW k \in Key
                   PROVE  /\ device_info_failure_count'[k] = MaxFailures => k \in poller'.given_up
                          /\ k \notin poller'.given_up => device_info_failure_count'[k] <= missed'[k]
        BY DEF Counted
      <4>1. CASE k = key
        BY <3>1, <3>3, <3>4, <4>1
      <4>2. CASE k # key
        BY <3>3, <3>5, <4>2 DEF IInv, Counted
      <4> QED BY <4>1, <4>2
    <3>9. Missed'
      <4> SUFFICES ASSUME NEW k \in poller'.given_up PROVE missed'[k] = MaxFailures
        BY DEF Missed
      <4>1. CASE k = key
        BY <3>1, <3>3, <3>4, <4>1
      <4>2. CASE k # key
        <5>1. k \in poller.given_up /\ k \in Key /\ poller.pc = "poll"
          BY <1>0, <2>4, <3>3, <4>2 DEF PollerType, PollFailed
        <5> QED BY <3>5, <4>2, <5>1 DEF IInv, Missed
      <4> QED BY <4>1, <4>2
    <3> QED BY <3>3, <3>6, <3>7, <3>8, <3>9
  <2>5. CASE NextRemoval
    <3>1. UNCHANGED <<boards, maps, missed>> /\ poller.pc = "next"
      BY <2>5 DEF NextRemoval
    <3>2. CASE poller.given_up = {}
      <4>1. poller' = Asleep
        BY <2>5, <3>2 DEF NextRemoval
      <4> QED BY <1>0, <3>1, <3>2, <4>1 DEF IInv, MapTypes, PollerType, PollerPC, Passed, Counted,
                                            Missed, Asleep, boards, maps
    <3>3. CASE poller.given_up # {}
      <4> DEFINE least == Least(poller.given_up)
      <4>1. least \in Key /\ least \in poller.given_up
        BY <1>0, <3>3, LeastIsLeast DEF PollerType
      <4>2. poller' = [poller EXCEPT !.pc = "info", !.key = least]
        BY <2>5, <3>3 DEF NextRemoval
      <4> HIDE DEF least
      <4> QED BY <1>0, <3>1, <4>1, <4>2 DEF IInv, MapTypes, PollerType, PollerPC, Passed, Counted,
                                            Missed, boards, maps
    <3> QED BY <3>2, <3>3
  <2>6. CASE EraseInfo
    BY <1>0, <2>6 DEF IInv, EraseInfo, MapTypes, InfoState, PollerType, PollerPC, Passed, Counted, Missed, boards
  <2>7. CASE EraseStatus
    BY <1>0, <2>7 DEF IInv, EraseStatus, MapTypes, PollerType, PollerPC, Passed, Counted, Missed, boards
  <2>8. CASE EraseCount
    <3>1. /\ poller.pc = "count" /\ poller.key \in poller.given_up
          /\ device_info_failure_count' = [device_info_failure_count EXCEPT ![poller.key] = 0]
          /\ UNCHANGED <<boards, device_static_info, device_status, missed>>
      BY <2>8 DEF IInv, EraseCount, Passed
    <3>2. /\ poller'.pc = "next"
          /\ poller'.given_up = poller.given_up \ {poller.key}
          /\ PollerType'
      BY <1>0, <2>8 DEF EraseCount, PollerType, PollerPC
    <3>3. MapTypes'
      <4>1. device_info_failure_count' \in [Key -> 0..MaxFailures]
        <5>1. device_info_failure_count \in [Key -> 0..MaxFailures] /\ 0 \in 0..MaxFailures
          BY <1>0 DEF MapTypes
        <5> QED BY <3>1, <5>1
      <4> QED BY <1>0, <3>1, <4>1 DEF MapTypes, boards
    <3>4. Passed'
      BY <3>2 DEF Passed
    <3>5. Counted'
      BY <1>0, <3>1, <3>2 DEF IInv, Counted, MapTypes, PollerType
    <3>6. Missed'
      BY <1>0, <3>1, <3>2 DEF IInv, Missed, PollerType
    <3> QED BY <3>2, <3>3, <3>4, <3>5, <3>6
  <2> QED BY <2>1, <2>2, <2>3, <2>4, <2>5, <2>6, <2>7, <2>8 DEF CollectorStep
<1> QED BY <1>2, <1>3, TypesSplit, PTL DEF IInv

-----------------------------------------------------------------------------
(* The scheduler.  A quest changes nothing of the collector, the boards or what the *)
(* collector counts; operator[] adds blank devices and takes nothing away.           *)

LEMMA TouchTypes ==
    ASSUME NEW S, MapTypes, Touch(S)
    PROVE  /\ device_static_info' \in [Key -> InfoState]
           /\ \A k \in Listed : device_static_info'[k] # "absent"
BY DEF MapTypes, Touch, InfoState, Listed

QuestStep(h) == (\E t \in Task : StartQuest(h, t)) \/ SchedulerStep(h)

LEMMA QuestFrame ==
    ASSUME MapTypes, NEW h \in Handler, QuestStep(h)
    PROVE  /\ UNCHANGED <<boards, device_status, device_info_failure_count, poller, missed>>
           /\ device_static_info' \in [Key -> InfoState]
           /\ \A k \in Listed : device_static_info'[k] # "absent"
<1>1. CASE Constrain(h)
  <2>1. PICK S : Touch(S)
    BY <1>1 DEF Constrain
  <2> QED BY <1>1, <2>1, TouchTypes DEF Constrain
<1>2. CASE SelectDevice(h)
  <2>1. UNCHANGED device_static_info \/ \E S : Touch(S)
    BY <1>2 DEF SelectDevice, Found
  <2>2. UNCHANGED <<boards, device_status, device_info_failure_count, poller, missed>>
    BY <1>2 DEF SelectDevice
  <2>3. CASE UNCHANGED device_static_info
    BY <2>2, <2>3 DEF MapTypes, Listed
  <2>4. CASE \E S : Touch(S)
    BY <2>2, <2>4, TouchTypes
  <2> QED BY <2>1, <2>3, <2>4
<1>3. CASE SelectFirst(h)
  <2>1. PICK S : Touch(S)
    BY <1>3 DEF SelectFirst, Found
  <2> QED BY <1>3, <2>1, TouchTypes DEF SelectFirst
<1>4. CASE (\E t \in Task : StartQuest(h, t)) \/ TestCache(h) \/ ReadLoads(h) \/ StoreChoice(h)
           \/ CountCall(h) \/ Dispatch(h)
  <2>1. UNCHANGED <<boards, maps, poller, missed>>
    BY <1>4 DEF StartQuest, TestCache, ReadLoads, StoreChoice, CountCall, Dispatch
  <2> QED BY <2>1 DEF maps, MapTypes, Listed
<1> QED BY <1>1, <1>2, <1>3, <1>4 DEF QuestStep, SchedulerStep

LEMMA Sums == ASSUME NEW a \in Load, NEW b \in Load PROVE Plus(a, b) \in Load
BY DEF Load, Plus

LEMMA ReadTypes ==
    ASSUME IInv, NEW h \in Handler, ReadLoads(h)
    PROVE  \E K \in SUBSET Key : load' = [load EXCEPT ![h] = load'[h]] /\ load'[h] \in [K -> Load]
<1>1. load'[h] = [k \in Reported |-> device_status[k]] /\ load' = [load EXCEPT ![h] = load'[h]]
  BY DEF ReadLoads, IInv, TypeOK
<1>2. \A k \in Reported : device_status[k] \in Load
  BY StatusAssumption DEF IInv, TypeOK, Reported, Zero, Load
<1>3. Reported \in SUBSET Key
  BY DEF Reported
<1> QED BY <1>1, <1>2, <1>3

LEMMA ConstrainTypes ==
    ASSUME IInv, NEW h \in Handler, Constrain(h)
    PROVE  \E K \in SUBSET Key : load' = [load EXCEPT ![h] = load'[h]] /\ load'[h] \in [K -> Load]
<1> DEFINE overhead == Overhead[task[h]]
<1> DEFINE TypeOf(k) == IF device_static_info[k] = "known" THEN Type[k] ELSE BlankType
<1> DEFINE matching == {k \in Reported : TypeOf(k) \in DOMAIN overhead}
<1>1. PICK K \in SUBSET Key : load[h] \in [K -> Load]
  BY DEF IInv, TypeOK
<1>2. task[h] \in Task
  BY DEF IInv, Tasked, Constrain
<1>3. \A k \in matching : overhead[TypeOf(k)] \in Load /\ k \in Key
  BY <1>2, TaskAssumption DEF Reported
<1>4. PICK junk \in [matching \ DOMAIN load[h] -> Status], cold \in SUBSET matching :
        load' = [load EXCEPT ![h] = [k \in DOMAIN load[h] \union matching |->
                  LET own == IF k \in DOMAIN load[h] THEN load[h][k] ELSE junk[k]
                  IN  IF k \in cold THEN Plus(own, overhead[TypeOf(k)]) ELSE own]]
  BY DEF Constrain
<1> HIDE DEF overhead, TypeOf, matching
<1>5. \A k \in K \union matching :
        (IF k \in DOMAIN load[h] THEN load[h][k] ELSE junk[k]) \in Load
  BY <1>1, StatusAssumption
<1>6. \A k \in K \union matching :
        (LET own == IF k \in DOMAIN load[h] THEN load[h][k] ELSE junk[k]
         IN  IF k \in cold THEN Plus(own, overhead[TypeOf(k)]) ELSE own) \in Load
  BY <1>3, <1>5, Sums
<1>7. DOMAIN load[h] = K /\ K \union matching \in SUBSET Key
  BY <1>1, <1>3
<1>8. load'[h] \in [K \union matching -> Load] /\ load' = [load EXCEPT ![h] = load'[h]]
  BY <1>4, <1>6, <1>7 DEF IInv, TypeOK
<1> QED BY <1>7, <1>8

LEMMA FoundTypes ==
    ASSUME IInv, NEW h \in Handler, NEW k \in Key, Found(h, k)
    PROVE  choice' \in [Handler -> Key] /\ quest' = [quest EXCEPT ![h] = "store"]
BY KeysAreNumbers DEF IInv, TypeOK, Found, Goto

LoadsTyped == DOMAIN load = Handler /\ \A h \in Handler : \E K \in SUBSET Key : load[h] \in [K -> Load]

LEMMA LoadsKept ==
    ASSUME LoadsTyped, NEW h \in Handler, NEW l,
           \E K \in SUBSET Key : l \in [K -> Load], load' = [load EXCEPT ![h] = l]
    PROVE  LoadsTyped'
<1>1. \A g \in Handler : load'[g] = IF g = h THEN l ELSE load[g]
  BY DEF LoadsTyped
<1> QED BY <1>1 DEF LoadsTyped

\* What a step of a quest does to the scheduler's state.
QuestMove(h) ==
    /\ \E to \in QuestPC : quest' = [quest EXCEPT ![h] = to]
    /\ task' \in [Handler -> Task \union {NoTask}]
    /\ \A g \in Handler : quest'[g] # "idle" => task'[g] \in Task
    /\ LoadsTyped'
    /\ choice' \in [Handler -> Key]
    /\ callCount' \in 0..(CacheCalls - 1)
    /\ tgt_dev' \in Key

LEMMA QuestMoves ==
    ASSUME IInv, NEW h \in Handler, QuestStep(h)
    PROVE  QuestMove(h)
<1> USE DEF Goto, cache
<1>0. QuestTypes /\ Tasked /\ LoadsTyped
  BY TypesSplit DEF IInv, QuestTypes, LoadsTyped
<1>10. \E K \in SUBSET Key : <<>> \in [K -> Load]
  <2>1. <<>> \in [{} -> Load]
    OBVIOUS
  <2> QED BY <2>1
<1>1. CASE \E t \in Task : StartQuest(h, t)
  <2>1. PICK t \in Task : StartQuest(h, t)
    BY <1>1
  <2>2. LoadsTyped'
    BY <1>0, <2>1 DEF StartQuest, LoadsTyped
  <2> QED BY <1>0, <2>1, <2>2 DEF StartQuest, QuestMove, QuestTypes, Tasked, QuestPC
<1>2. CASE TestCache(h)
  <2>1. LoadsTyped'
    BY <1>0, <1>2 DEF TestCache, LoadsTyped
  <2> QED BY <1>0, <1>2, <2>1 DEF TestCache, QuestMove, QuestTypes, Tasked, QuestPC
<1>3. CASE ReadLoads(h)
  <2>1. LoadsTyped'
    BY <1>0, <1>3, ReadTypes, LoadsKept
  <2> QED BY <1>0, <1>3, <2>1 DEF ReadLoads, QuestMove, QuestTypes, Tasked, QuestPC
<1>4. CASE Constrain(h)
  <2>1. LoadsTyped'
    BY <1>0, <1>4, ConstrainTypes, LoadsKept
  <2>2. /\ quest[h] = "constrain" /\ UNCHANGED <<task, choice, callCount, tgt_dev>>
        /\ \E to \in {"select", "fallback"} : quest' = [quest EXCEPT ![h] = to]
    BY <1>4 DEF Constrain
  <2> QED BY <1>0, <2>1, <2>2 DEF QuestMove, QuestTypes, Tasked, QuestPC
<1>5. CASE SelectDevice(h)
  <2>1. LoadsTyped'
    BY <1>0, <1>5, <1>10, LoadsKept DEF SelectDevice
  <2>2. /\ choice' \in [Handler -> Key]
        /\ \E to \in {"idle", "store"} : quest' = [quest EXCEPT ![h] = to]
    <3>1. CASE \E k \in DOMAIN load[h] : ~Fits(load[h][k])
      BY <1>0, <1>5, <3>1 DEF SelectDevice, QuestTypes
    <3>2. CASE ~\E k \in DOMAIN load[h] : ~Fits(load[h][k])
      <4>1. PICK k \in IF DOMAIN load[h] = {} THEN Garbage ELSE {Least(Lightest(load[h]))} : Found(h, k)
        BY <1>5, <3>2 DEF SelectDevice
      <4>2. PICK K \in SUBSET Key : load[h] \in [K -> Load]
        BY <1>0 DEF QuestTypes
      <4>3. k \in Key
        BY <4>1, <4>2, LeastLoaded, KeysAreNumbers
      <4> QED BY <4>1, <4>3, FoundTypes
    <3> QED BY <3>1, <3>2
  <2>3. UNCHANGED <<task, callCount, tgt_dev>> /\ quest[h] = "select"
    BY <1>5 DEF SelectDevice
  <2> QED BY <1>0, <2>1, <2>2, <2>3 DEF QuestMove, QuestTypes, Tasked, QuestPC
<1>6. CASE SelectFirst(h)
  <2>1. LoadsTyped'
    BY <1>0, <1>6, <1>10, LoadsKept DEF SelectFirst
  <2>2. choice' \in [Handler -> Key] /\ quest' = [quest EXCEPT ![h] = "store"]
    <3>1. PICK k \in IF Listed = {} THEN Garbage ELSE {Least(Listed)} : Found(h, k)
      BY <1>6 DEF SelectFirst
    <3>2. Listed \subseteq Key
      BY DEF Listed
    <3>3. k \in Key
      BY <3>1, <3>2, LeastIsLeast, KeysAreNumbers
    <3> QED BY <3>1, <3>3, FoundTypes
  <2>3. UNCHANGED <<task, callCount, tgt_dev>> /\ quest[h] = "fallback"
    BY <1>6 DEF SelectFirst
  <2> QED BY <1>0, <2>1, <2>2, <2>3 DEF QuestMove, QuestTypes, Tasked, QuestPC
<1>7. CASE StoreChoice(h)
  <2>1. LoadsTyped'
    BY <1>0, <1>7 DEF StoreChoice, LoadsTyped
  <2> QED BY <1>0, <1>7, <2>1 DEF StoreChoice, QuestMove, QuestTypes, Tasked, QuestPC
<1>8. CASE CountCall(h)
  <2>1. LoadsTyped'
    BY <1>0, <1>8 DEF CountCall, LoadsTyped
  <2>2. callCount' \in 0..(CacheCalls - 1)
    BY <1>0, <1>8, BoundAssumption DEF CountCall, QuestTypes
  <2> QED BY <1>0, <1>8, <2>1, <2>2 DEF CountCall, QuestMove, QuestTypes, Tasked, QuestPC
<1>9. CASE Dispatch(h)
  <2>1. LoadsTyped'
    BY <1>0, <1>9 DEF Dispatch, LoadsTyped
  <2> QED BY <1>0, <1>9, <2>1 DEF Dispatch, QuestMove, QuestTypes, Tasked, QuestPC
<1> QED BY <1>1, <1>2, <1>3, <1>4, <1>5, <1>6, <1>7, <1>8, <1>9 DEF QuestStep, SchedulerStep

LEMMA QuestInvariant ==
    ASSUME IInv, NEW h \in Handler, QuestStep(h)
    PROVE  IInv'
<1>0. MapTypes /\ PollerType /\ QuestTypes
  BY TypesSplit DEF IInv
<1>1. /\ UNCHANGED <<boards, device_status, device_info_failure_count, poller, missed>>
      /\ device_static_info' \in [Key -> InfoState]
  BY <1>0, QuestFrame
<1>2. QuestMove(h)
  BY QuestMoves
<1>3. MapTypes' /\ PollerType'
  BY <1>0, <1>1 DEF MapTypes, PollerType, boards
<1>4. Passed' /\ Counted' /\ Missed'
  BY <1>1 DEF IInv, Passed, Counted, Missed
<1>5. QuestTypes' /\ Tasked'
  BY <1>0, <1>2 DEF QuestMove, QuestTypes, LoadsTyped, Tasked
<1> QED BY <1>3, <1>4, <1>5, TypesSplit, PTL DEF IInv

-----------------------------------------------------------------------------
LEMMA RestartInvariant == ASSUME IInv, Restart PROVE IInv'
<1> USE BoundAssumption, KeysAreNumbers DEF Restart
<1>1. MapTypes'
  BY DEF IInv, TypeOK, MapTypes, InfoState
<1>2. PollerType'
  BY DEF PollerType, PollerPC, Asleep
<1>3. QuestTypes'
  <2>1. \A h \in Handler : load'[h] \in [{} -> Load]
    OBVIOUS
  <2>2. callCount' \in 0..(CacheCalls - 1)
    OBVIOUS
  <2> QED BY <2>1, <2>2 DEF QuestTypes, QuestPC
<1>4. Tasked' /\ Passed' /\ Counted' /\ Missed'
  BY DEF Tasked, Passed, Counted, Missed, Asleep
<1> QED BY <1>1, <1>2, <1>3, <1>4, TypesSplit, PTL DEF IInv

\* The inductive invariant: no step of a board, the collector or a quest breaks it.
THEOREM Invariant == Spec => []IInv
<1>1. IInv /\ [Next]_vars => IInv'
  <2> SUFFICES ASSUME IInv, [Next]_vars PROVE IInv'
    OBVIOUS
  <2>1. CASE Next
    BY <2>1, BoardTypes, CollectorInvariant, QuestInvariant, RestartInvariant
       DEF Next, BoardStep, QuestStep
  <2>2. CASE UNCHANGED vars
    BY <2>2 DEF vars, boards, maps, cache, handlers, IInv, TypeOK, Tasked, Passed, Counted, Missed
  <2> QED BY <2>1, <2>2
<1> QED BY <1>1, InitInvariant, PTL DEF Spec

\* Every variable keeps its type; a count of failed polls never passes the limit.
THEOREM TypeCorrect == Spec => []TypeOK
<1>1. IInv => TypeOK
  BY DEF IInv
<1> QED BY <1>1, Invariant, PTL

\* A device leaves the registry of a running gateway only after the limit of failed polls in
\* a row, none from before a registration that came in time, however registrations, quests
\* and the collector interleave.
THEOREM RemovalsDeserved == Spec => RemovedAfterFailures
<1> DEFINE Removal ==
      \A k \in Listed : device_static_info'[k] = "absent" =>
        missed[k] = MaxFailures \/ poller'.pc = "asleep"
<1>1. IInv /\ [Next]_vars => [Removal]_vars
  <2> SUFFICES ASSUME IInv, Next PROVE Removal
    BY DEF vars, boards, maps, cache, handlers, Listed
  <2>0. MapTypes /\ PollerType
    BY TypesSplit DEF IInv
  <2>1. CASE \E d \in Device : BoardStep(d)
    BY <2>0, <2>1 DEF BoardStep, RegistrationStep, StartAgent, StopAgent, Listen, StoreInfo,
                      StoreStatus, StoreCount, maps, MapTypes, Listed
  <2>2. CASE EraseInfo
    <3>1. poller.key \in poller.given_up /\ poller.pc = "info"
      BY <2>2 DEF EraseInfo, IInv, Passed
    <3>2. missed[poller.key] = MaxFailures
      BY <3>1 DEF IInv, Missed
    <3>3. \A k \in Key : device_static_info'[k] # device_static_info[k] => k = poller.key
      BY <2>0, <2>2 DEF EraseInfo, MapTypes
    <3> QED BY <3>2, <3>3 DEF Listed
  <2>3. CASE CollectorStep /\ ~EraseInfo
    BY <2>3 DEF CollectorStep, BeginCycle, Visit, PollAnswered, PollFailed, NextRemoval,
                EraseStatus, EraseCount, maps, Listed
  <2>4. CASE \E h \in Handler : QuestStep(h)
    BY <2>0, <2>4, QuestFrame
  <2>5. CASE Restart
    BY <2>5 DEF Restart, Asleep
  <2> QED BY <2>1, <2>2, <2>3, <2>4, <2>5 DEF Next, BoardStep, QuestStep
<1> QED BY <1>1, Invariant, PTL DEF Spec, RemovedAfterFailures

-----------------------------------------------------------------------------
(* Why a silent board is forgotten.  The cycles of the collector that its removal still    *)
(* takes, and the steps that are left of the present one, are a measure: each step of the  *)
(* collector makes it smaller, although registrations and quests put keys into the map it  *)
(* walks through, and no step of theirs makes it larger.                                   *)

\* What operator[] has inserted never answers a poll, whichever id it stands under.
Blanks ==
    /\ \A k \in Key : device_static_info[k] = "known" => k \in Device
    /\ poller.pc = "poll" /\ ~poller.blank => poller.key \in Device

\* No agent runs under the id, and no registration of one is under way.
Silent(k) == k \in Device => agent[k] = "off" /\ registration[k] = "none"

\* The present cycle has yet to ask k.
ToBePolled(k) ==
    \/ poller.pc = "visit" /\ k > poller.key
    \/ poller.pc = "poll" /\ k >= poller.key

\* A k that came back since EraseInfo will start from a count of 0.
BeingErased(k) == poller.pc \in {"status", "count"} /\ k = poller.key

\* The cycles after the present one until k is given up.
Cycles(k) ==
    IF BeingErased(k) THEN MaxFailures
    ELSE IF k \in poller.given_up THEN 0
    ELSE MaxFailures - device_info_failure_count[k] - (IF ToBePolled(k) THEN 1 ELSE 0)

Forward == {k \in Key : k > poller.key}

\* No fewer than the steps that are left of the cycle: two for each key it may visit, four
\* for each that it may remove.
CycleSteps ==
    LET all == Cardinality(Key)
        ahead == Cardinality(Forward)
        given_up == Cardinality(poller.given_up)
    IN  [asleep |-> 0,
         visit  |-> 4 * all + 2 * ahead + 2, poll  |-> 4 * all + 2 * ahead + 3,
         next   |-> 4 * given_up + 1,        info  |-> 4 * given_up,
         status |-> 4 * given_up - 1,        count |-> 4 * given_up - 2][poller.pc]

Nearer(k) == Cycles(k)' < Cycles(k) \/ (Cycles(k)' = Cycles(k) /\ CycleSteps' < CycleSteps)

LEMMA InitBlanks == Init => Blanks
BY DEF Init, RestInit, Blanks, Asleep

LEMMA StepBlanks == ASSUME IInv, Blanks, [Next]_vars PROVE Blanks'
<1>0. MapTypes /\ PollerType
  BY TypesSplit DEF IInv
<1>1. ASSUME NEW d \in Device, BoardStep(d) PROVE Blanks'
  <2>1. UNCHANGED poller
    BY <1>1 DEF BoardStep, RegistrationStep, StartAgent, StopAgent, Listen, StoreInfo, StoreStatus,
                StoreCount
  <2>2. \A k \in Key : device_static_info'[k] = device_static_info[k] \/ k = d
    BY <1>0, <1>1 DEF BoardStep, RegistrationStep, StartAgent, StopAgent, Listen, StoreInfo,
                      StoreStatus, StoreCount, maps, MapTypes
  <2> QED BY <2>1, <2>2 DEF Blanks
<1>2. CASE Visit
  <2> DEFINE ahead == {k \in Listed : k > poller.key}
  <2>1. UNCHANGED device_static_info
    BY <1>2 DEF Visit, maps
  <2>2. CASE ahead = {}
    BY <1>0, <1>2, <2>1, <2>2 DEF Visit, Blanks, PollerType
  <2>3. CASE ahead # {}
    <3>1. /\ poller' = [poller EXCEPT !.pc = "poll", !.key = Least(ahead),
                                      !.blank = device_static_info[Least(ahead)] = "blank"]
      BY <1>2, <2>3 DEF Visit
    <3>2. Least(ahead) \in Listed
      BY <2>3, LeastIsLeast, KeysAreNumbers DEF Listed
    <3> HIDE DEF ahead
    <3>3. poller'.key = Least(ahead) /\ poller'.blank = (device_static_info[Least(ahead)] = "blank")
      BY <1>0, <3>1 DEF PollerType
    <3>4. ~poller'.blank => device_static_info[Least(ahead)] = "known"
      BY <1>0, <3>2, <3>3 DEF Listed, MapTypes, InfoState
    <3> QED BY <2>1, <3>2, <3>3, <3>4 DEF Blanks, Listed
  <2> QED BY <2>2, <2>3
<1>3. CASE CollectorStep /\ ~Visit
  <2>1. \A k \in Key : device_static_info'[k] \in {device_static_info[k], "absent"}
    <3>1. CASE EraseInfo
      BY <1>0, <3>1 DEF EraseInfo, MapTypes
    <3>2. CASE ~EraseInfo
      BY <1>3, <3>2 DEF CollectorStep, BeginCycle, PollAnswered, PollFailed, NextRemoval, EraseStatus,
                        EraseCount, maps
    <3> QED BY <3>1, <3>2
  <2>2. poller'.pc # "poll"
    <3>1. CASE NextRemoval
      BY <1>0, <3>1 DEF NextRemoval, Asleep, PollerType
    <3>2. CASE ~NextRemoval
      BY <1>0, <1>3, <3>2 DEF CollectorStep, BeginCycle, PollAnswered, PollFailed, EraseInfo,
                              EraseStatus, EraseCount, Asleep, PollerType
    <3> QED BY <3>1, <3>2
  <2> QED BY <2>1, <2>2 DEF Blanks
<1>4. ASSUME NEW h \in Handler, QuestStep(h) PROVE Blanks'
  <2>1. UNCHANGED poller
    BY <1>0, <1>4, QuestFrame
  <2>2. UNCHANGED device_static_info \/ \E S : Touch(S)
    BY <1>4 DEF QuestStep, SchedulerStep, StartQuest, TestCache, ReadLoads, Constrain, SelectDevice,
                SelectFirst, Found, StoreChoice, CountCall, Dispatch, maps
  <2>3. \A k \in Key : device_static_info'[k] \in {device_static_info[k], "blank"}
    BY <1>0, <2>2 DEF Touch, MapTypes
  <2> QED BY <2>1, <2>3 DEF Blanks
<1>5. CASE Restart
  BY <1>5 DEF Restart, Blanks, Asleep
<1>6. CASE UNCHANGED vars
  BY <1>6 DEF vars, maps, Blanks
<1> QED BY <1>1, <1>2, <1>3, <1>4, <1>5, <1>6 DEF Next, BoardStep, QuestStep

LEMMA KeySets ==
    ASSUME NEW S \in SUBSET Key
    PROVE  IsFiniteSet(S) /\ Cardinality(S) \in Nat /\ Cardinality(S) <= Cardinality(Key)
<1>1. IsFiniteSet(Key)
  BY DevicesAssumption, FS_Singleton, FS_Union DEF Key
<1> QED BY <1>1, FS_Subset, FS_CardinalityType

\* The measure is made of numbers.
LEMMA MeasureIsNat ==
    ASSUME IInv
    PROVE  CycleSteps \in Nat /\ \A k \in Key : Cycles(k) \in 0..MaxFailures
<1> USE BoundAssumption, KeysAreNumbers
<1>0. MapTypes /\ PollerType
  BY TypesSplit DEF IInv
<1>1. CycleSteps \in Nat
  <2>1. Cardinality(Key) \in Nat /\ Cardinality(Forward) \in Nat /\ Cardinality(poller.given_up) \in Nat
    BY <1>0, KeySets DEF Forward, PollerType
  <2>2. poller.pc \in {"status", "count"} => Cardinality(poller.given_up) > 0
    BY <1>0, <2>1, KeySets, FS_EmptySet DEF IInv, Passed, PollerType
  <2> QED BY <1>0, <2>1, <2>2 DEF CycleSteps, PollerType, PollerPC
<1>2. ASSUME NEW k \in Key PROVE Cycles(k) \in 0..MaxFailures
  <2>1. device_info_failure_count[k] \in 0..MaxFailures
    BY <1>0 DEF MapTypes
  <2>2. k \notin poller.given_up => device_info_failure_count[k] < MaxFailures
    BY <2>1 DEF IInv, Counted
  <2> QED BY <2>1, <2>2 DEF Cycles
<1> QED BY <1>1, <1>2

\* What is left of a cycle grows less with each of its steps.
LEMMA CycleGoesOn ==
    ASSUME IInv, CollectorStep, ~BeginCycle
    PROVE  CycleSteps' < CycleSteps
<1> USE KeysAreNumbers
<1> DEFINE all == Cardinality(Key)
<1> DEFINE ahead == Cardinality(Forward)
<1> DEFINE up == Cardinality(poller.given_up)
<1>0. MapTypes /\ PollerType
  BY TypesSplit DEF IInv
<1>1. all \in Nat /\ ahead \in Nat /\ up \in Nat /\ up <= all /\ ahead <= all
  BY <1>0, KeySets DEF Forward, PollerType
<1>2. CASE Visit
  <2> DEFINE there == {k \in Listed : k > poller.key}
  <2>1. CASE there = {}
    <3>1. poller' = [poller EXCEPT !.pc = "next"] /\ poller.pc = "visit"
      BY <1>2, <2>1 DEF Visit
    <3>2. CycleSteps' = 4 * up + 1 /\ CycleSteps = 4 * all + 2 * ahead + 2
      BY <1>0, <3>1 DEF CycleSteps, PollerType
    <3> HIDE DEF all, ahead, up
    <3> QED BY <1>1, <3>2
  <2>2. CASE there # {}
    <3>1. /\ poller'.pc = "poll" /\ poller'.key = Least(there) /\ poller.pc = "visit"
      BY <1>0, <1>2, <2>2 DEF Visit, PollerType
    <3>2. Least(there) \in Key /\ Least(there) > poller.key
      BY <2>2, LeastIsLeast DEF Listed
    <3> HIDE DEF there
    <3>3. Forward' \subseteq Forward /\ Least(there) \in Forward /\ Least(there) \notin Forward'
      BY <1>0, <3>1, <3>2 DEF Forward, PollerType
    <3>4. Cardinality(Forward') <= ahead - 1 /\ Cardinality(Forward') \in Nat
      <4>1. IsFiniteSet(Forward) /\ Forward' \in SUBSET (Forward \ {Least(there)})
        BY <3>3, KeySets DEF Forward
      <4>2. /\ IsFiniteSet(Forward \ {Least(there)})
            /\ Cardinality(Forward \ {Least(there)}) = ahead - 1
        BY <3>3, <4>1, FS_RemoveElement
      <4>3. IsFiniteSet(Forward') /\ Cardinality(Forward') <= Cardinality(Forward \ {Least(there)})
        BY <4>1, <4>2, FS_Subset
      <4> HIDE DEF ahead
      <4> QED BY <4>2, <4>3, FS_CardinalityType
    <3>5. /\ CycleSteps' = 4 * all + 2 * Cardinality(Forward') + 3
          /\ CycleSteps = 4 * all + 2 * ahead + 2
      BY <1>0, <3>1 DEF CycleSteps, PollerType
    <3> HIDE DEF all, ahead, up
    <3> QED BY <1>1, <3>4, <3>5
  <2> QED BY <2>1, <2>2
<1>3. CASE PollFailed \/ \E s \in Status : PollAnswered(s)
  <2>1. poller.pc = "poll" /\ poller'.pc = "visit" /\ poller'.key = poller.key
    BY <1>0, <1>3 DEF PollFailed, PollAnswered, PollerType
  <2>2. CycleSteps' = 4 * all + 2 * ahead + 2 /\ CycleSteps = 4 * all + 2 * ahead + 3
    BY <2>1 DEF CycleSteps, Forward
  <2> HIDE DEF all, ahead, up
  <2> QED BY <1>1, <2>2
<1>4. CASE NextRemoval
  <2>1. poller.pc = "next"
    BY <1>4 DEF NextRemoval
  <2>2. CASE poller.given_up = {}
    BY <1>1, <1>4, <2>1, <2>2 DEF NextRemoval, CycleSteps, Asleep
  <2>3. CASE poller.given_up # {}
    <3>1. poller'.pc = "info" /\ poller'.given_up = poller.given_up
      BY <1>0, <1>4, <2>3 DEF NextRemoval, PollerType
    <3> QED BY <1>1, <2>1, <3>1 DEF CycleSteps
  <2> QED BY <2>2, <2>3
<1>5. CASE EraseInfo
  <2>1. poller.pc = "info" /\ poller'.pc = "status" /\ poller'.given_up = poller.given_up
    BY <1>0, <1>5 DEF EraseInfo, PollerType
  <2> QED BY <1>1, <2>1 DEF CycleSteps
<1>6. CASE EraseStatus
  <2>1. poller.pc = "status" /\ poller'.pc = "count" /\ poller'.given_up = poller.given_up
    BY <1>0, <1>6 DEF EraseStatus, PollerType
  <2> QED BY <1>1, <2>1 DEF CycleSteps
<1>7. CASE EraseCount
  <2>1. /\ poller.pc = "count" /\ poller'.pc = "next"
        /\ poller'.given_up = poller.given_up \ {poller.key} /\ poller.key \in poller.given_up
    BY <1>0, <1>7 DEF EraseCount, PollerType, IInv, Passed
  <2>2. Cardinality(poller'.given_up) = up - 1
    <3>1. IsFiniteSet(poller.given_up)
      BY <1>0, KeySets DEF PollerType
    <3> QED BY <2>1, <3>1, FS_RemoveElement
  <2>3. CycleSteps' = 4 * (up - 1) + 1 /\ CycleSteps = 4 * up - 2
    BY <2>1, <2>2 DEF CycleSteps
  <2> HIDE DEF all, ahead, up
  <2> QED BY <1>1, <2>3
<1> QED BY <1>2, <1>3, <1>4, <1>5, <1>6, <1>7 DEF CollectorStep

\* No step of the cycle but BeginCycle, which leaves one cycle less, changes how many cycles
\* a silent device has left; until EraseInfo it stays in the map, so that it is polled.
LEMMA CollectorNearer ==
    ASSUME IInv, Blanks, CollectorStep, NEW k \in Listed, Silent(k)
    PROVE  device_static_info'[k] = "absent" \/ Nearer(k)
<1> USE BoundAssumption, KeysAreNumbers
<1> DEFINE count == device_info_failure_count[k]
<1>0. MapTypes /\ PollerType /\ k \in Key
  BY TypesSplit DEF IInv, Listed
<1>1. CycleSteps \in Nat /\ Cycles(k) \in 0..MaxFailures
  BY <1>0, MeasureIsNat
<1>2. count \in 0..MaxFailures /\ (k \notin poller.given_up => count < MaxFailures)
  BY <1>0 DEF MapTypes, IInv, Counted
<1>3. ASSUME Cycles(k)' = Cycles(k), ~BeginCycle PROVE Nearer(k)
  BY <1>3, CycleGoesOn DEF Nearer
<1>4. CASE BeginCycle
  <2>1. poller.pc = "asleep" /\ poller.given_up = {} /\ poller' = [Asleep EXCEPT !.pc = "visit"]
    BY <1>4 DEF BeginCycle, IInv, Passed
  <2>2. device_info_failure_count' = device_info_failure_count
    BY <1>4 DEF BeginCycle, maps
  <2>3. Cycles(k) = MaxFailures - count /\ Cycles(k)' = MaxFailures - count - 1
    BY <1>0, <1>2, <2>1, <2>2 DEF Cycles, BeingErased, ToBePolled, Asleep
  <2> QED BY <1>2, <2>3 DEF Nearer
<1>5. CASE Visit
  <2> DEFINE there == {l \in Listed : l > poller.key}
  <2>1. poller.pc = "visit" /\ device_info_failure_count' = device_info_failure_count
    BY <1>5 DEF Visit, maps
  <2>2. /\ poller'.given_up = poller.given_up /\ poller'.pc \in {"next", "poll"}
        /\ ToBePolled(k)' <=> ToBePolled(k)
    <3>1. CASE there = {}
      <4>1. poller' = [poller EXCEPT !.pc = "next"] /\ ~(k > poller.key)
        BY <1>5, <3>1 DEF Visit
      <4> QED BY <1>0, <2>1, <4>1 DEF ToBePolled, PollerType
    <3>2. CASE there # {}
      <4>1. poller'.pc = "poll" /\ poller'.key = Least(there) /\ poller'.given_up = poller.given_up
        BY <1>0, <1>5, <3>2 DEF Visit, PollerType
      <4>2. /\ Least(there) \in Key /\ Least(there) > poller.key
            /\ k > poller.key => k >= Least(there)
        BY <3>2, LeastIsLeast DEF Listed
      <4> HIDE DEF there
      <4>3. poller.key \in Nat
        BY <1>0 DEF PollerType
      <4> QED BY <1>0, <2>1, <4>1, <4>2, <4>3 DEF ToBePolled
    <3> QED BY <3>1, <3>2
  <2>3. Cycles(k)' = Cycles(k)
    BY <2>1, <2>2 DEF Cycles, BeingErased
  <2>4. ~BeginCycle
    BY <2>1 DEF BeginCycle
  <2> QED BY <1>3, <2>3, <2>4
<1>6. CASE \E s \in Status : PollAnswered(s)
  <2>1. PICK s \in Status : PollAnswered(s)
    BY <1>6
  <2>2. poller.pc = "poll" /\ poller.key # k
    BY <2>1 DEF PollAnswered, Blanks, Silent
  <2>3. poller' = [poller EXCEPT !.pc = "visit"] /\ device_info_failure_count'[k] = count
    BY <1>0, <2>1, <2>2 DEF PollAnswered, MapTypes
  <2>4. poller.key \in Nat
    BY <1>0 DEF PollerType
  <2>5. Cycles(k)' = Cycles(k) /\ ~BeginCycle
    BY <1>0, <2>2, <2>3, <2>4 DEF Cycles, BeingErased, ToBePolled, PollerType, BeginCycle
  <2> QED BY <1>3, <2>5
<1>7. CASE PollFailed
  <2> DEFINE n == device_info_failure_count[poller.key] + 1
  <2>1. /\ poller.pc = "poll" /\ ~BeginCycle /\ poller.key \in Key
        /\ poller.key \notin poller.given_up
    BY <1>0, <1>7 DEF PollFailed, BeginCycle, IInv, Passed, PollerType
  <2>2. /\ poller'.pc = "visit" /\ poller'.key = poller.key
        /\ poller'.given_up = IF n >= MaxFailures THEN poller.given_up \union {poller.key}
                                                  ELSE poller.given_up
        /\ device_info_failure_count' = [device_info_failure_count EXCEPT ![poller.key] = n]
    BY <1>0, <1>7 DEF PollFailed, PollerType
  <2>3. CASE k = poller.key
    <3>1. device_info_failure_count'[k] = count + 1
      BY <1>0, <2>2, <2>3 DEF MapTypes
    <3>2. k \in poller'.given_up <=> count + 1 >= MaxFailures
      BY <2>1, <2>2, <2>3
    <3>3. Cycles(k) = MaxFailures - count - 1
      BY <2>1, <2>3, <1>0 DEF Cycles, BeingErased, ToBePolled
    <3>4. Cycles(k)' = Cycles(k)
      BY <1>0, <1>2, <2>1, <2>2, <2>3, <3>1, <3>2, <3>3 DEF Cycles, BeingErased, ToBePolled
    <3> QED BY <1>3, <2>1, <3>4
  <2>4. CASE k # poller.key
    <3>1. device_info_failure_count'[k] = count /\ (k \in poller'.given_up <=> k \in poller.given_up)
      BY <1>0, <2>2, <2>4 DEF MapTypes
    <3> HIDE DEF n
    <3>2. Cycles(k)' = Cycles(k)
      BY <1>0, <2>1, <2>2, <2>4, <3>1 DEF Cycles, BeingErased, ToBePolled
    <3> QED BY <1>3, <2>1, <3>2
  <2> QED BY <2>3, <2>4
<1>8. CASE NextRemoval
  <2>1. poller.pc = "next" /\ device_info_failure_count' = device_info_failure_count
    BY <1>8 DEF NextRemoval, maps
  <2>2. poller'.given_up = poller.given_up /\ poller'.pc \in {"asleep", "info"}
    BY <1>0, <1>8 DEF NextRemoval, Asleep, PollerType
  <2>3. Cycles(k)' = Cycles(k) /\ ~BeginCycle
    BY <2>1, <2>2 DEF Cycles, BeingErased, ToBePolled, BeginCycle
  <2> QED BY <1>3, <2>3
<1>9. CASE EraseInfo
  <2>1. CASE k = poller.key
    BY <1>0, <1>9, <2>1 DEF EraseInfo, MapTypes
  <2>2. CASE k # poller.key
    <3>1. /\ poller' = [poller EXCEPT !.pc = "status"] /\ poller.pc = "info"
          /\ device_info_failure_count' = device_info_failure_count
      BY <1>9 DEF EraseInfo
    <3>2. Cycles(k)' = Cycles(k) /\ ~BeginCycle
      BY <1>0, <2>2, <3>1 DEF Cycles, BeingErased, ToBePolled, PollerType, BeginCycle
    <3> QED BY <1>3, <3>2
  <2> QED BY <2>1, <2>2
<1>10. CASE EraseStatus
  <2>1. /\ poller' = [poller EXCEPT !.pc = "count"] /\ poller.pc = "status"
        /\ device_info_failure_count' = device_info_failure_count
    BY <1>10 DEF EraseStatus
  <2>2. Cycles(k)' = Cycles(k) /\ ~BeginCycle
    BY <1>0, <2>1 DEF Cycles, BeingErased, ToBePolled, PollerType, BeginCycle
  <2> QED BY <1>3, <2>2
<1>11. CASE EraseCount
  <2>1. /\ poller'.pc = "next" /\ poller'.given_up = poller.given_up \ {poller.key}
        /\ poller.pc = "count" /\ ~BeginCycle
        /\ device_info_failure_count' = [device_info_failure_count EXCEPT ![poller.key] = 0]
    BY <1>0, <1>11 DEF EraseCount, PollerType, BeginCycle
  <2>2. device_info_failure_count'[k] = IF k = poller.key THEN 0 ELSE count
    BY <1>0, <2>1 DEF MapTypes
  <2>3. Cycles(k)' = Cycles(k)
    BY <2>1, <2>2 DEF Cycles, BeingErased, ToBePolled
  <2> QED BY <1>3, <2>1, <2>3
<1> QED BY <1>4, <1>5, <1>6, <1>7, <1>8, <1>9, <1>10, <1>11 DEF CollectorStep

\* What the other threads do to a silent device: nothing that the collector notices.
LEMMA OthersKeepMeasure ==
    ASSUME IInv, Next, ~CollectorStep, NEW k \in Listed, Silent(k)
    PROVE  device_static_info'[k] = "absent" \/ UNCHANGED <<Cycles(k), CycleSteps>>
<1>0. MapTypes /\ k \in Key
  BY TypesSplit DEF IInv, Listed
<1>1. ASSUME UNCHANGED poller, device_info_failure_count'[k] = device_info_failure_count[k]
      PROVE  UNCHANGED <<Cycles(k), CycleSteps>>
  BY <1>1 DEF Cycles, CycleSteps, BeingErased, ToBePolled, Forward
<1>2. ASSUME NEW d \in Device, BoardStep(d) PROVE UNCHANGED <<Cycles(k), CycleSteps>>
  <2>1. UNCHANGED poller
    BY <1>2 DEF BoardStep, RegistrationStep, StartAgent, StopAgent, Listen, StoreInfo, StoreStatus,
                StoreCount
  <2>2. device_info_failure_count'[k] = device_info_failure_count[k]
    <3>1. CASE StoreCount(d)
      BY <1>0, <3>1 DEF StoreCount, Silent, MapTypes
    <3>2. CASE ~StoreCount(d)
      BY <1>2, <3>2 DEF BoardStep, RegistrationStep, StartAgent, StopAgent, Listen, StoreInfo,
                        StoreStatus, maps
    <3> QED BY <3>1, <3>2
  <2> QED BY <1>1, <2>1, <2>2
<1>3. ASSUME NEW h \in Handler, QuestStep(h) PROVE UNCHANGED <<Cycles(k), CycleSteps>>
  BY <1>0, <1>1, <1>3, QuestFrame
<1>4. CASE Restart
  BY <1>0, <1>4 DEF Restart
<1> QED BY <1>2, <1>3, <1>4 DEF Next, BoardStep, QuestStep

\* A board that is off, or an id that operator[] has made up, comes nearer to its removal
\* with each step of the collector, and no registration, quest or other board ever puts it
\* back: the measure is a pair of numbers that only the collector changes, and it makes it
\* smaller until the device has left the map.
THEOREM EveryPollIsNearer ==
    Spec => /\ [](CycleSteps \in Nat /\ \A k \in Key : Cycles(k) \in 0..MaxFailures)
            /\ [][\A k \in Listed : Silent(k) =>
                    \/ device_static_info'[k] = "absent"
                    \/ CollectorStep /\ Nearer(k)
                    \/ ~CollectorStep /\ UNCHANGED <<Cycles(k), CycleSteps>>]_vars
<1> DEFINE Step ==
      \A k \in Listed : Silent(k) =>
        \/ device_static_info'[k] = "absent"
        \/ CollectorStep /\ Nearer(k)
        \/ ~CollectorStep /\ UNCHANGED <<Cycles(k), CycleSteps>>
<1>1. IInv => CycleSteps \in Nat /\ \A k \in Key : Cycles(k) \in 0..MaxFailures
  BY MeasureIsNat
<1>2. IInv /\ Blanks /\ [Next]_vars => Blanks'
  BY StepBlanks
<1>3. IInv /\ Blanks /\ [Next]_vars => [Step]_vars
  BY CollectorNearer, OthersKeepMeasure
<1> HIDE DEF Step
<1>4. Spec => []Blanks
  BY <1>2, InitBlanks, Invariant, PTL DEF Spec
<1>5. Spec => [][Step]_vars
  BY <1>3, <1>4, Invariant, PTL DEF Spec
<1> QED BY <1>1, <1>5, Invariant, PTL DEF Step

=============================================================================
