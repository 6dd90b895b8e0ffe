------------------------ MODULE SubAgentTimersProofs ------------------------
(* Theorems about SubAgentTimers, for any number of handlers, agents, devices and  *)
(* timers.                                                                         *)
EXTENDS SubAgentTimers, Naturals, TLAPS

\* Calls have a key; only objects that exist have threads.
Keyed ==
    /\ \A h \in Handler : pc[h] # "idle" => at[h] \in Key
    /\ \A o \in Timer : thread[o] # "none" => key[o] \in Key

\* The map holds each object under the key its callback captures.
MapOfKeys == \A k \in Key : idle_timers[k] # NoTimer => key[idle_timers[k]] = k

\* A local shared_ptr is to an object of its own, which has no thread before start().
Held ==
    \A h \in Handler : timer[h] # NoTimer =>
        /\ key[timer[h]] = at[h]
        /\ \A g \in Handler : timer[g] = timer[h] => g = h
        /\ pc[h] \in {"joinOld", "spawn"} => thread[timer[h]] = "none"

\* Whoever runs a destructor has the last reference, and the mutex when it had it before.
Victims ==
    \A h \in Handler :
        /\ victim[h] # NoTimer <=> pc[h] \in {"joinOld", "joinOwn"}
        /\ pc[h] = "joinOld" => mutex = h
        /\ victim[h] # NoTimer =>
            /\ key[victim[h]] = at[h]
            /\ \A k \in Key : idle_timers[k] # victim[h]
            /\ \A g \in Handler : timer[g] # victim[h] /\ (victim[g] = victim[h] => g = h)

\* No timer expires between the two critical sections of a handler of its key.
NotExpired ==
    \A h \in Handler : pc[h] = "insert" /\ idle_timers[at[h]] # NoTimer =>
        thread[idle_timers[at[h]]] \notin {"expired", "removed"}

\* A timer that still counts is in the map, or in some handler's hands.
Reachable ==
    \A o \in Timer : thread[o] \in {"waiting", "stopping"} =>
        \/ idle_timers[key[o]] = o
        \/ \E h \in Handler : timer[h] = o \/ victim[h] = o

\* A destroyed object is known to its own thread alone.
Detached ==
    \A o \in Timer : thread[o] = "detached" =>
        /\ \A k \in Key : idle_timers[k] # o
        /\ \A h \in Handler : timer[h] # o /\ victim[h] # o

CollectorHolds ==
    /\ collector.pc \in {"next", "join"} => mutex = Collector
    /\ collector.pc = "join" => collector.key \in Key /\ idle_timers[collector.key] # NoTimer

IInv ==
    /\ TypeOK /\ Keyed /\ MapOfKeys /\ Held /\ Victims /\ NotExpired /\ Reachable /\ Detached
    /\ CollectorHolds /\ LiveEntry /\ OwnEntry

LEMMA Names ==
    /\ NoTimer \notin Timer /\ NoKey \notin Key /\ Nobody # Collector
    /\ \A h \in Handler : h # Nobody /\ h # Collector
BY NamesAssumption

\* What IInv says of the objects depends on these alone; the labels matter to handlers that
\* own an object, or are about to create one.
LEMMA QuietStep ==
    ASSUME IInv, UNCHANGED <<mutex, objects, timer, victim>>, TypeOK',
           \A h \in Handler : \/ pc'[h] = pc[h] /\ at'[h] = at[h]
                              \/ /\ pc[h] \notin OwningPC \union {"joinOwn"}
                                 /\ pc'[h] \notin OwningPC \union {"joinOwn"}
                                 /\ pc'[h] # "idle" => at'[h] \in Key
                                 /\ pc'[h] = "insert" => idle_timers[at'[h]] = NoTimer,
           collector'.pc = "join" <=> collector.pc = "join", collector'.key = collector.key,
           collector'.pc = "next" => mutex = Collector
    PROVE  IInv'
<1>1. Keyed' /\ MapOfKeys' /\ NotExpired'
  BY DEF IInv, objects, Keyed, MapOfKeys, NotExpired, OwningPC
<1>2. Held' /\ Victims'
  BY DEF IInv, objects, Held, Victims, OwningPC, TypeOK
<1>3. Reachable' /\ Detached'
  BY DEF IInv, objects, Reachable, Detached
<1>4. LiveEntry' /\ OwnEntry'
  BY DEF IInv, objects, LiveEntry, OwnEntry, Shared, OwningPC
<1>5. CollectorHolds'
  BY DEF IInv, objects, CollectorHolds
<1> QED BY <1>1, <1>2, <1>3, <1>4, <1>5 DEF IInv

LEMMA LocalTypes ==
    ASSUME IInv, NEW h \in Handler,
           \/ \E k \in Key : StartSubAgent(h, k)
           \/ LookUpDevice(h) \/ ProbeAgent(h) \/ CreateContainer(h) \/ StartNew(h)
           \/ StartNamed(h) \/ AwaitPort(h) \/ ArmOrRefresh(h)
    PROVE  TypeOK'
<1>0. /\ TypeOK /\ at \in [Handler -> Key \union {NoKey}]
      /\ pc[h] \notin OwningPC \/ ArmOrRefresh(h)
  BY DEF IInv, TypeOK, OwningPC, StartSubAgent, LookUpDevice, ProbeAgent, CreateContainer, StartNew,
         StartNamed, AwaitPort
<1>1. UNCHANGED <<known, mutex, objects, timer, victim, collector, alive>>
  BY DEF StartSubAgent, LookUpDevice, ProbeAgent, CreateContainer, StartNew, StartNamed, AwaitPort,
         ArmOrRefresh, Local
<1>2. /\ pc[h] \notin OwningPC
      /\ \E l \in HandlerPC \ OwningPC : pc' = [pc EXCEPT ![h] = l]
  BY DEF StartSubAgent, LookUpDevice, ProbeAgent, CreateContainer, StartNew, StartNamed, AwaitPort,
         ArmOrRefresh, Goto, Return, HandlerPC, OwningPC
<1>3. at' \in [Handler -> Key \union {NoKey}]
  BY <1>0 DEF StartSubAgent, LookUpDevice, ProbeAgent, CreateContainer, StartNew, StartNamed, AwaitPort,
         ArmOrRefresh, Return
<1>4. container' \in [Key -> {"absent", "stopped", "running"}]
  BY <1>0 DEF TypeOK, StartSubAgent, LookUpDevice, ProbeAgent, CreateContainer, StartNew, StartNamed,
         AwaitPort, ArmOrRefresh, StartsContainer
<1>5. /\ pc' \in [Handler -> HandlerPC]
      /\ \A g \in Handler : timer'[g] # NoTimer <=> pc'[g] \in OwningPC
  BY <1>0, <1>1, <1>2 DEF TypeOK
<1> QED BY <1>0, <1>1, <1>3, <1>4, <1>5 DEF TypeOK, objects

LEMMA LocalKeeps ==
    ASSUME IInv, NEW h \in Handler,
           \/ \E k \in Key : StartSubAgent(h, k)
           \/ LookUpDevice(h) \/ ProbeAgent(h) \/ CreateContainer(h) \/ StartNew(h)
           \/ StartNamed(h) \/ AwaitPort(h) \/ ArmOrRefresh(h)
    PROVE  IInv'
<1>0. /\ pc \in [Handler -> HandlerPC] /\ at \in [Handler -> Key \union {NoKey}]
      /\ \A g \in Handler : pc[g] # "idle" => at[g] \in Key
  BY DEF IInv, TypeOK, Keyed
<1>1. UNCHANGED <<mutex, objects, timer, victim, collector>>
  BY DEF StartSubAgent, LookUpDevice, ProbeAgent, CreateContainer, StartNew, StartNamed, AwaitPort,
         ArmOrRefresh, Local
<1>2. ASSUME NEW g \in Handler
      PROVE  \/ pc'[g] = pc[g] /\ at'[g] = at[g]
             \/ /\ pc[g] \notin OwningPC \union {"joinOwn"}
                /\ pc'[g] \notin OwningPC \union {"joinOwn"}
                /\ pc'[g] # "idle" => at'[g] \in Key
                /\ pc'[g] = "insert" => idle_timers[at'[g]] = NoTimer
  <2>1. CASE g # h
    BY <1>0, <2>1 DEF StartSubAgent, LookUpDevice, ProbeAgent, CreateContainer, StartNew, StartNamed, AwaitPort,
         ArmOrRefresh, Goto, Return
  <2>2. CASE g = h
    BY <1>0, <2>2 DEF StartSubAgent, LookUpDevice, ProbeAgent, CreateContainer, StartNew, StartNamed, AwaitPort,
         ArmOrRefresh, Goto, Return, OwningPC
  <2> QED BY <2>1, <2>2
<1>3. TypeOK'
  BY LocalTypes
<1>4. CollectorHolds
  BY DEF IInv
<1> QED BY <1>1, <1>2, <1>3, <1>4, QuietStep DEF CollectorHolds

-----------------------------------------------------------------------------
(* The handlers' timers *)

LEMMA InsertKeeps == ASSUME IInv, NEW h \in Handler, InsertTimer(h) PROVE IInv'
<1> DEFINE old == idle_timers[at[h]]
<1>0. PICK o \in Timer :
        /\ key[o] = NoKey /\ thread[o] = "none"
        /\ key' = [key EXCEPT ![o] = at[h]]
        /\ timer' = [timer EXCEPT ![h] = o]
        /\ idle_timers' = [idle_timers EXCEPT ![at[h]] = o]
  BY DEF InsertTimer
<1>1. /\ TypeOK /\ at[h] \in Key /\ pc[h] = "insert" /\ mutex = Nobody
      /\ timer[h] = NoTimer /\ victim[h] = NoTimer /\ o # NoTimer
      /\ UNCHANGED <<at, collector, container, known, alive>>
      /\ collector.pc \notin {"next", "join"}
  BY Names DEF InsertTimer, IInv, TypeOK, Keyed, Victims, CollectorHolds, OwningPC
<1>2. /\ key'[o] = at[h] /\ \A p \in Timer \ {o} : key'[p] = key[p]
      /\ timer'[h] = o /\ \A g \in Handler \ {h} : timer'[g] = timer[g]
      /\ idle_timers'[at[h]] = o /\ \A k \in Key \ {at[h]} : idle_timers'[k] = idle_timers[k]
  BY <1>0, <1>1 DEF TypeOK
\* The new object was nowhere.
<1>3. /\ \A k \in Key : idle_timers[k] # o
      /\ \A g \in Handler : timer[g] # o /\ victim[g] # o
  <2>1. ASSUME NEW k \in Key, idle_timers[k] = o PROVE FALSE
    BY <1>0, <1>1, <2>1, Names DEF IInv, MapOfKeys
  <2>2. ASSUME NEW g \in Handler, timer[g] = o \/ victim[g] = o PROVE FALSE
    <3>1. pc[g] # "idle" /\ key[o] = at[g]
      BY <1>1, <2>2 DEF IInv, TypeOK, OwningPC, Held, Victims
    <3> QED BY <1>0, <3>1, Names DEF IInv, Keyed
  <2> QED BY <2>1, <2>2
<1>4. CASE (old = NoTimer \/ Shared(old)) /\ Goto(h, "spawn") /\ UNCHANGED <<mutex, thread, victim>>
  <2>1. pc' = [pc EXCEPT ![h] = "spawn"]
    BY <1>4 DEF Goto
  <2>2. TypeOK'
    BY <1>0, <1>1, <1>2, <1>4, <2>1 DEF TypeOK, HandlerPC, OwningPC
  <2>3. Keyed' /\ MapOfKeys'
    BY <1>0, <1>1, <1>2, <1>3, <1>4, <2>1, Names DEF IInv, Keyed, MapOfKeys, TypeOK
  <2>4. Held'
    BY <1>0, <1>1, <1>2, <1>3, <1>4, <2>1 DEF IInv, Held, TypeOK
  <2>5. Victims'
    BY <1>0, <1>1, <1>2, <1>3, <1>4, <2>1 DEF IInv, Victims, TypeOK
  <2>6. NotExpired' /\ Detached' /\ CollectorHolds'
    BY <1>0, <1>1, <1>2, <1>3, <1>4, <2>1 DEF IInv, NotExpired, Detached, CollectorHolds, Keyed, TypeOK
  <2>7. Reachable'
    BY <1>0, <1>1, <1>2, <1>3, <1>4, <2>1 DEF IInv, Reachable, Shared, MapOfKeys, Keyed, TypeOK
  <2>8. LiveEntry'
    BY <1>0, <1>1, <1>2, <1>3, <1>4, <2>1 DEF IInv, LiveEntry, TypeOK
  <2>9. OwnEntry'
    BY <1>0, <1>1, <1>2, <1>3, <1>4, <2>1 DEF IInv, OwnEntry, Shared, NotExpired, MapOfKeys, Keyed, TypeOK
  <2> QED BY <2>2, <2>3, <2>4, <2>5, <2>6, <2>7, <2>8, <2>9 DEF IInv
<1>5. CASE /\ old # NoTimer /\ ~Shared(old) /\ Goto(h, "joinOld") /\ mutex' = h
           /\ thread' = [thread EXCEPT ![old] = Stopped(@)]
           /\ victim' = [victim EXCEPT ![h] = old]
  <2>1. /\ pc' = [pc EXCEPT ![h] = "joinOld"]
        /\ old \in Timer /\ key[old] = at[h] /\ old # o
        /\ thread'[old] = Stopped(thread[old]) /\ \A p \in Timer \ {old} : thread'[p] = thread[p]
        /\ victim'[h] = old /\ \A g \in Handler \ {h} : victim'[g] = victim[g]
        /\ \A k \in Key \ {at[h]} : idle_timers[k] # old
        /\ \A g \in Handler : victim[g] # old
        /\ thread[old] \notin {"expired", "removed", "detached"}
    BY <1>0, <1>1, <1>3, <1>5 DEF Goto, IInv, MapOfKeys, Victims, NotExpired, Detached, TypeOK
  <2>2. TypeOK'
    BY <1>0, <1>1, <1>2, <1>5, <2>1 DEF TypeOK, HandlerPC, OwningPC, Stopped, TimerThread
  <2>3. Keyed' /\ MapOfKeys'
    BY <1>0, <1>1, <1>2, <1>3, <1>5, <2>1, Names DEF IInv, Keyed, MapOfKeys, TypeOK
  <2>4. Held'
    BY <1>0, <1>1, <1>2, <1>3, <1>5, <2>1 DEF IInv, Held, Shared, TypeOK
  <2>5. Victims'
    BY <1>0, <1>1, <1>2, <1>3, <1>5, <2>1, Names DEF IInv, Victims, Shared, TypeOK
  <2>6. NotExpired' /\ Detached' /\ CollectorHolds'
    BY <1>0, <1>1, <1>2, <1>3, <1>5, <2>1 DEF IInv, NotExpired, Detached, CollectorHolds, Keyed, TypeOK, Stopped
  <2>7. Reachable'
    <3> SUFFICES ASSUME NEW p \in Timer, thread'[p] \in {"waiting", "stopping"}
                 PROVE  \/ idle_timers'[key'[p]] = p
                        \/ \E g \in Handler : timer'[g] = p \/ victim'[g] = p
      BY DEF Reachable
    <3>1. CASE p = old
      BY <2>1, <3>1
    <3>2. CASE p # old
      <4>1. p # o /\ thread'[p] = thread[p] /\ key'[p] = key[p] /\ p # NoTimer /\ key[p] \in Key
        BY <1>0, <1>2, <2>1, <3>2, Names DEF IInv, Keyed
      <4>2. CASE idle_timers[key[p]] = p
        BY <1>2, <3>2, <4>1, <4>2
      <4>3. ASSUME NEW g \in Handler, timer[g] = p \/ victim[g] = p PROVE timer'[g] = p \/ victim'[g] = p
        BY <1>1, <1>2, <2>1, <4>1, <4>3
      <4> QED BY <4>1, <4>2, <4>3 DEF IInv, Reachable
    <3> QED BY <3>1, <3>2
  <2>8. LiveEntry'
    BY <1>0, <1>1, <1>2, <1>3, <1>5, <2>1 DEF IInv, LiveEntry, TypeOK
  <2>9. OwnEntry'
    BY <1>0, <1>1, <1>2, <1>3, <1>5, <2>1 DEF IInv, OwnEntry, Shared, MapOfKeys, Keyed, TypeOK, Stopped
  <2> QED BY <2>2, <2>3, <2>4, <2>5, <2>6, <2>7, <2>8, <2>9 DEF IInv
<1> QED BY <1>4, <1>5 DEF InsertTimer

\* A destructor that has joined its thread leaves a name without an object.
LEMMA DestroyedFacts ==
    ASSUME IInv, NEW h \in Handler, pc[h] \in {"joinOld", "joinOwn"}, Destroyed(h)
    PROVE  /\ victim[h] \in Timer /\ at[h] \in Key
           /\ thread[victim[h]] \in {"none", "ended"} /\ thread'[victim[h]] = "none" /\ key'[victim[h]] = NoKey
           /\ \A p \in Timer \ {victim[h]} : thread'[p] = thread[p] /\ key'[p] = key[p]
           /\ victim'[h] = NoTimer /\ \A g \in Handler \ {h} : victim'[g] = victim[g]
           /\ \A k \in Key : idle_timers[k] # victim[h]
           /\ \A g \in Handler : timer[g] # victim[h]
           /\ \A g \in Handler \ {h} : victim[g] # victim[h]
           /\ thread' \in [Timer -> TimerThread] /\ key' \in [Timer -> Key \union {NoKey}]
           /\ victim' \in [Handler -> Timer \union {NoTimer}]
<1>1. victim[h] \in Timer /\ TypeOK /\ at[h] \in Key
  BY DEF IInv, TypeOK, Victims, Keyed
<1>2. /\ \A k \in Key : idle_timers[k] # victim[h]
      /\ \A g \in Handler : timer[g] # victim[h] /\ (victim[g] = victim[h] => g = h)
  BY <1>1 DEF IInv, Victims
<1> QED BY <1>1, <1>2 DEF Destroyed, TypeOK, TimerThread

LEMMA JoinKeeps == ASSUME IInv, NEW h \in Handler, JoinOld(h) \/ JoinOwn(h) PROVE IInv'
<1> DEFINE v == victim[h]
<1>1. /\ pc[h] \in {"joinOld", "joinOwn"} /\ Destroyed(h) /\ TypeOK
      /\ UNCHANGED <<known, idle_timers, container, timer, collector, alive>>
      /\ mutex' = mutex \/ (mutex = h /\ mutex' = Nobody)
      /\ \A g \in Handler \ {h} : mutex = g => mutex' = g
      /\ mutex = Collector => mutex' = Collector
  BY Names DEF IInv, Victims, JoinOld, JoinOwn
<1>2. /\ \/ pc[h] = "joinOld" /\ pc'[h] = "spawn" /\ at'[h] = at[h]
         \/ pc[h] = "joinOwn" /\ pc'[h] = "idle" /\ timer[h] = NoTimer
      /\ \A g \in Handler \ {h} : pc'[g] = pc[g] /\ at'[g] = at[g]
      /\ pc' \in [Handler -> HandlerPC] /\ at' \in [Handler -> Key \union {NoKey}]
  BY <1>1 DEF TypeOK, JoinOld, JoinOwn, Goto, Return, HandlerPC, OwningPC
<1>3. TypeOK'
  BY <1>1, <1>2, DestroyedFacts DEF TypeOK, OwningPC
<1>4. Keyed' /\ MapOfKeys' /\ NotExpired' /\ CollectorHolds'
  BY <1>1, <1>2, DestroyedFacts DEF IInv, TypeOK, Keyed, MapOfKeys, NotExpired, CollectorHolds
<1>5. Held' /\ Victims'
  BY <1>1, <1>2, DestroyedFacts DEF IInv, TypeOK, Held, Victims
<1>6. Reachable'
  <2> SUFFICES ASSUME NEW p \in Timer, thread'[p] \in {"waiting", "stopping"}
               PROVE  \/ idle_timers[key'[p]] = p
                      \/ \E g \in Handler : timer[g] = p \/ victim'[g] = p
    BY <1>1 DEF Reachable
  <2>1. p # v /\ p # NoTimer /\ thread'[p] = thread[p] /\ key'[p] = key[p]
    BY <1>1, DestroyedFacts, Names
  <2>2. ASSUME NEW g \in Handler, victim[g] = p PROVE victim'[g] = p
    BY <1>1, <2>1, <2>2, DestroyedFacts
  <2> QED BY <2>1, <2>2 DEF IInv, Reachable
<1>a. Detached'
  BY <1>1, <1>2, DestroyedFacts, Names DEF IInv, TypeOK, Detached
<1>7. LiveEntry' /\ OwnEntry'
  BY <1>1, <1>2, DestroyedFacts DEF IInv, TypeOK, LiveEntry, OwnEntry, Shared
<1> QED BY <1>3, <1>4, <1>5, <1>6, <1>a, <1>7 DEF IInv

LEMMA SpawnKeeps == ASSUME IInv, NEW h \in Handler, SpawnTimer(h) PROVE IInv'
<1> DEFINE o == timer[h]
<1>1. /\ TypeOK /\ o \in Timer /\ pc[h] = "spawn" /\ key[o] = at[h] /\ at[h] \in Key /\ thread[o] = "none"
      /\ \A g \in Handler \ {h} : timer[g] # o
      /\ \A g \in Handler : victim[g] # o
      /\ UNCHANGED <<known, mutex, idle_timers, key, container, at, timer, victim, collector, alive>>
  BY DEF SpawnTimer, IInv, TypeOK, OwningPC, Held, Victims, Keyed
<1>2. /\ thread'[o] = "waiting" /\ \A p \in Timer \ {o} : thread'[p] = thread[p]
      /\ pc'[h] = "release" /\ \A g \in Handler \ {h} : pc'[g] = pc[g]
  BY <1>1 DEF SpawnTimer, Goto, TypeOK
<1>3. TypeOK'
  BY <1>1, <1>2 DEF SpawnTimer, Goto, TypeOK, TimerThread, HandlerPC, OwningPC
<1>4. Keyed' /\ MapOfKeys' /\ NotExpired' /\ CollectorHolds'
  BY <1>1, <1>2 DEF IInv, TypeOK, Keyed, MapOfKeys, NotExpired, CollectorHolds
<1>5. Held' /\ Victims'
  BY <1>1, <1>2 DEF IInv, TypeOK, Held, Victims
<1>6. Reachable' /\ Detached'
  BY <1>1, <1>2 DEF IInv, TypeOK, Reachable, Detached
<1>7. LiveEntry' /\ OwnEntry'
  BY <1>1, <1>2 DEF IInv, TypeOK, LiveEntry, OwnEntry, Shared
<1> QED BY <1>3, <1>4, <1>5, <1>6, <1>7 DEF IInv

LEMMA ReleaseKeeps == ASSUME IInv, NEW h \in Handler, ReleaseTimer(h) PROVE IInv'
<1> DEFINE o == timer[h]
<1>1. /\ TypeOK /\ o \in Timer /\ o # NoTimer /\ pc[h] = "release" /\ key[o] = at[h] /\ at[h] \in Key
      /\ victim[h] = NoTimer
      /\ \A g \in Handler \ {h} : timer[g] # o
      /\ \A g \in Handler : victim[g] # o
      /\ UNCHANGED <<known, mutex, idle_timers, key, container, collector, alive>>
  BY Names DEF ReleaseTimer, IInv, TypeOK, OwningPC, Held, Victims, Keyed
<1>2. timer'[h] = NoTimer /\ \A g \in Handler \ {h} : timer'[g] = timer[g]
  BY <1>1 DEF ReleaseTimer, TypeOK
<1>3. /\ \A g \in Handler \ {h} : pc'[g] = pc[g] /\ at'[g] = at[g]
      /\ \/ /\ idle_timers[at[h]] = o /\ pc'[h] = "idle" /\ UNCHANGED <<thread, victim>>
         \/ /\ idle_timers[at[h]] # o /\ pc'[h] = "joinOwn" /\ at'[h] = at[h]
            /\ victim'[h] = o /\ \A g \in Handler \ {h} : victim'[g] = victim[g]
            /\ thread'[o] = Stopped(thread[o]) /\ \A p \in Timer \ {o} : thread'[p] = thread[p]
  BY <1>1 DEF ReleaseTimer, Goto, Return, TypeOK
<1>a. idle_timers[at[h]] # o => \A k \in Key : idle_timers[k] # o
  BY <1>1 DEF IInv, MapOfKeys
<1>4. TypeOK'
  BY <1>1, <1>2, <1>3 DEF ReleaseTimer, Goto, Return, TypeOK, TimerThread, Stopped, HandlerPC, OwningPC
<1>5. Keyed' /\ MapOfKeys' /\ NotExpired' /\ CollectorHolds'
  BY <1>1, <1>2, <1>3, <1>a DEF IInv, TypeOK, Keyed, MapOfKeys, NotExpired, CollectorHolds
<1>6. Held' /\ Victims'
  BY <1>1, <1>2, <1>3, <1>a DEF IInv, TypeOK, Held, Victims
<1>7. Reachable' /\ Detached'
  BY <1>1, <1>2, <1>3, <1>a DEF IInv, TypeOK, Reachable, Detached, Stopped
<1>8. LiveEntry'
  <2> SUFFICES ASSUME NEW k \in Key, idle_timers[k] # NoTimer
               PROVE  LET p == idle_timers[k] IN
                      /\ key[p] = k
                      /\ \/ thread'[p] \in {"waiting", "expired", "removed"}
                         \/ \E g \in Handler : timer'[g] = p /\ pc'[g] \in {"joinOld", "spawn"}
                         \/ collector.pc = "join" /\ collector.key = k
    BY <1>1 DEF LiveEntry
  <2>1. idle_timers[k] \in Timer /\ key[idle_timers[k]] = k /\ thread'[idle_timers[k]] = thread[idle_timers[k]]
    BY <1>1, <1>3, <1>a DEF IInv, MapOfKeys, TypeOK
  <2>2. ASSUME NEW g \in Handler, timer[g] = idle_timers[k], pc[g] \in {"joinOld", "spawn"}
        PROVE  timer'[g] = idle_timers[k] /\ pc'[g] \in {"joinOld", "spawn"}
    BY <1>1, <1>2, <1>3, <2>2
  <2> QED BY <2>1, <2>2 DEF IInv, LiveEntry
<1>9. OwnEntry'
  <2> SUFFICES ASSUME NEW p \in Timer, thread'[p] \in {"expired", "removed"}
               PROVE  idle_timers[key[p]] = p /\ ~\E g \in Handler : timer'[g] = p
    BY <1>1 DEF OwnEntry, Shared
  <2>1. thread[p] \in {"expired", "removed"} /\ p # NoTimer
    BY <1>3, Names DEF Stopped
  <2>2. idle_timers[key[p]] = p /\ \A g \in Handler : timer[g] # p
    BY <2>1 DEF IInv, OwnEntry, Shared
  <2> QED BY <1>2, <2>1, <2>2
<1> QED BY <1>4, <1>5, <1>6, <1>7, <1>8, <1>9 DEF IInv

-----------------------------------------------------------------------------
(* The timers' threads, the collector and the process *)

\* A thread that goes on, without touching the map or any object.
LEMMA ThreadKeeps ==
    ASSUME IInv, NEW o \in Timer, NEW t \in TimerThread \ {"detached"}, thread[o] # "none",
           thread' = [thread EXCEPT ![o] = t],
           UNCHANGED <<known, mutex, idle_timers, key, locals, collector, alive>>,
           container' \in [Key -> {"absent", "stopped", "running"}],
           t \in {"waiting", "stopping"} => thread[o] \in {"waiting", "stopping"},
           t \in {"expired", "removed"} =>
                /\ idle_timers[key[o]] = o /\ ~Shared(o)
                /\ \A h \in Handler : pc[h] = "insert" => idle_timers[at[h]] # o,
           t \in {"waiting", "expired", "removed"}
                \/ \A k \in Key : idle_timers[k] = o => collector.pc = "join" /\ collector.key = k
    PROVE  IInv'
<1>1. TypeOK /\ key[o] \in Key /\ thread'[o] = t /\ \A p \in Timer \ {o} : thread'[p] = thread[p]
  BY DEF IInv, TypeOK, Keyed
<1>2. TypeOK'
  BY <1>1 DEF TypeOK, locals
<1>3. Keyed' /\ MapOfKeys' /\ CollectorHolds' /\ Victims'
  BY <1>1 DEF IInv, locals, Keyed, MapOfKeys, CollectorHolds, Victims
<1>4. Held'
  BY <1>1 DEF IInv, locals, TypeOK, Held
<1>5. NotExpired'
  BY <1>1 DEF IInv, locals, TypeOK, NotExpired, Keyed
<1>6. Reachable' /\ Detached'
  BY <1>1 DEF IInv, locals, Reachable, Detached
<1>7. LiveEntry'
  BY <1>1 DEF IInv, locals, TypeOK, LiveEntry
<1>8. OwnEntry'
  BY <1>1 DEF IInv, locals, OwnEntry, Shared
<1> QED BY <1>2, <1>3, <1>4, <1>5, <1>6, <1>7, <1>8 DEF IInv

LEMMA EraseOwnKeeps == ASSUME IInv, NEW o \in Timer, EraseOwnEntry(o) PROVE IInv'
<1>1. /\ TypeOK /\ key[o] \in Key /\ idle_timers[key[o]] = o /\ thread[o] = "removed" /\ mutex = Nobody
      /\ \A h \in Handler : timer[h] # o /\ victim[h] # o
      /\ \A k \in Key \ {key[o]} : idle_timers[k] # o
      /\ collector.pc # "join"
      /\ UNCHANGED <<known, mutex, key, container, pc, at, timer, victim, collector, alive>>
  BY Names DEF EraseOwnEntry, Alone, locals, IInv, TypeOK, Keyed, OwnEntry, Shared, Victims, MapOfKeys,
       CollectorHolds
<1>2. /\ idle_timers'[key[o]] = NoTimer /\ \A k \in Key \ {key[o]} : idle_timers'[k] = idle_timers[k]
      /\ thread'[o] = "detached" /\ \A p \in Timer \ {o} : thread'[p] = thread[p]
      /\ idle_timers' \in [Key -> Timer \union {NoTimer}] /\ thread' \in [Timer -> TimerThread]
      /\ o # NoTimer
  BY <1>1, Names DEF EraseOwnEntry, TypeOK, TimerThread
<1>3. TypeOK'
  BY <1>1, <1>2 DEF TypeOK
<1>4. Keyed' /\ MapOfKeys' /\ NotExpired' /\ CollectorHolds'
  BY <1>1, <1>2 DEF IInv, TypeOK, Keyed, MapOfKeys, NotExpired, CollectorHolds
<1>5. Held' /\ Victims'
  BY <1>1, <1>2 DEF IInv, TypeOK, Held, Victims
<1>6. Reachable'
  <2> SUFFICES ASSUME NEW p \in Timer, thread'[p] \in {"waiting", "stopping"}
               PROVE  \/ idle_timers'[key[p]] = p
                      \/ \E g \in Handler : timer[g] = p \/ victim[g] = p
    BY <1>1 DEF Reachable
  <2>1. p # o /\ thread[p] \in {"waiting", "stopping"} /\ key[p] \in Key
    BY <1>2 DEF IInv, Keyed
  <2>2. idle_timers[key[p]] = p => idle_timers'[key[p]] = p
    BY <1>1, <1>2, <2>1
  <2> QED BY <2>1, <2>2 DEF IInv, Reachable
<1>a. Detached'
  BY <1>1, <1>2, Names DEF IInv, Detached
<1>7. LiveEntry' /\ OwnEntry'
  BY <1>1, <1>2 DEF IInv, TypeOK, Keyed, LiveEntry, OwnEntry, Shared
<1> QED BY <1>3, <1>4, <1>5, <1>6, <1>a, <1>7 DEF IInv

LEMMA LeaveKeeps ==
    ASSUME IInv, NEW o \in Timer, thread[o] = "detached",
           thread' = [thread EXCEPT ![o] = "none"], key' = [key EXCEPT ![o] = NoKey],
           Alone, UNCHANGED <<mutex, idle_timers, container>>
    PROVE  IInv'
<1>1. /\ TypeOK /\ \A k \in Key : idle_timers[k] # o
      /\ \A h \in Handler : timer[h] # o /\ victim[h] # o
      /\ UNCHANGED <<known, mutex, idle_timers, container, pc, at, timer, victim, collector, alive>>
  BY DEF IInv, Detached, Alone, locals
<1>2. /\ thread'[o] = "none" /\ \A p \in Timer \ {o} : thread'[p] = thread[p]
      /\ key'[o] = NoKey /\ \A p \in Timer \ {o} : key'[p] = key[p]
      /\ key' \in [Timer -> Key \union {NoKey}] /\ thread' \in [Timer -> TimerThread]
  BY <1>1 DEF TypeOK, TimerThread
<1>3. TypeOK'
  BY <1>1, <1>2 DEF TypeOK
<1>4. Keyed' /\ MapOfKeys' /\ NotExpired' /\ CollectorHolds'
  BY <1>1, <1>2 DEF IInv, TypeOK, Keyed, MapOfKeys, NotExpired, CollectorHolds
<1>5. Held' /\ Victims'
  BY <1>1, <1>2 DEF IInv, TypeOK, Held, Victims
<1>6. Reachable' /\ Detached'
  BY <1>1, <1>2 DEF IInv, TypeOK, Reachable, Detached
<1>7. LiveEntry' /\ OwnEntry'
  BY <1>1, <1>2 DEF IInv, TypeOK, LiveEntry, OwnEntry, Shared
<1> QED BY <1>3, <1>4, <1>5, <1>6, <1>7 DEF IInv

\* A gateway without objects, as it is at first and after it has died.
Empty ==
    /\ known = {}
    /\ idle_timers = [k \in Key |-> NoTimer]
    /\ mutex = Nobody
    /\ key = [o \in Timer |-> NoKey]
    /\ thread = [o \in Timer |-> "none"]
    /\ container \in [Key -> {"absent", "stopped", "running"}]
    /\ pc = [h \in Handler |-> "idle"]
    /\ at = [h \in Handler |-> NoKey]
    /\ timer = [h \in Handler |-> NoTimer]
    /\ victim = [h \in Handler |-> NoTimer]
    /\ collector = IdleCollector
    /\ alive \in BOOLEAN

LEMMA EmptyGateway == Empty => IInv
<1> SUFFICES ASSUME Empty PROVE IInv
  OBVIOUS
<1>1. TypeOK
  BY DEF Empty, TypeOK, IdleCollector, HandlerPC, OwningPC, TimerThread
<1>2. Keyed /\ MapOfKeys /\ NotExpired /\ CollectorHolds /\ Held /\ Victims /\ Reachable /\ Detached
  BY DEF Empty, Keyed, MapOfKeys, NotExpired, CollectorHolds, Held, Victims, Reachable, Detached, IdleCollector
<1>3. LiveEntry /\ OwnEntry
  BY DEF Empty, LiveEntry, OwnEntry
<1> QED BY <1>1, <1>2, <1>3 DEF IInv

LEMMA TimersKeep == ASSUME IInv, NEW o \in Timer, TimerStep(o) \/ ExpireTimer(o) PROVE IInv'
<1>0. TypeOK /\ (thread[o] # "none" => key[o] \in Key)
  BY DEF IInv, Keyed
<1>1. CASE StopTimerThread(o)
  <2>1. thread[o] = "stopping" /\ "ended" \in TimerThread
    BY <1>1 DEF StopTimerThread, TimerThread
  <2>2. ASSUME NEW k \in Key, idle_timers[k] = o PROVE collector.pc = "join" /\ collector.key = k
    BY <2>1, <2>2, Names DEF IInv, LiveEntry, Held
  <2> QED BY <1>0, <1>1, <2>1, <2>2, ThreadKeeps DEF StopTimerThread, Alone, TypeOK
<1>2. CASE ExpireTimer(o)
  <2>1. thread[o] \in {"waiting", "stopping"} /\ key[o] \in Key /\ "expired" \in TimerThread
    BY <1>0, <1>2 DEF ExpireTimer, TimerThread
  <2>2. \A h \in Handler : timer[h] # o /\ victim[h] # o
    BY <1>0, <1>2, Names DEF ExpireTimer, IInv, Held, Victims, TypeOK, OwningPC
  <2>3. idle_timers[key[o]] = o /\ ~Shared(o)
    BY <2>1, <2>2 DEF IInv, Reachable, Shared
  <2>4. ASSUME NEW h \in Handler, pc[h] = "insert" PROVE idle_timers[at[h]] # o
    <3>1. at[h] \in Key /\ at[h] # key[o]
      BY <1>2, <2>4 DEF ExpireTimer, IInv, Keyed
    <3> QED BY <3>1, Names DEF IInv, MapOfKeys
  <2> QED BY <1>0, <1>2, <2>1, <2>3, <2>4, ThreadKeeps DEF ExpireTimer, Alone, TypeOK
<1>3. CASE RemoveContainer(o)
  <2>1. thread[o] = "expired" /\ "removed" \in TimerThread /\ idle_timers[key[o]] = o /\ ~Shared(o)
    BY <1>3 DEF RemoveContainer, TimerThread, IInv, OwnEntry
  <2>2. \A h \in Handler : pc[h] = "insert" => idle_timers[at[h]] # o
    BY <2>1, Names DEF IInv, NotExpired
  <2>3. container' \in [Key -> {"absent", "stopped", "running"}]
    BY <1>0, <1>3 DEF RemoveContainer, TypeOK
  <2> QED BY <1>3, <2>1, <2>2, <2>3, ThreadKeeps DEF RemoveContainer, Alone
<1>4. CASE LeaveDestroyedTimer(o)
  <2>1. CASE Die
    <3>1. Empty'
      BY <1>0, <2>1 DEF Die, TypeOK, Empty, IdleCollector
    <3> QED BY <3>1, EmptyGateway, PTL
  <2> QED BY <1>4, <2>1, LeaveKeeps DEF LeaveDestroyedTimer
<1> QED BY <1>1, <1>2, <1>3, <1>4, EraseOwnKeeps DEF TimerStep

LEMMA StopEntryKeeps == ASSUME IInv, StopEntry PROVE IInv'
<1>0. /\ TypeOK /\ collector.pc = "next" /\ mutex = Collector
      /\ collector \in [pc : {"idle", "lock", "next", "join"}, key : Key \union {NoKey}, todo : SUBSET Key]
      /\ UNCHANGED <<known, mutex, idle_timers, key, container, pc, at, timer, victim, alive>>
  BY DEF StopEntry, IInv, TypeOK, CollectorHolds, locals
<1>1. PICK k \in collector.todo :
        LET o == idle_timers[k] IN
        IF o = NoTimer
        THEN collector' = [collector EXCEPT !.todo = @ \ {k}] /\ UNCHANGED thread
        ELSE /\ collector' = [collector EXCEPT !.pc = "join", !.key = k, !.todo = @ \ {k}]
             /\ thread' = [thread EXCEPT ![o] = Stopped(@)]
  BY DEF StopEntry
<1>2. k \in Key
  BY <1>0
<1>3. CASE idle_timers[k] = NoTimer
  <2>1. /\ collector'.pc = "next" /\ collector'.key = collector.key /\ UNCHANGED thread
        /\ collector' \in [pc : {"idle", "lock", "next", "join"}, key : Key \union {NoKey}, todo : SUBSET Key]
    BY <1>0, <1>1, <1>3
  <2>2. TypeOK'
    BY <1>0, <2>1 DEF TypeOK
  <2> QED BY <1>0, <2>1, <2>2, QuietStep DEF objects
<1>4. CASE idle_timers[k] # NoTimer
  <2> DEFINE o == idle_timers[k]
  <2>1. /\ collector'.pc = "join" /\ collector'.key = k /\ o \in Timer /\ key[o] = k
        /\ collector' \in [pc : {"idle", "lock", "next", "join"}, key : Key \union {NoKey}, todo : SUBSET Key]
        /\ \A j \in Key \ {k} : idle_timers[j] # o
        /\ \A h \in Handler : victim[h] # o
    <3>1. /\ o \in Timer /\ key[o] = k /\ collector' = [collector EXCEPT !.pc = "join", !.key = k, !.todo = @ \ {k}]
          /\ \A h \in Handler : victim[h] # o
      BY <1>0, <1>1, <1>2, <1>4 DEF IInv, TypeOK, MapOfKeys, Victims
    <3>2. \A j \in Key \ {k} : idle_timers[j] # o
      BY <1>2, <1>4, <3>1 DEF IInv, MapOfKeys
    <3> QED BY <1>0, <1>2, <3>1, <3>2
  <2>2. /\ thread'[o] = Stopped(thread[o]) /\ \A p \in Timer \ {o} : thread'[p] = thread[p]
        /\ thread' \in [Timer -> TimerThread]
    BY <1>0, <1>1, <1>4, <2>1 DEF TypeOK, Stopped, TimerThread
  <2>3. TypeOK'
    BY <1>0, <2>1, <2>2 DEF TypeOK
  <2>4. Keyed' /\ MapOfKeys' /\ NotExpired' /\ CollectorHolds'
    BY <1>0, <1>2, <1>4, <2>1, <2>2 DEF IInv, TypeOK, Keyed, MapOfKeys, NotExpired, CollectorHolds, Stopped
  <2>5. Held' /\ Victims'
    BY <1>0, <2>1, <2>2 DEF IInv, TypeOK, Held, Victims, Stopped
  <2>6. Reachable' /\ Detached'
    BY <1>0, <2>1, <2>2 DEF IInv, Reachable, Detached, Stopped
  <2>7. LiveEntry'
    BY <1>0, <1>2, <2>1, <2>2 DEF IInv, TypeOK, LiveEntry
  <2>8. OwnEntry'
    BY <1>0, <2>1, <2>2 DEF IInv, OwnEntry, Shared, Stopped
  <2> QED BY <2>3, <2>4, <2>5, <2>6, <2>7, <2>8 DEF IInv
<1> QED BY <1>3, <1>4

LEMMA EraseEntryKeeps == ASSUME IInv, EraseEntry PROVE IInv'
<1> DEFINE k == collector.key
           o == idle_timers[k]
<1>0. /\ TypeOK /\ collector.pc = "join" /\ mutex = Collector /\ k \in Key /\ o \in Timer /\ key[o] = k
      /\ thread[o] \in {"none", "ended"}
      /\ collector \in [pc : {"idle", "lock", "next", "join"}, key : Key \union {NoKey}, todo : SUBSET Key]
      /\ \A j \in Key \ {k} : idle_timers[j] # o
      /\ \A h \in Handler : victim[h] # o
      /\ UNCHANGED <<known, mutex, container, pc, at, timer, victim, alive>>
  BY DEF EraseEntry, IInv, TypeOK, CollectorHolds, MapOfKeys, Victims, locals
<1>1. /\ collector' = [collector EXCEPT !.pc = "next", !.key = NoKey]
      /\ idle_timers' = [idle_timers EXCEPT ![k] = NoTimer]
      /\ thread' = [thread EXCEPT ![o] = "none"]
      /\ key' = IF Shared(o) THEN key ELSE [key EXCEPT ![o] = NoKey]
  BY DEF EraseEntry
<1>2. /\ collector'.pc = "next"
      /\ collector' \in [pc : {"idle", "lock", "next", "join"}, key : Key \union {NoKey}, todo : SUBSET Key]
      /\ idle_timers'[k] = NoTimer /\ \A j \in Key \ {k} : idle_timers'[j] = idle_timers[j]
      /\ thread'[o] = "none" /\ \A p \in Timer \ {o} : thread'[p] = thread[p]
      /\ \A p \in Timer \ {o} : key'[p] = key[p]
      /\ Shared(o) => key'[o] = k
      /\ idle_timers' \in [Key -> Timer \union {NoTimer}] /\ thread' \in [Timer -> TimerThread]
      /\ key' \in [Timer -> Key \union {NoKey}]
  BY <1>0, <1>1 DEF TypeOK, TimerThread
<1>3. TypeOK'
  BY <1>0, <1>2 DEF TypeOK
<1>4. Keyed' /\ MapOfKeys' /\ NotExpired' /\ CollectorHolds'
  BY <1>0, <1>2 DEF IInv, TypeOK, Keyed, MapOfKeys, NotExpired, CollectorHolds
<1>5. Held' /\ Victims'
  BY <1>0, <1>2 DEF IInv, TypeOK, Held, Victims, Shared
<1>6. Reachable'
  <2> SUFFICES ASSUME NEW p \in Timer, thread'[p] \in {"waiting", "stopping"}
               PROVE  \/ idle_timers'[key'[p]] = p
                      \/ \E g \in Handler : timer[g] = p \/ victim[g] = p
    BY <1>0 DEF Reachable
  <2>1. p # o /\ thread[p] \in {"waiting", "stopping"} /\ key[p] \in Key /\ key'[p] = key[p]
    BY <1>2 DEF IInv, Keyed
  <2>2. idle_timers[key[p]] = p => idle_timers'[key[p]] = p
    BY <1>0, <1>2, <2>1
  <2> QED BY <2>1, <2>2 DEF IInv, Reachable
<1>7. Detached'
  BY <1>0, <1>2, Names DEF IInv, Detached
<1>8. LiveEntry' /\ OwnEntry'
  BY <1>0, <1>2 DEF IInv, TypeOK, Keyed, LiveEntry, OwnEntry, Shared
<1> QED BY <1>3, <1>4, <1>5, <1>6, <1>7, <1>8 DEF IInv

\* Steps that touch neither an object nor a handler.
LEMMA OthersKeep ==
    ASSUME IInv,
           \/ CollectorLock \/ CollectorUnlock \/ Restart
           \/ \E d \in Device : RegisNode(d) \/ Disconnect(d)
           \/ \E k \in Key : ExitContainer(k)
    PROVE  IInv'
<1>0. TypeOK
  BY DEF IInv
<1>1. CASE CollectorLock \/ CollectorUnlock
  <2>1. /\ UNCHANGED <<known, objects, container, pc, at, timer, victim, alive>>
        /\ collector'.pc # "join" /\ collector.pc # "join"
        /\ collector'.pc = "next" => mutex' = Collector
        /\ \A h \in Handler : pc[h] # "joinOld"
        /\ TypeOK'
    BY <1>0, <1>1, Names DEF CollectorLock, CollectorUnlock, IdleCollector, TypeOK, IInv, Victims,
         CollectorHolds, locals, objects
  <2>2. Keyed' /\ MapOfKeys' /\ NotExpired' /\ CollectorHolds' /\ Held' /\ Victims'
    BY <2>1 DEF IInv, objects, Keyed, MapOfKeys, NotExpired, CollectorHolds, Held, Victims
  <2>3. Reachable' /\ Detached' /\ LiveEntry' /\ OwnEntry'
    BY <2>1 DEF IInv, objects, Reachable, Detached, LiveEntry, OwnEntry, Shared
  <2> QED BY <2>1, <2>2, <2>3 DEF IInv
<1>2. CASE Restart \/ (\E d \in Device : RegisNode(d)) \/ (\E k \in Key : ExitContainer(k))
  <2>1. UNCHANGED <<mutex, objects, pc, at, timer, victim, collector>> /\ TypeOK'
    BY <1>0, <1>2 DEF Restart, RegisNode, ExitContainer, TypeOK, locals, objects
  <2> QED BY <2>1, QuietStep DEF IInv, CollectorHolds
<1>3. ASSUME NEW d \in Device, Disconnect(d) PROVE IInv'
  <2>1. /\ UNCHANGED <<mutex, objects, pc, at, timer, victim>> /\ TypeOK'
        /\ collector'.pc = "lock" /\ collector.pc = "idle"
    BY <1>0, <1>3 DEF Disconnect, TypeOK, IdleCollector, locals, objects, Key
  <2>2. Keyed' /\ MapOfKeys' /\ NotExpired' /\ CollectorHolds' /\ Held' /\ Victims'
    BY <2>1 DEF IInv, objects, Keyed, MapOfKeys, NotExpired, CollectorHolds, Held, Victims
  <2>3. Reachable' /\ Detached' /\ LiveEntry' /\ OwnEntry'
    BY <2>1 DEF IInv, objects, Reachable, Detached, LiveEntry, OwnEntry, Shared
  <2> QED BY <2>1, <2>2, <2>3 DEF IInv
<1> QED BY <1>1, <1>2, <1>3

-----------------------------------------------------------------------------
(* The theorems *)

LEMMA InitIInv == Init => IInv
BY EmptyGateway DEF Init, Empty

LEMMA NextIInv == ASSUME IInv, [Next]_vars PROVE IInv'
<1>1. CASE UNCHANGED vars
  BY <1>1 DEF vars, objects, locals, IInv, TypeOK, Keyed, MapOfKeys, Held, Victims, NotExpired, Reachable,
       Detached, CollectorHolds, LiveEntry, OwnEntry, Shared
<1>2. ASSUME NEW h \in Handler, HandlerStep(h) \/ \E k \in Key : StartSubAgent(h, k) PROVE IInv'
  BY <1>2, LocalKeeps, InsertKeeps, JoinKeeps, SpawnKeeps, ReleaseKeeps DEF HandlerStep
<1>3. CASE CollectorStep
  BY <1>3, OthersKeep, StopEntryKeeps, EraseEntryKeeps DEF CollectorStep
<1> QED BY <1>1, <1>2, <1>3, TimersKeep, OthersKeep DEF Next

\* The invariant is inductive, for any number of handlers, agents, devices and timers.
THEOREM Invariant == Spec => []IInv
BY InitIInv, NextIInv, PTL DEF Spec

\* Every variable keeps its type.
THEOREM TypeCorrect == Spec => []TypeOK
<1>1. IInv => TypeOK BY DEF IInv
<1> QED BY <1>1, Invariant, PTL

\* A timer in the map will remove its container, or is being stopped: a start that only
\* refreshes it may rely on that, however many starts and removals overlap.
THEOREM EntriesLive == Spec => []LiveEntry
<1>1. IInv => LiveEntry BY DEF IInv
<1> QED BY <1>1, Invariant, PTL

\* A callback erases its own timer's entry, and destroys an object nobody else uses.
THEOREM EntriesOwned == Spec => []OwnEntry
<1>1. IInv => OwnEntry BY DEF IInv
<1> QED BY <1>1, Invariant, PTL

-----------------------------------------------------------------------------
(* What a start waits for *)

\* Of a timer somebody joins: run() leaves its wait, or has left, and does not call back.
Returning == {"none", "stopping", "ended"}

\* No handler joins a thread that still has to take the mutex, and whoever has the mutex is
\* at the one join under it, or is the collector.
JoinersWait ==
    /\ \A h \in Handler : pc[h] \in {"joinOld", "joinOwn"} => thread[victim[h]] \in Returning
    /\ \A h \in Handler : mutex = h => pc[h] = "joinOld"
    /\ mutex = Collector => collector.pc \in {"next", "join"}

StartRank(h) ==
    [idle |-> 0, joinOwn |-> 1, release |-> 2, spawn |-> 3, joinOld |-> 4, insert |-> 5,
     arm |-> 6, waitPort |-> 7, startNamed |-> 8, startNew |-> 9, create |-> 10,
     probe |-> 11, lookup |-> 12][pc[h]]

CallbackRank(o) ==
    [none |-> 0, ended |-> 1, detached |-> 1, removed |-> 2, expired |-> 3,
     stopping |-> 4, waiting |-> 5][thread[o]]

\* Each step of a start brings it nearer to its return, each step of a timer's thread brings
\* that nearer to its end, and nobody sets either back.
Nearer ==
    /\ \A h \in Handler : pc[h] # "idle" => StartRank(h)' <= StartRank(h)
    /\ \A h \in Handler : HandlerStep(h) => StartRank(h)' < StartRank(h)
    /\ \A o \in Timer : thread[o] # "none" => CallbackRank(o)' <= CallbackRank(o)
    /\ \A o \in Timer : TimerStep(o) => CallbackRank(o)' < CallbackRank(o)

\* RemoveDevice joins a thread that is inside its callback.
RemovalBlocked ==
    collector.pc = "join" /\ thread[idle_timers[collector.key]] \in {"expired", "removed"}

LEMMA HandlerJoiners ==
    ASSUME IInv, JoinersWait, NEW h \in Handler, HandlerStep(h) \/ \E k \in Key : StartSubAgent(h, k)
    PROVE  JoinersWait'
<1>0. /\ TypeOK /\ victim \in [Handler -> Timer \union {NoTimer}] /\ thread \in [Timer -> TimerThread]
      /\ \A g \in Handler : pc[g] \in {"joinOld", "joinOwn"} => victim[g] \in Timer
  BY DEF IInv, TypeOK, Victims
<1>1. CASE \/ \E k \in Key : StartSubAgent(h, k)
           \/ LookUpDevice(h) \/ ProbeAgent(h) \/ CreateContainer(h) \/ StartNew(h)
           \/ StartNamed(h) \/ AwaitPort(h) \/ ArmOrRefresh(h)
  <2>1. /\ UNCHANGED <<mutex, thread, victim, collector>>
        /\ pc[h] \notin {"joinOld", "joinOwn"} /\ pc'[h] \notin {"joinOld", "joinOwn"}
        /\ \A g \in Handler \ {h} : pc'[g] = pc[g]
    BY <1>0, <1>1 DEF TypeOK, StartSubAgent, LookUpDevice, ProbeAgent, CreateContainer, StartNew,
       StartNamed, AwaitPort, ArmOrRefresh, Local, objects, Goto, Return
  <2> QED BY <2>1 DEF JoinersWait
<1>2. CASE InsertTimer(h)
  <2> DEFINE old == idle_timers[at[h]]
  <2>0. /\ pc[h] = "insert" /\ mutex = Nobody /\ UNCHANGED collector /\ at[h] \in Key
        /\ \A g \in Handler \ {h} : pc'[g] = pc[g]
        /\ \A g \in Handler : pc[g] # "joinOld"
    BY <1>0, <1>2, Names DEF InsertTimer, TypeOK, Goto, IInv, Keyed, Victims
  <2>1. CASE old = NoTimer \/ Shared(old)
    <3>1. UNCHANGED <<mutex, thread, victim>> /\ pc'[h] = "spawn"
      BY <1>0, <1>2, <2>1 DEF InsertTimer, Goto, TypeOK
    <3> QED BY <2>0, <3>1, Names DEF JoinersWait
  <2>2. CASE ~(old = NoTimer \/ Shared(old))
    <3>1. /\ old \in Timer /\ thread[old] \notin {"expired", "removed", "detached"}
          /\ \A g \in Handler : victim[g] # old
      BY <1>0, <2>0, <2>2 DEF TypeOK, IInv, NotExpired, Detached, Victims
    <3>2. /\ mutex' = h /\ thread' = [thread EXCEPT ![old] = Stopped(@)]
          /\ victim' = [victim EXCEPT ![h] = old] /\ pc'[h] = "joinOld"
      BY <1>0, <1>2, <2>2 DEF InsertTimer, Goto, TypeOK
    <3>3. thread'[old] \in Returning /\ \A o \in Timer \ {old} : thread'[o] = thread[o]
      BY <1>0, <3>1, <3>2 DEF Stopped, Returning, TimerThread
    <3>4. victim'[h] = old /\ \A g \in Handler \ {h} : victim'[g] = victim[g]
      BY <1>0, <3>2
    <3> QED BY <1>0, <2>0, <3>1, <3>2, <3>3, <3>4, Names DEF JoinersWait
  <2> QED BY <2>1, <2>2
<1>3. CASE JoinOld(h) \/ JoinOwn(h)
  <2>1. /\ UNCHANGED collector /\ pc[h] \in {"joinOld", "joinOwn"} /\ Destroyed(h)
        /\ pc'[h] \notin {"joinOld", "joinOwn"} /\ \A g \in Handler \ {h} : pc'[g] = pc[g]
        /\ mutex' # h /\ (mutex' = mutex \/ mutex' = Nobody)
    BY <1>0, <1>3, Names DEF JoinOld, JoinOwn, Goto, Return, TypeOK, JoinersWait
  <2> QED BY <1>0, <2>1, DestroyedFacts, Names DEF JoinersWait, Returning
<1>4. CASE SpawnTimer(h)
  <2>1. /\ UNCHANGED <<mutex, victim, collector>> /\ pc[h] = "spawn" /\ pc'[h] = "release"
        /\ \A g \in Handler \ {h} : pc'[g] = pc[g]
        /\ \A o \in Timer : o # timer[h] => thread'[o] = thread[o]
    BY <1>0, <1>4 DEF SpawnTimer, Goto, TypeOK
  <2>2. \A g \in Handler : victim[g] # NoTimer => victim[g] # timer[h]
    BY DEF IInv, Victims
  <2> QED BY <1>0, <2>1, <2>2, Names DEF JoinersWait
<1>5. CASE ReleaseTimer(h)
  <2> DEFINE o == timer[h]
  <2>0. /\ UNCHANGED <<mutex, collector>> /\ pc[h] = "release" /\ o \in Timer
        /\ \A g \in Handler \ {h} : pc'[g] = pc[g]
        /\ pc'[h] \in {"idle", "joinOwn"} /\ mutex # h
    BY <1>0, <1>5, Names DEF ReleaseTimer, Goto, Return, TypeOK, OwningPC, JoinersWait
  <2>1. CASE idle_timers[at[h]] = o
    <3>1. UNCHANGED <<thread, victim>> /\ pc'[h] = "idle"
      BY <1>0, <1>5, <2>1 DEF ReleaseTimer, Return, Goto, TypeOK
    <3> QED BY <2>0, <3>1 DEF JoinersWait
  <2>2. CASE idle_timers[at[h]] # o
    <3>1. /\ thread[o] \notin {"expired", "removed", "detached"}
          /\ \A g \in Handler : victim[g] # NoTimer => victim[g] # o
      BY <2>0 DEF IInv, OwnEntry, Shared, Detached, Victims
    <3>2. /\ thread' = [thread EXCEPT ![o] = Stopped(@)]
          /\ victim' = [victim EXCEPT ![h] = o]
      BY <1>5, <2>2 DEF ReleaseTimer
    <3>3. thread'[o] \in Returning /\ \A p \in Timer \ {o} : thread'[p] = thread[p]
      BY <1>0, <2>0, <3>1, <3>2 DEF Stopped, Returning, TimerThread
    <3>4. victim'[h] = o /\ \A g \in Handler \ {h} : victim'[g] = victim[g]
      BY <1>0, <3>2
    <3> QED BY <1>0, <2>0, <3>1, <3>3, <3>4, Names DEF JoinersWait
  <2> QED BY <2>1, <2>2
<1> QED BY <1>1, <1>2, <1>3, <1>4, <1>5 DEF HandlerStep

LEMMA OtherJoiners ==
    ASSUME IInv, JoinersWait,
           \/ \E o \in Timer : TimerStep(o) \/ ExpireTimer(o)
           \/ CollectorStep
           \/ \E d \in Device : RegisNode(d) \/ Disconnect(d)
           \/ \E k \in Key : ExitContainer(k)
           \/ Restart
           \/ UNCHANGED vars
    PROVE  JoinersWait'
<1>0. /\ TypeOK /\ thread \in [Timer -> TimerThread]
      /\ \A g \in Handler : pc[g] \in {"joinOld", "joinOwn"} => victim[g] \in Timer
  BY DEF IInv, TypeOK, Victims
<1>1. CASE Die
  BY <1>1, Names DEF Die, JoinersWait, IdleCollector
<1>2. ASSUME NEW o \in Timer, TimerStep(o) \/ ExpireTimer(o), ~Die
      PROVE  JoinersWait'
  <2>1. /\ UNCHANGED <<mutex, pc, victim, collector>>
        /\ \A p \in Timer \ {o} : thread'[p] = thread[p]
        /\ thread[o] \in Returning => thread'[o] \in Returning \/ ExpireTimer(o)
    BY <1>0, <1>2 DEF TimerStep, StopTimerThread, RemoveContainer, EraseOwnEntry, LeaveDestroyedTimer,
       ExpireTimer, Alone, locals, Returning
  <2>2. ASSUME NEW g \in Handler, pc[g] \in {"joinOld", "joinOwn"}, victim[g] = o
        PROVE  ~ExpireTimer(o)
    <3>1. at[g] = key[o]
      BY <1>0, <2>2, Names DEF IInv, Victims
    <3> QED BY <2>2, <3>1 DEF ExpireTimer
  <2> QED BY <1>0, <2>1, <2>2 DEF JoinersWait
<1>3. CASE CollectorStep
  <2>1. /\ UNCHANGED <<pc, victim>>
        /\ \A p \in Timer : thread[p] \in Returning => thread'[p] \in Returning
    BY <1>0, <1>3 DEF CollectorStep, CollectorLock, StopEntry, EraseEntry, CollectorUnlock, locals, objects,
       TypeOK, Stopped, Returning
  <2>2. /\ \A h \in Handler : mutex' = h => mutex = h
        /\ mutex' = Collector => collector'.pc \in {"next", "join"}
    <3>0. /\ collector \in [pc : {"idle", "lock", "next", "join"}, key : Key \union {NoKey},
                            todo : SUBSET Key]
          /\ mutex = Collector => collector.pc \in {"next", "join"}
      BY <1>0 DEF TypeOK, JoinersWait
    <3>1. CASE CollectorLock
      BY <3>0, <3>1, Names DEF CollectorLock
    <3>2. CASE StopEntry
      BY <3>0, <3>2 DEF StopEntry
    <3>3. CASE EraseEntry
      BY <3>0, <3>3 DEF EraseEntry
    <3>4. CASE CollectorUnlock
      BY <3>4, Names DEF CollectorUnlock
    <3> QED BY <1>3, <3>1, <3>2, <3>3, <3>4 DEF CollectorStep
  <2> QED BY <1>0, <2>1, <2>2 DEF JoinersWait
<1>4. CASE \/ \E d \in Device : RegisNode(d)
           \/ \E k \in Key : ExitContainer(k)
           \/ Restart
           \/ UNCHANGED vars
  BY <1>4 DEF RegisNode, ExitContainer, Restart, vars, locals, objects, JoinersWait
<1>5. ASSUME NEW d \in Device, Disconnect(d)
      PROVE  JoinersWait'
  BY <1>5 DEF Disconnect, locals, objects, JoinersWait
<1> QED BY <1>1, <1>2, <1>3, <1>4, <1>5

\* A start of a sub-agent never waits for good where it waits for a thread: what it joins has
\* been told to stop and does not call back, and it holds g_sub_agent_idle_timer_mutex over
\* nothing else (ArmOrRefreshSubAgentIdleTimer).
THEOREM JoinsAreAwaited == Spec => []JoinersWait
<1>1. Init => JoinersWait
  BY Names DEF Init, JoinersWait
<1>2. IInv /\ JoinersWait /\ [Next]_vars => JoinersWait'
  BY HandlerJoiners, OtherJoiners DEF Next
<1> QED BY <1>1, <1>2, Invariant, PTL DEF Spec

LEMMA Ranks ==
    ASSUME TypeOK
    PROVE  /\ \A h \in Handler : StartRank(h) \in Nat
           /\ \A o \in Timer : CallbackRank(o) \in Nat
<1>1. thread \in [Timer -> TimerThread] /\ pc \in [Handler -> HandlerPC]
  BY DEF TypeOK
<1>2. ASSUME NEW h \in Handler PROVE StartRank(h) \in Nat
  <2>1. pc[h] \in HandlerPC
    BY <1>1
  <2> QED BY <2>1 DEF StartRank, HandlerPC
<1>3. ASSUME NEW o \in Timer PROVE CallbackRank(o) \in Nat
  <2>1. thread[o] \in TimerThread
    BY <1>1
  <2> QED BY <2>1 DEF CallbackRank, TimerThread
<1> QED BY <1>2, <1>3

LEMMA HandlerNearer ==
    ASSUME IInv, NEW h \in Handler, HandlerStep(h)
    PROVE  /\ StartRank(h)' < StartRank(h)
           /\ \A g \in Handler \ {h} : pc'[g] = pc[g]
           /\ \A o \in Timer : thread[o] # "none" => CallbackRank(o)' <= CallbackRank(o)
<1>0. TypeOK /\ thread \in [Timer -> TimerThread] /\ pc \in [Handler -> HandlerPC]
  BY DEF IInv, TypeOK
<1>1. CASE \/ LookUpDevice(h) \/ ProbeAgent(h) \/ CreateContainer(h) \/ StartNew(h)
           \/ StartNamed(h) \/ AwaitPort(h) \/ ArmOrRefresh(h)
  <2>1. UNCHANGED thread
    BY <1>1 DEF LookUpDevice, ProbeAgent, CreateContainer, StartNew, StartNamed, AwaitPort,
       ArmOrRefresh, Local, objects
  <2>2. StartRank(h)' < StartRank(h) /\ \A g \in Handler \ {h} : pc'[g] = pc[g]
    BY <1>0, <1>1 DEF LookUpDevice, ProbeAgent, CreateContainer, StartNew, StartNamed, AwaitPort,
       ArmOrRefresh, Goto, Return, StartRank
  <2> QED BY <1>0, <2>1, <2>2, Ranks DEF CallbackRank
<1>2. CASE InsertTimer(h) \/ JoinOld(h) \/ SpawnTimer(h) \/ ReleaseTimer(h) \/ JoinOwn(h)
  <2>1. StartRank(h)' < StartRank(h) /\ \A g \in Handler \ {h} : pc'[g] = pc[g]
    BY <1>0, <1>2 DEF InsertTimer, JoinOld, SpawnTimer, ReleaseTimer, JoinOwn, Goto, Return, StartRank
  <2>2. ASSUME NEW o \in Timer, thread[o] # "none"
        PROVE  \/ thread'[o] = thread[o] \/ thread'[o] = "none"
               \/ thread[o] = "waiting" /\ thread'[o] = "stopping"
    <3>1. CASE InsertTimer(h)
      BY <1>0, <2>2, <3>1 DEF InsertTimer, Stopped
    <3>2. CASE JoinOld(h) \/ JoinOwn(h)
      BY <1>0, <2>2, <3>2 DEF JoinOld, JoinOwn, Destroyed
    <3>3. CASE SpawnTimer(h)
      <4>1. thread[timer[h]] = "none" \/ timer[h] = NoTimer
        BY <3>3 DEF SpawnTimer, IInv, Held
      <4> QED BY <1>0, <2>2, <3>3, <4>1, Names DEF SpawnTimer
    <3>4. CASE ReleaseTimer(h)
      BY <1>0, <2>2, <3>4 DEF ReleaseTimer, Stopped
    <3> QED BY <1>2, <3>1, <3>2, <3>3, <3>4
  <2>3. ASSUME NEW o \in Timer, thread[o] # "none" PROVE CallbackRank(o)' <= CallbackRank(o)
    BY <1>0, <2>2, <2>3, Ranks DEF CallbackRank
  <2> QED BY <2>1, <2>3
<1> QED BY <1>1, <1>2 DEF HandlerStep

LEMMA ThreadNearer ==
    ASSUME IInv, NEW o \in Timer, TimerStep(o) \/ ExpireTimer(o)
    PROVE  /\ CallbackRank(o)' < CallbackRank(o)
           /\ Die \/ (UNCHANGED pc /\ \A p \in Timer \ {o} : thread'[p] = thread[p])
<1>0. thread \in [Timer -> TimerThread]
  BY DEF IInv, TypeOK
<1>1. CASE Die
  <2>1. thread[o] \in {"stopping", "waiting", "expired", "removed", "detached"}
    BY DEF TimerStep, StopTimerThread, RemoveContainer, EraseOwnEntry, LeaveDestroyedTimer, ExpireTimer
  <2> QED BY <1>1, <2>1 DEF Die, CallbackRank
<1>2. CASE ~Die
  <2>1. /\ UNCHANGED pc
        /\ \/ thread[o] = "stopping" /\ thread' = [thread EXCEPT ![o] = "ended"]
           \/ thread[o] \in {"waiting", "stopping"} /\ thread' = [thread EXCEPT ![o] = "expired"]
           \/ thread[o] = "expired" /\ thread' = [thread EXCEPT ![o] = "removed"]
           \/ thread[o] = "removed" /\ thread' = [thread EXCEPT ![o] = "detached"]
           \/ thread[o] = "detached" /\ thread' = [thread EXCEPT ![o] = "none"]
    BY <1>2 DEF TimerStep, StopTimerThread, RemoveContainer, EraseOwnEntry, LeaveDestroyedTimer,
       ExpireTimer, Alone, locals
  <2> QED BY <1>0, <2>1 DEF CallbackRank
<1> QED BY <1>1, <1>2

LEMMA NoneFurther ==
    ASSUME IInv, Next
    PROVE  /\ \A h \in Handler : pc[h] # "idle" => StartRank(h)' <= StartRank(h)
           /\ \A o \in Timer : thread[o] # "none" => CallbackRank(o)' <= CallbackRank(o)
<1>0. TypeOK /\ TypeOK' /\ thread \in [Timer -> TimerThread] /\ pc \in [Handler -> HandlerPC]
  BY NextIInv DEF IInv, TypeOK
<1>a. /\ \A h \in Handler : StartRank(h) \in Nat /\ StartRank(h)' \in Nat
      /\ \A o \in Timer : CallbackRank(o) \in Nat /\ CallbackRank(o)' \in Nat
  <2>1. ASSUME NEW h \in Handler PROVE StartRank(h)' \in Nat
    <3>1. pc'[h] \in HandlerPC
      BY <1>0 DEF TypeOK
    <3> QED BY <3>1 DEF StartRank, HandlerPC
  <2>2. ASSUME NEW o \in Timer PROVE CallbackRank(o)' \in Nat
    <3>1. thread'[o] \in TimerThread
      BY <1>0 DEF TypeOK
    <3> QED BY <3>1 DEF CallbackRank, TimerThread
  <2> QED BY <1>0, <2>1, <2>2, Ranks
<1>b. /\ \A h \in Handler : pc'[h] = pc[h] => StartRank(h)' = StartRank(h)
      /\ \A o \in Timer : thread'[o] = thread[o] => CallbackRank(o)' = CallbackRank(o)
  BY DEF StartRank, CallbackRank
<1>1. CASE Die
  <2>1. \A h \in Handler : StartRank(h)' = 0
    BY <1>1 DEF Die, StartRank
  <2>2. \A o \in Timer : CallbackRank(o)' = 0
    BY <1>1 DEF Die, CallbackRank
  <2> QED BY <1>a, <2>1, <2>2
<1>2. ASSUME NEW h \in Handler, HandlerStep(h)
      PROVE  /\ \A g \in Handler : StartRank(g)' <= StartRank(g)
             /\ \A o \in Timer : thread[o] # "none" => CallbackRank(o)' <= CallbackRank(o)
  BY <1>2, <1>a, <1>b, HandlerNearer
<1>3. ASSUME NEW h \in Handler, NEW k \in Key, StartSubAgent(h, k)
      PROVE  /\ \A g \in Handler : pc[g] # "idle" => StartRank(g)' <= StartRank(g)
             /\ \A o \in Timer : CallbackRank(o)' <= CallbackRank(o)
  <2>1. UNCHANGED thread /\ pc[h] = "idle" /\ \A g \in Handler \ {h} : pc'[g] = pc[g]
    BY <1>0, <1>3 DEF StartSubAgent, Local, objects, Goto
  <2> QED BY <1>a, <1>b, <2>1
<1>4. ASSUME NEW o \in Timer, TimerStep(o) \/ ExpireTimer(o), ~Die
      PROVE  /\ \A g \in Handler : StartRank(g)' <= StartRank(g)
             /\ \A p \in Timer : CallbackRank(p)' <= CallbackRank(p)
  BY <1>4, <1>a, <1>b, ThreadNearer
<1>5. CASE CollectorStep
  <2>1. UNCHANGED pc
    BY <1>5 DEF CollectorStep, CollectorLock, StopEntry, EraseEntry, CollectorUnlock, locals
  <2>2. ASSUME NEW o \in Timer
        PROVE  \/ thread'[o] = thread[o]
               \/ thread[o] = "waiting" /\ thread'[o] = "stopping"
               \/ thread[o] = "ended" /\ thread'[o] = "none"
    BY <1>0, <1>5 DEF CollectorStep, CollectorLock, StopEntry, EraseEntry, CollectorUnlock, objects, Stopped
  <2>3. ASSUME NEW o \in Timer PROVE CallbackRank(o)' <= CallbackRank(o)
    BY <1>a, <1>b, <2>2 DEF CallbackRank
  <2> QED BY <1>a, <1>b, <2>1, <2>3
<1>6. CASE \/ \E d \in Device : RegisNode(d) \/ Disconnect(d)
           \/ \E k \in Key : ExitContainer(k)
           \/ Restart
  <2>1. UNCHANGED <<pc, thread>>
    BY <1>6 DEF RegisNode, Disconnect, ExitContainer, Restart, locals, objects
  <2> QED BY <1>a, <1>b, <2>1
<1> QED BY <1>1, <1>2, <1>3, <1>4, <1>5, <1>6 DEF Next

\* Starts and callbacks make headway with every step they take, and nobody sets them back:
\* with JoinsAreAwaited what StartsEnd and CallbackEnds need besides fairness.
THEOREM StartsRunDown == Spec => [][Nearer]_vars
<1>1. ASSUME IInv, Next PROVE Nearer
  BY <1>1, NoneFurther, HandlerNearer, ThreadNearer DEF Nearer
<1> QED BY <1>1, Invariant, PTL DEF Spec

-----------------------------------------------------------------------------
\* Once RemoveDevice joins a timer that is inside its callback, nothing but the end of the
\* process gets it out: the callback waits for the mutex the collector holds, and the join
\* holds devs_mutex, which every later start of a sub-agent waits for (scheduler.cpp:208).
THEOREM BlockedForGood ==
    Spec => [][RemovalBlocked => RemovalBlocked' \/ ~alive']_vars
<1>1. ASSUME IInv, RemovalBlocked, Next PROVE RemovalBlocked' \/ ~alive'
  <2> DEFINE k == collector.key
             o == idle_timers[k]
  <2>0. /\ TypeOK /\ thread \in [Timer -> TimerThread]
        /\ mutex = Collector /\ k \in Key /\ o \in Timer /\ thread[o] \in {"expired", "removed"}
        /\ collector.pc = "join"
        /\ \A h \in Handler : timer[h] # o /\ victim[h] # o /\ pc[h] # "joinOld"
    BY <1>1, Names DEF RemovalBlocked, IInv, TypeOK, CollectorHolds, OwnEntry, Shared, MapOfKeys, Victims
  <2> SUFFICES ASSUME ~Die
               PROVE  UNCHANGED <<collector, idle_timers>> /\ thread'[o] \in {"expired", "removed"}
    BY <2>0 DEF RemovalBlocked, Die
  <2>1. ASSUME NEW h \in Handler, HandlerStep(h) \/ \E j \in Key : StartSubAgent(h, j)
        PROVE  UNCHANGED <<collector, idle_timers>> /\ thread'[o] = thread[o]
    BY <2>0, <2>1, Names DEF HandlerStep, StartSubAgent, LookUpDevice, ProbeAgent, CreateContainer,
       StartNew, StartNamed, AwaitPort, ArmOrRefresh, Local, objects, InsertTimer, JoinOld, JoinOwn,
       Destroyed, SpawnTimer, ReleaseTimer, Stopped
  <2>2. ASSUME NEW p \in Timer, TimerStep(p) \/ ExpireTimer(p)
        PROVE  UNCHANGED <<collector, idle_timers>> /\ thread'[o] \in {"expired", "removed"}
    BY <2>0, <2>2, Names DEF TimerStep, StopTimerThread, RemoveContainer, EraseOwnEntry,
       LeaveDestroyedTimer, ExpireTimer, Alone
  <2>3. ~CollectorStep /\ \A d \in Device : ~Disconnect(d)
    BY <2>0 DEF CollectorStep, CollectorLock, StopEntry, EraseEntry, CollectorUnlock, Disconnect
  <2>4. CASE (\E d \in Device : RegisNode(d)) \/ (\E j \in Key : ExitContainer(j)) \/ Restart
    BY <2>0, <2>4 DEF RegisNode, ExitContainer, Restart, objects
  <2> QED BY <1>1, <2>0, <2>1, <2>2, <2>3, <2>4 DEF Next
<1> QED BY <1>1, Invariant, PTL DEF Spec

=============================================================================
