-------------------------- MODULE StatePollerProofs --------------------------
(* Theorems about StatePoller, for every set of devices, requests and        *)
(* subscribers, every clock and all interval constants.                      *)
EXTENDS StatePoller, TLAPS, FiniteSetTheorems

-----------------------------------------------------------------------------
(* Maps *)

\* A map is a member of MapsOf exactly when IsMap says so.
LEMMA MapsOfIsMap ==
  ASSUME NEW m, NEW K, NEW V
  PROVE  m \in MapsOf(K, V) <=> IsMap(m, K, V)
BY DEF MapsOf, IsMap

\* new Map() is a map of any type.
LEMMA EmptyIsMap ==
  ASSUME NEW K, NEW V
  PROVE  IsMap(EmptyMap, K, V) /\ DOMAIN EmptyMap = {}
BY DEF EmptyMap, IsMap

\* Map.set keeps the type, adds the key and changes no other entry.
LEMMA PutIsMap ==
  ASSUME NEW m, NEW K, NEW V, IsMap(m, K, V), NEW k \in K, NEW v \in V
  PROVE  /\ IsMap(Put(m, k, v), K, V)
         /\ DOMAIN Put(m, k, v) = DOMAIN m \cup {k}
         /\ Put(m, k, v)[k] = v
         /\ \A x \in DOMAIN m : x # k => Put(m, k, v)[x] = m[x]
BY DEF Put, IsMap

\* The same for several keys at once.
LEMMA PutAllIsMap ==
  ASSUME NEW m, NEW K, NEW V, IsMap(m, K, V), NEW S \in SUBSET K, NEW v \in V
  PROVE  /\ IsMap(PutAll(m, S, v), K, V)
         /\ DOMAIN PutAll(m, S, v) = DOMAIN m \cup S
         /\ \A x \in S : PutAll(m, S, v)[x] = v
         /\ \A x \in DOMAIN m : x \notin S => PutAll(m, S, v)[x] = m[x]
BY DEF PutAll, IsMap

\* Map.delete keeps the type, removes the key and changes no other entry.
LEMMA DropIsMap ==
  ASSUME NEW m, NEW K, NEW V, IsMap(m, K, V), NEW k
  PROVE  /\ IsMap(Drop(m, k), K, V)
         /\ DOMAIN Drop(m, k) = DOMAIN m \ {k}
         /\ \A x \in DOMAIN m \ {k} : Drop(m, k)[x] = m[x]
BY DEF Drop, IsMap

\* Assigning to an entry that exists.
LEMMA ExceptIsMap ==
  ASSUME NEW m, NEW K, NEW V, IsMap(m, K, V), NEW k \in DOMAIN m, NEW v \in V
  PROVE  /\ IsMap([m EXCEPT ![k] = v], K, V)
         /\ DOMAIN [m EXCEPT ![k] = v] = DOMAIN m
         /\ [m EXCEPT ![k] = v][k] = v
         /\ \A x \in DOMAIN m : x # k => [m EXCEPT ![k] = v][x] = m[x]
BY DEF IsMap

-----------------------------------------------------------------------------
(* The operators of the poller *)

USE DEF Reasons

\* A backoff is a time.
LEMMA BackoffType ==
  ASSUME NEW n \in Nat PROVE FailureBackoffMs(n) \in Nat
BY TimesAssumption DEF FailureBackoffMs

\* So is every interval the scheduler may choose.
LEMMA IntervalType ==
  ASSUME NEW meta \in PollMeta, NEW now \in Nat, NEW d \in NextIntervalMs(meta, now)
  PROVE  d \in Nat
<1>1. \A base \in Nat, p \in {10, 15} : WithJitterMs(base, p) \subseteq Nat
  BY TimesAssumption DEF WithJitterMs
<1>2. meta.failureCount \in Nat BY DEF PollMeta
<1>. QED BY <1>1, <1>2, BackoffType, TimesAssumption DEF NextIntervalMs

\* A fresh PollMeta has its type.
LEMMA CreateMetaType ==
  ASSUME TypeOK PROVE CreateMeta \in PollMeta
BY DEF TypeOK, CreateMeta, PollMeta

\* ensureMeta adds what is missing and keeps the rest.
LEMMA EnsureMetaType ==
  ASSUME TypeOK, NEW metas, IsMap(metas, Uuids, PollMeta), NEW S \in SUBSET Uuids
  PROVE  /\ IsMap(EnsureMeta(metas, S), Uuids, PollMeta)
         /\ DOMAIN EnsureMeta(metas, S) = DOMAIN metas \cup S
         /\ \A u \in DOMAIN metas : EnsureMeta(metas, S)[u] = metas[u]
         /\ \A u \in S \ DOMAIN metas : EnsureMeta(metas, S)[u] = CreateMeta
<1>1. S \ DOMAIN metas \in SUBSET Uuids
  OBVIOUS
<1>2. CreateMeta \in PollMeta BY CreateMetaType
<1>3. IsMap(PutAll(metas, S \ DOMAIN metas, CreateMeta), Uuids, PollMeta)
  BY <1>1, <1>2, PutAllIsMap
<1>4. DOMAIN PutAll(metas, S \ DOMAIN metas, CreateMeta)
        = DOMAIN metas \cup (S \ DOMAIN metas)
  BY DEF PutAll
<1>5. \A u \in DOMAIN metas : PutAll(metas, S \ DOMAIN metas, CreateMeta)[u] = metas[u]
  BY DEF PutAll
<1>6. \A u \in S \ DOMAIN metas : PutAll(metas, S \ DOMAIN metas, CreateMeta)[u] = CreateMeta
  BY DEF PutAll
<1>. QED BY <1>3, <1>4, <1>5, <1>6 DEF EnsureMeta

\* The end of a boost is a time.
LEMMA BoostTime ==
  ASSUME TypeOK PROVE clock + BOOST_WINDOW_MS \in Nat /\ clock \in Nat
<1>1. clock \in Nat BY DEF TypeOK
<1>2. BOOST_WINDOW_MS \in Nat BY TimesAssumption
<1>. QED BY <1>1, <1>2

\* boostDevice creates missing entries and touches only the due time and boost.
LEMMA BoostType ==
  ASSUME TypeOK, NEW metas, IsMap(metas, Uuids, PollMeta), NEW S \in SUBSET Uuids
  PROVE  /\ IsMap(BoostDevices(metas, S), Uuids, PollMeta)
         /\ DOMAIN BoostDevices(metas, S) = DOMAIN metas \cup S
         /\ \A u \in DOMAIN metas :
              BoostDevices(metas, S)[u].failureCount = metas[u].failureCount
         /\ \A u \in S \ DOMAIN metas : BoostDevices(metas, S)[u].failureCount = 0
<1>. DEFINE m == EnsureMeta(metas, S)
<1>1. /\ IsMap(m, Uuids, PollMeta) /\ DOMAIN m = DOMAIN metas \cup S
      /\ \A u \in DOMAIN metas : m[u] = metas[u]
      /\ \A u \in S \ DOMAIN metas : m[u] = CreateMeta
  BY EnsureMetaType
<1>2. clock + BOOST_WINDOW_MS \in Nat /\ clock \in Nat
  BY BoostTime
<1>3. \A u \in DOMAIN m : m[u] \in PollMeta
  BY <1>1 DEF IsMap
<1>4. CreateMeta.failureCount = 0
  BY DEF CreateMeta
<1>. HIDE DEF m
<1>5. \A u \in DOMAIN m :
        /\ [m[u] EXCEPT !.boostUntilAt = clock + BOOST_WINDOW_MS, !.nextDueAt = clock] \in PollMeta
        /\ [m[u] EXCEPT !.boostUntilAt = clock + BOOST_WINDOW_MS, !.nextDueAt = clock].failureCount
             = m[u].failureCount
  BY <1>2, <1>3 DEF PollMeta
<1>6. BoostDevices(metas, S) = [u \in DOMAIN m |->
         IF u \in S THEN [m[u] EXCEPT !.boostUntilAt = clock + BOOST_WINDOW_MS,
                                      !.nextDueAt = clock]
                    ELSE m[u]]
  BY DEF BoostDevices, m
<1>7. IsMap(BoostDevices(metas, S), Uuids, PollMeta)
      /\ DOMAIN BoostDevices(metas, S) = DOMAIN m
  <2>. DEFINE b == BoostDevices(metas, S)
  <2>1. DOMAIN b = DOMAIN m /\ DOMAIN m \subseteq Uuids /\ b = [u \in DOMAIN b |-> b[u]]
    BY <1>1, <1>6 DEF IsMap
  <2>2. \A u \in DOMAIN m : b[u] \in PollMeta
    BY <1>3, <1>5, <1>6
  <2>. HIDE DEF b
  <2>3. IsMap(b, Uuids, PollMeta)
    BY <2>1, <2>2 DEF IsMap
  <2>. QED BY <2>1, <2>3 DEF b
<1>8. \A u \in DOMAIN m : BoostDevices(metas, S)[u].failureCount = m[u].failureCount
  BY <1>5, <1>6
<1>. QED BY <1>1, <1>4, <1>7, <1>8

\* A new version is a time, and greater than the version it replaces.
LEMMA NextUpdatedAtType ==
  ASSUME TypeOK, NEW entries, NEW u,
         u \in DOMAIN entries => entries[u].updatedAt \in Nat
  PROVE  /\ NextUpdatedAt(entries, u) \in Nat
         /\ u \in DOMAIN entries => NextUpdatedAt(entries, u) > entries[u].updatedAt
BY DEF TypeOK, NextUpdatedAt

\* Broadcasting a device state keeps the subscribers' type.
LEMMA BroadcastStateType ==
  ASSUME TypeOK, NEW u \in Uuids, NEW next \in DeviceState, BroadcastState(u, next)
  PROVE  /\ IsMap(subscribers', SubscriberIds, {subscribers'[s] : s \in DOMAIN subscribers'})
         /\ \A s \in DOMAIN subscribers' : IsSubscriber(subscribers'[s])
<1>1. PICK gone \in SUBSET DOMAIN subscribers :
        subscribers' = [s \in DOMAIN subscribers \ gone |->
          [subscribers[s] EXCEPT !.states = Put(@, u, next)]]
  BY DEF BroadcastState
<1>2. \A s \in DOMAIN subscribers :
        /\ subscribers[s] = [states |-> subscribers[s].states, power |-> subscribers[s].power]
        /\ IsMap(subscribers[s].states, Uuids, DeviceState)
        /\ IsMap(subscribers[s].power, Uuids, DevicePower)
  BY DEF TypeOK, IsSubscriber
<1>3. \A s \in DOMAIN subscribers : IsMap(Put(subscribers[s].states, u, next), Uuids, DeviceState)
  BY <1>2, PutIsMap
<1>4. \A s \in DOMAIN subscribers' :
        /\ s \in DOMAIN subscribers
        /\ subscribers'[s] = [states |-> Put(subscribers[s].states, u, next),
                              power |-> subscribers[s].power]
  BY <1>1, <1>2
<1>5. \A s \in DOMAIN subscribers' : IsSubscriber(subscribers'[s])
  BY <1>2, <1>3, <1>4 DEF IsSubscriber
<1>6. DOMAIN subscribers' \subseteq SubscriberIds
  BY <1>1 DEF TypeOK, IsMap
<1>. QED BY <1>1, <1>5, <1>6 DEF IsMap

\* The same for a power reading.
LEMMA BroadcastPowerType ==
  ASSUME TypeOK, NEW u \in Uuids, NEW next \in DevicePower, BroadcastPower(u, next)
  PROVE  /\ IsMap(subscribers', SubscriberIds, {subscribers'[s] : s \in DOMAIN subscribers'})
         /\ \A s \in DOMAIN subscribers' : IsSubscriber(subscribers'[s])
<1>1. PICK gone \in SUBSET DOMAIN subscribers :
        subscribers' = [s \in DOMAIN subscribers \ gone |->
          [subscribers[s] EXCEPT !.power = Put(@, u, next)]]
  BY DEF BroadcastPower
<1>2. \A s \in DOMAIN subscribers :
        /\ subscribers[s] = [states |-> subscribers[s].states, power |-> subscribers[s].power]
        /\ IsMap(subscribers[s].states, Uuids, DeviceState)
        /\ IsMap(subscribers[s].power, Uuids, DevicePower)
  BY DEF TypeOK, IsSubscriber
<1>3. \A s \in DOMAIN subscribers : IsMap(Put(subscribers[s].power, u, next), Uuids, DevicePower)
  BY <1>2, PutIsMap
<1>4. \A s \in DOMAIN subscribers' :
        /\ s \in DOMAIN subscribers
        /\ subscribers'[s] = [states |-> subscribers[s].states,
                              power |-> Put(subscribers[s].power, u, next)]
  BY <1>1, <1>2
<1>5. \A s \in DOMAIN subscribers' : IsSubscriber(subscribers'[s])
  BY <1>2, <1>3, <1>4 DEF IsSubscriber
<1>6. DOMAIN subscribers' \subseteq SubscriberIds
  BY <1>1 DEF TypeOK, IsMap
<1>. QED BY <1>1, <1>5, <1>6 DEF IsMap

-----------------------------------------------------------------------------
(* Starting and ending tasks *)

\* A fresh poll task has its type.
LEMMA NewTaskType ==
  ASSUME TypeOK, NEW reason \in Reasons
  PROVE  NewTask(reason) \in Task
BY NamesAssumption DEF TypeOK, NewTask, Task

\* What pollDevice(u) for u in S does: the inFlight map stays exact, no task ends,
\* and a task runs for every u in S.
StartStep(o, S, reason) ==
  /\ IsMap(tasks', Owners \X Uuids, Task)
  /\ IsMap(inFlight', Uuids, Owners)
  /\ InFlightExact'
  /\ DOMAIN tasks \subseteq DOMAIN tasks'
  /\ \A k \in DOMAIN tasks : tasks'[k] = tasks[k]
  /\ \A k \in DOMAIN tasks' \ DOMAIN tasks :
       k[1] = o /\ k[2] \in S /\ tasks'[k] = NewTask(reason)
  /\ \A u \in S : /\ AwaitedOwner(o, u) \in Owners
                   /\ <<AwaitedOwner(o, u), u>> \in DOMAIN tasks'

\* Calling pollDevice for several uuids at once is such a step, whichever of them
\* have a poll in flight.
LEMMA PollDevicesStep ==
  ASSUME TypeOK, InFlightExact,
         NEW o \in Owners, NEW S \in SUBSET Uuids, NEW reason \in Reasons,
         PollDevices(o, S, reason)
  PROVE  StartStep(o, S, reason)
<1>. DEFINE New == {o} \X (S \ DOMAIN inFlight)
<1>1. /\ tasks' = PutAll(tasks, New, NewTask(reason))
      /\ inFlight' = PutAll(inFlight, S \ DOMAIN inFlight, o)
  BY DEF PollDevices, StartedOf
<1>2. New \in SUBSET (Owners \X Uuids)
  OBVIOUS
<1>3. IsMap(tasks, Owners \X Uuids, Task) /\ IsMap(inFlight, Uuids, Owners)
  BY DEF TypeOK
<1>4. NewTask(reason) \in Task
  BY NewTaskType
<1>6. IsMap(inFlight', Uuids, Owners)
  BY <1>1, <1>3, PutAllIsMap
<1>7. /\ DOMAIN tasks' = DOMAIN tasks \cup New
      /\ \A k \in New : tasks'[k] = NewTask(reason)
      /\ \A k \in DOMAIN tasks : k \notin New => tasks'[k] = tasks[k]
  BY <1>1 DEF PutAll
<1>8. /\ DOMAIN inFlight' = DOMAIN inFlight \cup S
      /\ \A u \in S \ DOMAIN inFlight : inFlight'[u] = o
      /\ \A u \in DOMAIN inFlight : inFlight'[u] = inFlight[u]
  BY <1>1 DEF PutAll
<1>9. \A k \in New : k = <<o, k[2]>> /\ k[1] = o /\ k[2] \in S /\ k[2] \notin DOMAIN inFlight
  OBVIOUS
<1>10. \A k \in DOMAIN tasks : k \notin New
  BY <1>9 DEF InFlightExact
<1>11. \A u \in S \ DOMAIN inFlight : <<o, u>> \in New
  OBVIOUS
<1>. HIDE DEF New
<1>5. IsMap(tasks', Owners \X Uuids, Task)
  BY <1>1, <1>2, <1>3, <1>4, PutAllIsMap
<1>12. InFlightExact'
  BY <1>7, <1>8, <1>9, <1>11 DEF InFlightExact
<1>13. \A u \in S : /\ AwaitedOwner(o, u) \in Owners
                    /\ <<AwaitedOwner(o, u), u>> \in DOMAIN tasks'
  <2>. TAKE u \in S
  <2>1. CASE u \in DOMAIN inFlight
    <3>1. AwaitedOwner(o, u) = inFlight[u]
      BY <2>1 DEF AwaitedOwner, StartedOf
    <3>. QED BY <2>1, <3>1, <1>3, <1>7 DEF InFlightExact, IsMap
  <2>2. CASE u \notin DOMAIN inFlight
    <3>1. AwaitedOwner(o, u) = o
      BY <2>2 DEF AwaitedOwner, StartedOf
    <3>. QED BY <2>2, <3>1, <1>7, <1>11
  <2>. QED BY <2>1, <2>2
<1>. QED BY <1>5, <1>6, <1>7, <1>9, <1>10, <1>12, <1>13 DEF StartStep

\* A finishing task leaves the map exact and every other task as it was.
LEMMA EndTaskStep ==
  ASSUME TypeOK, InFlightExact, NEW o \in Owners, NEW u \in Uuids,
         <<o, u>> \in DOMAIN tasks, EndTask(o, u)
  PROVE  /\ IsMap(tasks', Owners \X Uuids, Task)
         /\ IsMap(inFlight', Uuids, Owners)
         /\ InFlightExact'
         /\ DOMAIN tasks' = DOMAIN tasks \ {<<o, u>>}
         /\ \A k \in DOMAIN tasks' : tasks'[k] = tasks[k]
<1>1. tasks' = Drop(tasks, <<o, u>>) /\ inFlight' = Drop(inFlight, u)
  BY DEF EndTask
<1>2. IsMap(tasks, Owners \X Uuids, Task) /\ IsMap(inFlight, Uuids, Owners)
  BY DEF TypeOK
<1>3. IsMap(tasks', Owners \X Uuids, Task) /\ IsMap(inFlight', Uuids, Owners)
  BY <1>1, <1>2, DropIsMap
<1>4. /\ DOMAIN tasks' = DOMAIN tasks \ {<<o, u>>}
      /\ \A k \in DOMAIN tasks' : tasks'[k] = tasks[k]
      /\ DOMAIN inFlight' = DOMAIN inFlight \ {u}
      /\ \A v \in DOMAIN inFlight' : inFlight'[v] = inFlight[v]
  BY <1>1 DEF Drop
<1>5. \A k \in DOMAIN tasks : k = <<k[1], k[2]>>
  BY <1>2 DEF IsMap
<1>6. u \in DOMAIN inFlight /\ inFlight[u] = o
  BY DEF InFlightExact
<1>7. InFlightExact'
  BY <1>4, <1>5, <1>6 DEF InFlightExact
<1>. QED BY <1>3, <1>4, <1>7

\* What delivering a result does to the pollNow calls: those that awaited the
\* task await it no more, and nothing else is awaited.
DeliveryStep(o, u) ==
  /\ IsMap(requests', RequestIds, Request)
  /\ DOMAIN requests' = DOMAIN requests
  /\ \A r \in DOMAIN requests :
       /\ requests'[r].todo = requests[r].todo
       /\ DOMAIN requests'[r].awaits \subseteq DOMAIN requests[r].awaits
       /\ \A v \in DOMAIN requests'[r].awaits :
            /\ requests'[r].awaits[v] = requests[r].awaits[v]
            /\ <<requests'[r].awaits[v], v>> # <<o, u>>

\* A call whose awaited task ended keeps its type.
LEMMA DeliveredType ==
  ASSUME NEW q \in Request, NEW u \in Uuids
  PROVE  /\ Delivered(q, u) \in Request
         /\ Delivered(q, u).todo = q.todo
         /\ Delivered(q, u).awaits = Drop(q.awaits, u)
         /\ Delivered(q, u).states = q.states
         /\ Delivered(q, u).errors = q.errors
         /\ Delivered(q, u).ready = q.ready \cup {u}
         /\ Delivered(q, u).asked = q.asked
         /\ Delivered(q, u).pc = q.pc
<1>1. q.awaits \in MapsOf(Uuids, Owners)
  BY DEF Request
<1>2. Drop(q.awaits, u) \in MapsOf(Uuids, Owners)
  BY <1>1, MapsOfIsMap, DropIsMap
<1>. QED BY <1>2 DEF Delivered, Request

\* A result delivered to everyone who awaits the task keeps requests typed, and
\* leaves nobody waiting for it.
LEMMA DeliverStateStep ==
  ASSUME TypeOK, NEW o \in Owners, NEW u \in Uuids, NEW v \in Values, DeliverState(o, u, v)
  PROVE  DeliveryStep(o, u)
<1>1. requests' = [r \in DOMAIN requests |->
        IF Awaiting(r, o, u)
        THEN [Delivered(requests[r], u) EXCEPT !.states = Put(@, u, v)]
        ELSE requests[r]]
  BY DEF DeliverState
<1>2. DOMAIN requests \subseteq RequestIds /\ \A r \in DOMAIN requests : requests[r] \in Request
  BY DEF TypeOK, IsMap
<1>3. ASSUME NEW r \in DOMAIN requests, Awaiting(r, o, u)
      PROVE  /\ requests'[r] \in Request
             /\ requests'[r].todo = requests[r].todo
             /\ requests'[r].awaits = Drop(requests[r].awaits, u)
  <2>1. requests'[r] = [Delivered(requests[r], u) EXCEPT !.states = Put(@, u, v)]
    BY <1>1, <1>3
  <2>2. Put(requests[r].states, u, v) \in MapsOf(Uuids, Values)
    <3>1. requests[r].states \in MapsOf(Uuids, Values)
      BY <1>2 DEF Request
    <3>. QED BY <3>1, MapsOfIsMap, PutIsMap
  <2>. QED BY <2>1, <2>2, <1>2, DeliveredType DEF Request
<1>4. ASSUME NEW r \in DOMAIN requests, ~Awaiting(r, o, u)
      PROVE  requests'[r] = requests[r]
  BY <1>1, <1>4
<1>5. IsMap(requests', RequestIds, Request) /\ DOMAIN requests' = DOMAIN requests
  BY <1>1, <1>2, <1>3, <1>4 DEF IsMap
<1>. QED BY <1>3, <1>4, <1>5 DEF DeliveryStep, Awaiting, Drop

\* The same for an error.
LEMMA DeliverErrorStep ==
  ASSUME TypeOK, NEW o \in Owners, NEW u \in Uuids, DeliverError(o, u)
  PROVE  DeliveryStep(o, u)
<1>1. requests' = [r \in DOMAIN requests |->
        IF Awaiting(r, o, u)
        THEN [Delivered(requests[r], u) EXCEPT !.errors = @ \cup {u}]
        ELSE requests[r]]
  BY DEF DeliverError
<1>2. DOMAIN requests \subseteq RequestIds /\ \A r \in DOMAIN requests : requests[r] \in Request
  BY DEF TypeOK, IsMap
<1>3. ASSUME NEW r \in DOMAIN requests, Awaiting(r, o, u)
      PROVE  /\ requests'[r] \in Request
             /\ requests'[r].todo = requests[r].todo
             /\ requests'[r].awaits = Drop(requests[r].awaits, u)
  <2>1. requests'[r] = [Delivered(requests[r], u) EXCEPT !.errors = @ \cup {u}]
    BY <1>1, <1>3
  <2>. QED BY <2>1, <1>2, DeliveredType DEF Request
<1>4. ASSUME NEW r \in DOMAIN requests, ~Awaiting(r, o, u)
      PROVE  requests'[r] = requests[r]
  BY <1>1, <1>4
<1>5. IsMap(requests', RequestIds, Request) /\ DOMAIN requests' = DOMAIN requests
  BY <1>1, <1>2, <1>3, <1>4 DEF IsMap
<1>. QED BY <1>3, <1>4, <1>5 DEF DeliveryStep, Awaiting, Drop

-----------------------------------------------------------------------------
(* PollerInv is inductive: one lemma per action that is more than bookkeeping *)

USE DEF lanVars, pollVars, powerVars, tickVars, hostVars

\* The invariant holds when the service is constructed.
LEMMA InitInv == Init => PollerInv
<1>. SUFFICES ASSUME Init PROVE PollerInv
  OBVIOUS
<1>1. EmptyMap \in HostMaps
  BY MapsOfIsMap, EmptyIsMap DEF HostMaps
<1>2. TypeOK
  <2>1. \A K, V : IsMap(EmptyMap, K, V)
    BY EmptyIsMap
  <2>2. DOMAIN subscribers = {}
    BY EmptyIsMap DEF Init
  <2>3. IsMap(subscribers, SubscriberIds, {subscribers[s] : s \in DOMAIN subscribers})
    BY <2>1 DEF Init
  <2>4. tickBusy \in BOOLEAN
    BY DEF Init
  <2>5. clock \in Nat /\ clock >= Epoch /\ lastSyncHostsAt \in Nat
    BY TimesAssumption DEF Init
  <2>6. \A s \in DOMAIN subscribers : IsSubscriber(subscribers[s])
    BY <2>2
  <2>7. /\ config \in HostMaps /\ device \in [Hosts -> Values]
        /\ knownHosts \in HostMaps /\ tickCfg \in HostMaps
    BY <1>1 DEF Init
  <2>8. /\ IsMap(stateByUuid, Uuids, DeviceState)
        /\ IsMap(metaByUuid, Uuids, PollMeta)
        /\ IsMap(inFlight, Uuids, Owners)
        /\ IsMap(tasks, Owners \X Uuids, Task)
        /\ IsMap(powerByUuid, Uuids, DevicePower)
        /\ IsMap(telemetryInFlight, Uuids, Nat)
        /\ IsMap(resolving, Uuids, Resolution)
        /\ IsMap(requests, RequestIds, Request)
    BY <2>1 DEF Init
  <2>. QED BY <2>3, <2>4, <2>5, <2>6, <2>7, <2>8 DEF TypeOK
<1>. QED BY <1>2, EmptyIsMap DEF Init, PollerInv, InFlightExact, MetaExists, AddressKnown, NoLostWakeup

\* A poll that read its host from config keeps the invariant.
LEMMA PollReadConfigInv ==
  ASSUME PollerInv, NEW o \in Owners, NEW u \in Uuids, PollReadConfig(o, u)
  PROVE  PollerInv'
<1>. DEFINE k == <<o, u>>
            t == [tasks[k] EXCEPT !.pc = "lan", !.host = config[u]]
<1>1. config[u] \in Hosts
  BY MapsOfIsMap DEF PollerInv, TypeOK, HostMaps, IsMap, PollReadConfig
<1>2. k \in DOMAIN tasks /\ tasks[k] \in Task
  BY DEF PollerInv, TypeOK, IsMap, PollReadConfig
<1>3. t \in Task /\ t.host \in Hosts
  BY <1>1, <1>2 DEF Task
<1>4. tasks' = [tasks EXCEPT ![k] = t]
  BY DEF PollReadConfig
<1>. HIDE DEF k, t
<1>5. IsMap(tasks, Owners \X Uuids, Task)
  BY DEF PollerInv, TypeOK
<1>6. IsMap(tasks', Owners \X Uuids, Task)
  BY <1>2, <1>3, <1>4, <1>5, ExceptIsMap
<1>7. /\ DOMAIN tasks' = DOMAIN tasks /\ tasks'[k] = t
      /\ \A x \in DOMAIN tasks : x # k => tasks'[x] = tasks[x]
  BY <1>2, <1>4
<1>8. TypeOK'
  BY <1>6 DEF PollerInv, TypeOK, PollReadConfig
<1>. QED BY <1>3, <1>7, <1>8
     DEF PollerInv, InFlightExact, MetaExists, AddressKnown, NoLostWakeup, PollReadConfig

\* So does the answer of a device.
LEMMA LanAnswerInv ==
  ASSUME PollerInv, NEW o \in Owners, NEW u \in Uuids, LanAnswer(o, u)
  PROVE  PollerInv'
<1>. DEFINE k == <<o, u>>
            t == [tasks[k] EXCEPT !.pc = "answer", !.val = device[tasks[k].host]]
<1>1. k \in DOMAIN tasks /\ tasks[k] \in Task /\ tasks[k].host \in Hosts
  BY DEF PollerInv, TypeOK, IsMap, LanAnswer, AddressKnown
<1>2. device[tasks[k].host] \in Values
  BY <1>1 DEF PollerInv, TypeOK
<1>3. t \in Task /\ t.host \in Hosts
  BY <1>1, <1>2 DEF Task
<1>4. tasks' = [tasks EXCEPT ![k] = t]
  BY DEF LanAnswer
<1>. HIDE DEF k, t
<1>5. IsMap(tasks, Owners \X Uuids, Task)
  BY DEF PollerInv, TypeOK
<1>6. IsMap(tasks', Owners \X Uuids, Task)
  BY <1>1, <1>3, <1>4, <1>5, ExceptIsMap
<1>7. /\ DOMAIN tasks' = DOMAIN tasks /\ tasks'[k] = t
      /\ \A x \in DOMAIN tasks : x # k => tasks'[x] = tasks[x]
  BY <1>1, <1>4
<1>8. TypeOK'
  BY <1>6 DEF PollerInv, TypeOK, LanAnswer
<1>. QED BY <1>3, <1>7, <1>8
     DEF PollerInv, InFlightExact, MetaExists, AddressKnown, NoLostWakeup, LanAnswer

\* The task, meta and previous state a finishing poll works on.
LEMMA FinishingTask ==
  ASSUME PollerInv, NEW o \in Owners, NEW u \in Uuids, <<o, u>> \in DOMAIN tasks
  PROVE  /\ tasks[<<o, u>>] \in Task
         /\ u \in DOMAIN metaByUuid /\ metaByUuid[u] \in PollMeta
         /\ u \in DOMAIN stateByUuid => stateByUuid[u] \in DeviceState
         /\ NextUpdatedAt(stateByUuid, u) \in Nat
         /\ u \in DOMAIN stateByUuid =>
              NextUpdatedAt(stateByUuid, u) > stateByUuid[u].updatedAt
<1>1. tasks[<<o, u>>] \in Task /\ (u \in DOMAIN stateByUuid => stateByUuid[u] \in DeviceState)
  BY DEF PollerInv, TypeOK, IsMap
<1>2. u \in DOMAIN metaByUuid
  BY DEF PollerInv, MetaExists
<1>3. metaByUuid[u] \in PollMeta
  BY <1>2 DEF PollerInv, TypeOK, IsMap
<1>4. u \in DOMAIN stateByUuid => stateByUuid[u].updatedAt \in Nat
  BY <1>1 DEF DeviceState
<1>. QED BY <1>1, <1>2, <1>3, <1>4, NextUpdatedAtType DEF PollerInv

\* Once the task has ended and its result is delivered, the bookkeeping holds.
LEMMA FinishedTask ==
  ASSUME PollerInv, NEW o \in Owners, NEW u \in Uuids, <<o, u>> \in DOMAIN tasks,
         EndTask(o, u), DeliveryStep(o, u), TypeOK',
         DOMAIN metaByUuid' = DOMAIN metaByUuid,
         UNCHANGED telemetryInFlight,
         DOMAIN resolving' \subseteq DOMAIN resolving \cup {u},
         \A v \in DOMAIN resolving' :
           resolving'[v].pc # "scan" => v \in DOMAIN resolving /\ resolving'[v] = resolving[v]
  PROVE  PollerInv'
<1>1. /\ InFlightExact'
      /\ DOMAIN tasks' = DOMAIN tasks \ {<<o, u>>}
      /\ \A k \in DOMAIN tasks' : tasks'[k] = tasks[k]
  BY EndTaskStep DEF PollerInv
<1>2. u \in DOMAIN metaByUuid
  BY DEF PollerInv, MetaExists
<1>3. MetaExists'
  BY <1>1, <1>2 DEF PollerInv, MetaExists, DeliveryStep
<1>4. AddressKnown'
  BY <1>1 DEF PollerInv, AddressKnown
<1>5. NoLostWakeup'
  BY <1>1 DEF PollerInv, NoLostWakeup, DeliveryStep
<1>. QED BY <1>1, <1>3, <1>4, <1>5 DEF PollerInv

\* A poll that succeeds ends its own task only, and tells everyone who awaits it.
LEMMA PollSuccessInv ==
  ASSUME PollerInv, NEW o \in Owners, NEW u \in Uuids, PollSuccess(o, u)
  PROVE  PollerInv'
<1>. DEFINE t == tasks[<<o, u>>]
            next == [host |-> t.host, val |-> t.val, stale |-> FALSE,
                     updatedAt |-> NextUpdatedAt(stateByUuid, u), source |-> t.reason]
            changed == HasMaterialStateChange(u, next)
            meta == [metaByUuid[u] EXCEPT !.failureCount = 0,
                                          !.lastChangeAt = IF changed THEN t.now ELSE @]
<1>0. TypeOK /\ InFlightExact
  BY DEF PollerInv
<1>a. /\ IsMap(stateByUuid, Uuids, DeviceState) /\ IsMap(metaByUuid, Uuids, PollMeta)
      /\ IsMap(resolving, Uuids, Resolution)
  BY DEF PollerInv, TypeOK
<1>1. /\ <<o, u>> \in DOMAIN tasks /\ t.pc = "answer"
      /\ IF changed
         THEN stateByUuid' = Put(stateByUuid, u, next) /\ BroadcastState(u, next)
         ELSE stateByUuid' = [stateByUuid EXCEPT ![u].source = t.reason] /\ UNCHANGED subscribers
      /\ \E d \in NextIntervalMs(meta, t.now) :
           metaByUuid' = [metaByUuid EXCEPT ![u] = [meta EXCEPT !.nextDueAt = t.now + d]]
      /\ EndTask(o, u)
      /\ DeliverState(o, u, stateByUuid'[u].val)
      /\ UNCHANGED <<clock, lanVars, hostVars, powerVars, resolving, tickVars>>
  BY DEF PollSuccess
<1>2. /\ t \in Task /\ u \in DOMAIN metaByUuid /\ metaByUuid[u] \in PollMeta
      /\ u \in DOMAIN stateByUuid => stateByUuid[u] \in DeviceState
      /\ NextUpdatedAt(stateByUuid, u) \in Nat
  BY <1>1, FinishingTask
<1>3. next \in DeviceState
  BY <1>2 DEF Task, DeviceState
<1>4. meta \in PollMeta /\ t.now \in Nat
  BY <1>2 DEF Task, PollMeta
<1>5. ~changed => u \in DOMAIN stateByUuid
  BY DEF HasMaterialStateChange
<1>. HIDE DEF t, next, changed, meta
<1>6. IsMap(metaByUuid', Uuids, PollMeta) /\ DOMAIN metaByUuid' = DOMAIN metaByUuid
  <2>1. PICK d \in NextIntervalMs(meta, t.now) :
          metaByUuid' = [metaByUuid EXCEPT ![u] = [meta EXCEPT !.nextDueAt = t.now + d]]
    BY <1>1
  <2>2. d \in Nat
    BY <1>4, IntervalType
  <2>3. [meta EXCEPT !.nextDueAt = t.now + d] \in PollMeta
    BY <1>4, <2>2 DEF PollMeta
  <2>. QED BY <2>1, <2>3, <1>2, <1>a DEF IsMap
<1>7. IsMap(stateByUuid', Uuids, DeviceState) /\ stateByUuid'[u].val \in Values
  <2>1. CASE changed
    <3>1. stateByUuid' = Put(stateByUuid, u, next)
      BY <1>1, <2>1
    <3>2. IsMap(stateByUuid', Uuids, DeviceState) /\ stateByUuid'[u] = next
      BY <3>1, <1>3, <1>a DEF Put, IsMap
    <3>. QED BY <3>2, <1>3 DEF DeviceState
  <2>2. CASE ~changed
    <3>. DEFINE same == [stateByUuid[u] EXCEPT !.source = t.reason]
    <3>1. stateByUuid' = [stateByUuid EXCEPT ![u] = same] /\ u \in DOMAIN stateByUuid
      BY <1>1, <1>5, <2>2
    <3>2. same \in DeviceState
      BY <3>1, <1>2 DEF DeviceState, Task
    <3>. HIDE DEF same
    <3>3. IsMap(stateByUuid', Uuids, DeviceState) /\ stateByUuid'[u] = same
      BY <3>1, <3>2, <1>a, ExceptIsMap
    <3>. QED BY <3>2, <3>3 DEF DeviceState
  <2>. QED BY <2>1, <2>2
<1>8. /\ IsMap(subscribers', SubscriberIds, {subscribers'[s] : s \in DOMAIN subscribers'})
      /\ \A s \in DOMAIN subscribers' : IsSubscriber(subscribers'[s])
  <2>1. CASE changed
    BY <1>0, <1>1, <1>3, <2>1, BroadcastStateType
  <2>2. CASE ~changed
    BY <1>0, <1>1, <2>2 DEF TypeOK
  <2>. QED BY <2>1, <2>2
<1>9. DeliveryStep(o, u)
  BY <1>0, <1>1, <1>7, DeliverStateStep
<1>10. IsMap(tasks', Owners \X Uuids, Task) /\ IsMap(inFlight', Uuids, Owners)
  BY <1>0, <1>1, EndTaskStep
<1>11. TypeOK'
  BY <1>0, <1>1, <1>6, <1>7, <1>8, <1>9, <1>10 DEF TypeOK, DeliveryStep
<1>12. /\ DOMAIN resolving' = DOMAIN resolving /\ UNCHANGED telemetryInFlight
       /\ \A v \in DOMAIN resolving' : resolving'[v] = resolving[v]
  BY <1>1
<1>. QED BY <1>1, <1>6, <1>9, <1>11, <1>12, FinishedTask

\* The state a failed poll publishes has its type, also for a device never seen.
LEMMA StaleStateType ==
  ASSUME PollerInv, NEW o \in Owners, NEW u \in Uuids, <<o, u>> \in DOMAIN tasks,
         NEW reason \in Reasons
  PROVE  StaleState(u, reason) \in DeviceState
<1>1. /\ u \in DOMAIN stateByUuid => stateByUuid[u] \in DeviceState
      /\ NextUpdatedAt(stateByUuid, u) \in Nat
  BY FinishingTask
<1>2. u \in DOMAIN knownHosts => knownHosts[u] \in Hosts
  BY MapsOfIsMap DEF PollerInv, TypeOK, HostMaps, IsMap
<1>3. u \in DOMAIN stateByUuid => stateByUuid[u].host \in Hosts \cup {NoHost}
                                  /\ stateByUuid[u].val \in Values
  BY <1>1 DEF DeviceState
<1>. QED BY <1>1, <1>2, <1>3, NamesAssumption DEF StaleState, DeviceState

\* A poll that fails does the same, and may start a host resolution.
LEMMA PollFailureInv ==
  ASSUME PollerInv, NEW o \in Owners, NEW u \in Uuids, PollFailure(o, u)
  PROVE  PollerInv'
<1>. DEFINE t == tasks[<<o, u>>]
            staleNext == StaleState(u, t.reason)
            failed == CountFailure(u)
            resolve == StartsResolve(u, failed)
            scan == [pc |-> "scan", cfg |-> EmptyMap, host |-> NoHost]
<1>0. TypeOK /\ InFlightExact
  BY DEF PollerInv
<1>a. /\ IsMap(stateByUuid, Uuids, DeviceState) /\ IsMap(metaByUuid, Uuids, PollMeta)
      /\ IsMap(resolving, Uuids, Resolution)
  BY DEF PollerInv, TypeOK
<1>1. /\ <<o, u>> \in DOMAIN tasks
      /\ IF HasMaterialStateChange(u, staleNext)
         THEN stateByUuid' = Put(stateByUuid, u, staleNext) /\ BroadcastState(u, staleNext)
         ELSE UNCHANGED <<stateByUuid, subscribers>>
      /\ \E d \in NextIntervalMs(failed, t.now) :
           metaByUuid' = [metaByUuid EXCEPT ![u] =
             [failed EXCEPT !.nextDueAt = t.now + d,
                            !.lastResolveAttemptAt = IF resolve THEN clock ELSE @]]
      /\ resolving' = IF resolve THEN Put(resolving, u, scan) ELSE resolving
      /\ EndTask(o, u)
      /\ DeliverError(o, u)
      /\ UNCHANGED <<clock, lanVars, hostVars, powerVars, tickVars>>
  BY DEF PollFailure
<1>2. t \in Task /\ u \in DOMAIN metaByUuid /\ metaByUuid[u] \in PollMeta
  BY <1>1, FinishingTask
<1>3. t.now \in Nat /\ t.reason \in Reasons /\ failed \in PollMeta
  BY <1>2 DEF Task, PollMeta, CountFailure
<1>4. staleNext \in DeviceState
  BY <1>1, <1>3, StaleStateType
<1>5. scan \in Resolution /\ scan.pc = "scan"
  BY MapsOfIsMap, EmptyIsMap DEF Resolution, HostMaps
<1>. HIDE DEF t, staleNext, failed, resolve, scan
<1>6. IsMap(metaByUuid', Uuids, PollMeta) /\ DOMAIN metaByUuid' = DOMAIN metaByUuid
  <2>1. PICK d \in NextIntervalMs(failed, t.now) :
          metaByUuid' = [metaByUuid EXCEPT ![u] =
             [failed EXCEPT !.nextDueAt = t.now + d,
                            !.lastResolveAttemptAt = IF resolve THEN clock ELSE @]]
    BY <1>1
  <2>. DEFINE at == IF resolve THEN clock ELSE failed.lastResolveAttemptAt
              due == t.now + d
              m == [failed EXCEPT !.nextDueAt = due, !.lastResolveAttemptAt = at]
  <2>2. d \in Nat /\ clock \in Nat
    BY <1>0, <1>3, IntervalType DEF TypeOK
  <2>3. at \in Nat /\ due \in Nat
    BY <1>3, <2>2 DEF PollMeta
  <2>4. metaByUuid' = [metaByUuid EXCEPT ![u] = m]
    BY <2>1
  <2>. HIDE DEF at, due
  <2>5. m \in PollMeta
    BY <1>3, <2>3 DEF PollMeta
  <2>. HIDE DEF m
  <2>. QED BY <2>4, <2>5, <1>2, <1>a, ExceptIsMap
<1>7. /\ IsMap(stateByUuid', Uuids, DeviceState)
      /\ IsMap(subscribers', SubscriberIds, {subscribers'[s] : s \in DOMAIN subscribers'})
      /\ \A s \in DOMAIN subscribers' : IsSubscriber(subscribers'[s])
  <2>1. CASE HasMaterialStateChange(u, staleNext)
    <3>1. IsMap(stateByUuid', Uuids, DeviceState)
      BY <2>1, <1>1, <1>4, <1>a DEF Put, IsMap
    <3>. QED BY <3>1, <2>1, <1>0, <1>1, <1>4, BroadcastStateType
  <2>2. CASE ~HasMaterialStateChange(u, staleNext)
    BY <1>0, <1>1, <2>2 DEF TypeOK
  <2>. QED BY <2>1, <2>2
<1>8. /\ IsMap(resolving', Uuids, Resolution)
      /\ DOMAIN resolving' \subseteq DOMAIN resolving \cup {u}
      /\ \A v \in DOMAIN resolving' :
           resolving'[v].pc # "scan" => v \in DOMAIN resolving /\ resolving'[v] = resolving[v]
  <2>1. CASE resolve
    <3>1. resolving' = Put(resolving, u, scan)
      BY <1>1, <2>1
    <3>2. /\ IsMap(resolving', Uuids, Resolution)
          /\ DOMAIN resolving' = DOMAIN resolving \cup {u}
          /\ resolving'[u] = scan
          /\ \A v \in DOMAIN resolving : v # u => resolving'[v] = resolving[v]
      BY <3>1, <1>5, <1>a, PutIsMap
    <3>. QED BY <3>2, <1>5
  <2>2. CASE ~resolve
    BY <1>0, <1>1, <2>2 DEF TypeOK
  <2>. QED BY <2>1, <2>2
<1>9. DeliveryStep(o, u)
  BY <1>0, <1>1, DeliverErrorStep
<1>10. IsMap(tasks', Owners \X Uuids, Task) /\ IsMap(inFlight', Uuids, Owners)
  BY <1>0, <1>1, EndTaskStep
<1>11. TypeOK'
  BY <1>0, <1>1, <1>6, <1>7, <1>8, <1>9, <1>10 DEF TypeOK, DeliveryStep
<1>. QED BY <1>1, <1>6, <1>8, <1>9, <1>11, FinishedTask

\* The next telemetry poll is due at a time.
LEMMA TelemetryDueType ==
  ASSUME NEW now \in Nat, NEW n \in Nat PROVE TelemetryDue(now, n) \in Nat
<1>1. FailureBackoffMs(n) \in Nat BY BackoffType
<1>2. TELEMETRY_INTERVAL_MS \in Nat BY TimesAssumption
<1>. QED BY <1>1, <1>2 DEF TelemetryDue

\* The end of a telemetry task touches two fields of one meta.
LEMMA EndTelemetryStep ==
  ASSUME PollerInv, NEW u \in DOMAIN telemetryInFlight, NEW due \in Nat, NEW n \in Nat,
         EndTelemetry(u, due, n)
  PROVE  /\ IsMap(metaByUuid', Uuids, PollMeta)
         /\ DOMAIN metaByUuid' = DOMAIN metaByUuid
         /\ \A v \in DOMAIN metaByUuid : metaByUuid'[v].failureCount = metaByUuid[v].failureCount
         /\ IsMap(telemetryInFlight', Uuids, Nat)
         /\ DOMAIN telemetryInFlight' \subseteq DOMAIN telemetryInFlight
<1>. DEFINE m == [metaByUuid[u] EXCEPT !.telemetryNextDueAt = due, !.telemetryFailureCount = n]
<1>1. metaByUuid' = [metaByUuid EXCEPT ![u] = m] /\ telemetryInFlight' = Drop(telemetryInFlight, u)
  BY DEF EndTelemetry
<1>2. IsMap(metaByUuid, Uuids, PollMeta) /\ IsMap(telemetryInFlight, Uuids, Nat)
  BY DEF PollerInv, TypeOK
<1>3. u \in DOMAIN metaByUuid /\ metaByUuid[u] \in PollMeta
  BY <1>2 DEF PollerInv, MetaExists, IsMap
<1>4. m \in PollMeta /\ m.failureCount = metaByUuid[u].failureCount
  BY <1>3 DEF PollMeta
<1>. HIDE DEF m
<1>5. /\ IsMap(metaByUuid', Uuids, PollMeta) /\ DOMAIN metaByUuid' = DOMAIN metaByUuid
      /\ \A v \in DOMAIN metaByUuid : metaByUuid'[v].failureCount = metaByUuid[v].failureCount
  BY <1>1, <1>2, <1>3, <1>4 DEF IsMap
<1>6. IsMap(telemetryInFlight', Uuids, Nat) /\ DOMAIN telemetryInFlight' \subseteq DOMAIN telemetryInFlight
  BY <1>1, <1>2 DEF IsMap, Drop
<1>. QED BY <1>5, <1>6

\* Storing and broadcasting a power reading keeps both maps typed.
LEMMA RecordPowerType ==
  ASSUME TypeOK, NEW u \in Uuids, NEW next \in DevicePower, NEW changed, RecordPower(u, next, changed)
  PROVE  /\ IsMap(powerByUuid', Uuids, DevicePower)
         /\ IsMap(subscribers', SubscriberIds, {subscribers'[s] : s \in DOMAIN subscribers'})
         /\ \A s \in DOMAIN subscribers' : IsSubscriber(subscribers'[s])
<1>1. powerByUuid' = Put(powerByUuid, u, next) /\ IsMap(powerByUuid, Uuids, DevicePower)
  BY DEF RecordPower, TypeOK
<1>2. IsMap(powerByUuid', Uuids, DevicePower)
  BY <1>1 DEF Put, IsMap
<1>3. CASE BroadcastPower(u, next)
  BY <1>2, <1>3, BroadcastPowerType
<1>4. CASE UNCHANGED subscribers
  BY <1>2, <1>4 DEF TypeOK
<1>. QED BY <1>3, <1>4 DEF RecordPower

\* Facts on the telemetry task that ends.
LEMMA TelemetryTask ==
  ASSUME PollerInv, NEW u \in DOMAIN telemetryInFlight
  PROVE  /\ u \in Uuids /\ telemetryInFlight[u] \in Nat
         /\ metaByUuid[u].telemetryFailureCount \in Nat
         /\ NextUpdatedAt(powerByUuid, u) \in Nat
         /\ u \in DOMAIN powerByUuid => powerByUuid[u].reading \in Readings
<1>1. u \in Uuids /\ telemetryInFlight[u] \in Nat /\ u \in DOMAIN metaByUuid
  BY DEF PollerInv, TypeOK, IsMap, MetaExists
<1>2. metaByUuid[u] \in PollMeta
  BY <1>1 DEF PollerInv, TypeOK, IsMap
<1>3. u \in DOMAIN powerByUuid => powerByUuid[u] \in DevicePower
  BY DEF PollerInv, TypeOK, IsMap
<1>4. u \in DOMAIN powerByUuid => /\ powerByUuid[u].updatedAt \in Nat
                                  /\ powerByUuid[u].reading \in Readings
  BY <1>3 DEF DevicePower
<1>. QED BY <1>1, <1>2, <1>4, NextUpdatedAtType DEF PollerInv, PollMeta

\* What a telemetry poll stores is a reading with its staleness and error.
LEMMA EntryTypes ==
  ASSUME PollerInv, NEW u \in DOMAIN telemetryInFlight
  PROVE  /\ \A reading \in Readings : ReadPower(u, reading) \in DevicePower
         /\ \A error \in Errors : StalePower(u, error) \in DevicePower
<1>1. NothingRead \in Readings
  BY DEF NothingRead, Readings
<1>. DEFINE last == IF u \in DOMAIN powerByUuid THEN powerByUuid[u].reading ELSE NothingRead
            version == NextUpdatedAt(powerByUuid, u)
<1>2. last \in Readings /\ version \in Nat
  BY <1>1, TelemetryTask
<1>3. \A reading \in Readings : ReadPower(u, reading) =
        [reading |-> reading, stale |-> FALSE, error |-> "", updatedAt |-> version]
  BY DEF ReadPower
<1>4. \A error \in Errors : StalePower(u, error) =
        [reading |-> last, stale |-> TRUE, error |-> error, updatedAt |-> version]
  BY DEF StalePower
<1>. HIDE DEF last, version
<1>5. ASSUME NEW reading \in Readings PROVE ReadPower(u, reading) \in DevicePower
  <2>1. [reading |-> reading, stale |-> FALSE, error |-> "", updatedAt |-> version] \in DevicePower
    BY <1>2 DEF DevicePower
  <2>. QED BY <1>3, <2>1
<1>6. ASSUME NEW error \in Errors PROVE StalePower(u, error) \in DevicePower
  <2>1. [reading |-> last, stale |-> TRUE, error |-> error, updatedAt |-> version] \in DevicePower
    BY <1>2 DEF DevicePower
  <2>. QED BY <1>4, <2>1
<1>. QED BY <1>5, <1>6

\* Telemetry polls keep the invariant.
LEMMA TelemetryInv ==
  ASSUME PollerInv, NEW u \in Uuids,
         TelemetrySuccess(u) \/ TelemetryFailure(u) \/ TelemetrySkip(u)
  PROVE  PollerInv'
<1>0. TypeOK /\ u \in DOMAIN telemetryInFlight
  BY DEF PollerInv, TelemetrySuccess, TelemetryFailure, TelemetrySkip
<1>a. /\ telemetryInFlight[u] \in Nat
      /\ metaByUuid[u].telemetryFailureCount \in Nat
      /\ NextUpdatedAt(powerByUuid, u) \in Nat
      /\ u \in DOMAIN powerByUuid => powerByUuid[u].reading \in Readings
  BY <1>0, TelemetryTask
<1>b. UNCHANGED <<clock, lanVars, stateByUuid, hostVars, pollVars, resolving, requests, tickVars>>
  BY DEF TelemetrySuccess, TelemetryFailure, TelemetrySkip
<1>1. \E due, n \in Nat : EndTelemetry(u, due, n)
  <2>1. CASE TelemetrySuccess(u)
    BY <2>1, <1>a, TelemetryDueType DEF TelemetrySuccess
  <2>2. CASE TelemetryFailure(u)
    <3>. DEFINE n == metaByUuid[u].telemetryFailureCount + 1
    <3>1. n \in Nat
      BY <1>a
    <3>2. EndTelemetry(u, TelemetryDue(telemetryInFlight[u], n), n)
      BY <2>2 DEF TelemetryFailure
    <3>. HIDE DEF n
    <3>. QED BY <1>a, <3>1, <3>2, TelemetryDueType
  <2>3. CASE TelemetrySkip(u)
    <3>1. NOT_A_PLUG_MS \in Nat /\ TELEMETRY_INTERVAL_MS \in Nat
      BY TimesAssumption
    <3>. DEFINE pause == IF NOT_A_PLUG_MS > TELEMETRY_INTERVAL_MS
                         THEN NOT_A_PLUG_MS ELSE TELEMETRY_INTERVAL_MS
    <3>2. telemetryInFlight[u] + pause \in Nat
      BY <1>a, <3>1
    <3>3. EndTelemetry(u, telemetryInFlight[u] + pause, metaByUuid[u].telemetryFailureCount)
      BY <2>3 DEF TelemetrySkip
    <3>. QED BY <1>a, <3>2, <3>3
  <2>. QED BY <2>1, <2>2, <2>3
<1>2. /\ IsMap(metaByUuid', Uuids, PollMeta)
      /\ DOMAIN metaByUuid' = DOMAIN metaByUuid
      /\ IsMap(telemetryInFlight', Uuids, Nat)
      /\ DOMAIN telemetryInFlight' \subseteq DOMAIN telemetryInFlight
  BY <1>0, <1>1, EndTelemetryStep
<1>3. /\ IsMap(powerByUuid', Uuids, DevicePower)
      /\ IsMap(subscribers', SubscriberIds, {subscribers'[s] : s \in DOMAIN subscribers'})
      /\ \A s \in DOMAIN subscribers' : IsSubscriber(subscribers'[s])
  <2>1. CASE TelemetrySuccess(u)
    <3>1. PICK reading \in Readings :
            RecordPower(u, ReadPower(u, reading), ReadingChanged(u, ReadPower(u, reading)))
      BY <2>1 DEF TelemetrySuccess
    <3>2. ReadPower(u, reading) \in DevicePower
      BY <1>0, EntryTypes
    <3>. QED BY <1>0, <3>1, <3>2, RecordPowerType
  <2>2. CASE TelemetryFailure(u)
    <3>1. PICK error \in Errors :
            RecordPower(u, StalePower(u, error), FailureChanged(u, StalePower(u, error)))
      BY <2>2 DEF TelemetryFailure
    <3>2. StalePower(u, error) \in DevicePower
      BY <1>0, EntryTypes
    <3>. QED BY <1>0, <3>1, <3>2, RecordPowerType
  <2>3. CASE TelemetrySkip(u)
    BY <2>3, <1>0 DEF TelemetrySkip, TypeOK
  <2>. QED BY <2>1, <2>2, <2>3
<1>4. TypeOK'
  BY <1>0, <1>b, <1>2, <1>3 DEF TypeOK
<1>. QED BY <1>4, <1>b, <1>2
     DEF PollerInv, InFlightExact, MetaExists, AddressKnown, NoLostWakeup

\* A fresh pollNow call has its type.
LEMMA NewRequestType ==
  ASSUME TypeOK, NEW asked \in SUBSET Uuids, NEW reason \in Reasons
  PROVE  /\ NewRequest(asked, reason) \in Request
         /\ NewRequest(asked, reason).todo = {}
         /\ NewRequest(asked, reason).awaits = EmptyMap
         /\ NewRequest(asked, reason).pc = "sync"
<1>1. EmptyMap \in MapsOf(Uuids, Owners) /\ EmptyMap \in MapsOf(Uuids, Values)
  BY MapsOfIsMap, EmptyIsMap
<1>. QED BY <1>1 DEF NewRequest, Request, TypeOK

\* A new call keeps the bookkeeping, whatever it does to meta.
LEMMA NewCallInv ==
  ASSUME PollerInv, NEW r \in RequestIds, r \notin DOMAIN requests,
         NEW asked \in SUBSET Uuids, NEW reason \in Reasons,
         requests' = Put(requests, r, NewRequest(asked, reason)),
         IsMap(metaByUuid', Uuids, PollMeta),
         DOMAIN metaByUuid \subseteq DOMAIN metaByUuid',
         UNCHANGED <<clock, lanVars, stateByUuid, hostVars, pollVars, powerVars,
                     resolving, subscribers, tickVars>>
  PROVE  PollerInv'
<1>. DEFINE q == NewRequest(asked, reason)
<1>1. q \in Request /\ q.todo = {} /\ DOMAIN q.awaits = {}
  BY NewRequestType, EmptyIsMap DEF PollerInv
<1>. HIDE DEF q
<1>2. IsMap(requests, RequestIds, Request)
  BY DEF PollerInv, TypeOK
<1>3. /\ IsMap(requests', RequestIds, Request)
      /\ DOMAIN requests' = DOMAIN requests \cup {r}
      /\ requests'[r] = q
      /\ \A x \in DOMAIN requests : requests'[x] = requests[x]
  BY <1>1, <1>2 DEF Put, IsMap, q
<1>4. TypeOK'
  BY <1>3 DEF PollerInv, TypeOK
<1>5. NoLostWakeup' /\ MetaExists'
  BY <1>1, <1>3 DEF PollerInv, NoLostWakeup, MetaExists
<1>. QED BY <1>4, <1>5 DEF PollerInv, InFlightExact, AddressKnown

\* A call that arrives waits for nobody yet.
LEMMA PollNowInv ==
  ASSUME PollerInv, NEW r \in RequestIds, NEW asked \in SUBSET Uuids,
         NEW reason \in Reasons, PollNow(r, asked, reason)
  PROVE  PollerInv'
<1>1. IsMap(metaByUuid', Uuids, PollMeta) /\ DOMAIN metaByUuid \subseteq DOMAIN metaByUuid'
  BY DEF PollerInv, TypeOK, PollNow
<1>. QED BY <1>1, NewCallInv DEF PollNow

\* Nor does the call made after a device was changed.
LEMMA ControlDoneInv ==
  ASSUME PollerInv, NEW r \in RequestIds, NEW u \in Uuids, ControlDone(r, u)
  PROVE  PollerInv'
<1>1. TypeOK /\ IsMap(metaByUuid, Uuids, PollMeta)
  BY DEF PollerInv, TypeOK
<1>2. metaByUuid' = BoostDevices(metaByUuid, {u})
  BY DEF ControlDone
<1>3. IsMap(metaByUuid', Uuids, PollMeta) /\ DOMAIN metaByUuid \subseteq DOMAIN metaByUuid'
  BY <1>1, <1>2, BoostType
<1>. QED BY <1>3, NewCallInv DEF ControlDone

\* The first workers of a call wait for tasks that they started or that run already.
LEMMA PollNowResumeInv ==
  ASSUME PollerInv, NEW r \in RequestIds, PollNowResume(r)
  PROVE  PollerInv'
<1>. DEFINE q == requests[r]
            uuids == IF q.asked = {} THEN DOMAIN q.cfg ELSE q.asked
<1>0. TypeOK /\ InFlightExact
  BY DEF PollerInv
<1>1. /\ r \in DOMAIN requests
      /\ knownHosts' = q.cfg /\ lastSyncHostsAt' = clock
      /\ metaByUuid' = BoostDevices(EnsureMeta(metaByUuid, DOMAIN q.cfg), uuids)
      /\ UNCHANGED <<clock, lanVars, stateByUuid, powerVars, resolving, subscribers, tickVars>>
  BY DEF PollNowResume
<1>2. PICK first \in SUBSET uuids :
        /\ PollDevices(r, first, q.reason)
        /\ requests' = [requests EXCEPT ![r] =
             [q EXCEPT !.pc = "work", !.asked = uuids, !.todo = uuids \ first,
                       !.awaits = [u \in first |-> AwaitedOwner(r, u)]]]
  BY DEF PollNowResume
<1>3. q \in Request
  BY <1>1 DEF PollerInv, TypeOK, IsMap
<1>4. q.cfg \in HostMaps /\ q.asked \in SUBSET Uuids /\ q.reason \in Reasons /\ r \in Owners
  BY <1>3 DEF Request, Owners
<1>5. DOMAIN q.cfg \subseteq Uuids
  BY <1>4, MapsOfIsMap DEF HostMaps, IsMap
<1>6. uuids \in SUBSET Uuids
  BY <1>4, <1>5
<1>. HIDE DEF uuids
<1>7. /\ IsMap(metaByUuid', Uuids, PollMeta)
      /\ DOMAIN metaByUuid' = DOMAIN metaByUuid \cup DOMAIN q.cfg \cup uuids
  <2>. DEFINE m == EnsureMeta(metaByUuid, DOMAIN q.cfg)
  <2>1. IsMap(m, Uuids, PollMeta) /\ DOMAIN m = DOMAIN metaByUuid \cup DOMAIN q.cfg
    BY <1>0, <1>5, EnsureMetaType DEF TypeOK
  <2>. HIDE DEF m
  <2>2. /\ IsMap(BoostDevices(m, uuids), Uuids, PollMeta)
        /\ DOMAIN BoostDevices(m, uuids) = DOMAIN m \cup uuids
    BY <1>0, <1>6, <2>1, BoostType
  <2>. QED BY <1>1, <2>1, <2>2 DEF m
<1>8. /\ IsMap(tasks', Owners \X Uuids, Task)
      /\ IsMap(inFlight', Uuids, Owners)
      /\ InFlightExact'
      /\ DOMAIN tasks \subseteq DOMAIN tasks'
      /\ \A k \in DOMAIN tasks : tasks'[k] = tasks[k]
      /\ \A k \in DOMAIN tasks' \ DOMAIN tasks :
           k[1] = r /\ k[2] \in first /\ tasks'[k] = NewTask(q.reason)
      /\ \A u \in first : AwaitedOwner(r, u) \in Owners
                          /\ <<AwaitedOwner(r, u), u>> \in DOMAIN tasks'
  <2>1. first \in SUBSET Uuids
    BY <1>6
  <2>2. PollDevices(r, first, q.reason)
    BY <1>2
  <2>. HIDE DEF q
  <2>3. StartStep(r, first, q.reason)
    BY <1>0, <1>4, <2>1, <2>2, PollDevicesStep
  <2>. QED BY <2>3 DEF StartStep
<1>. DEFINE aw == [u \in first |-> AwaitedOwner(r, u)]
            q2 == [q EXCEPT !.pc = "work", !.asked = uuids, !.todo = uuids \ first,
                            !.awaits = aw]
<1>9. /\ DOMAIN aw = first /\ aw \in MapsOf(Uuids, Owners)
      /\ \A u \in first : <<aw[u], u>> \in DOMAIN tasks'
  <2>1. aw \in [first -> Owners] /\ first \in SUBSET Uuids
    BY <1>6, <1>8
  <2>. QED BY <2>1, <1>8 DEF MapsOf
<1>10. requests' = [requests EXCEPT ![r] = q2]
  BY <1>2
<1>. HIDE DEF aw
<1>11. q2 \in Request /\ q2.todo = uuids \ first /\ q2.awaits = aw
  BY <1>3, <1>6, <1>9 DEF Request
<1>. HIDE DEF q, q2
<1>12. /\ IsMap(requests', RequestIds, Request) /\ DOMAIN requests' = DOMAIN requests
       /\ requests'[r] = q2
       /\ \A x \in DOMAIN requests : x # r => requests'[x] = requests[x]
  BY <1>0, <1>1, <1>10, <1>11 DEF TypeOK, IsMap
<1>13. TypeOK'
  BY <1>0, <1>1, <1>4, <1>7, <1>8, <1>12 DEF TypeOK
<1>14. MetaExists'
  <2>1. DOMAIN metaByUuid \subseteq DOMAIN metaByUuid' /\ uuids \subseteq DOMAIN metaByUuid'
    BY <1>7
  <2>2. \A k \in DOMAIN tasks' : k[2] \in DOMAIN metaByUuid'
    BY <1>8, <2>1 DEF PollerInv, MetaExists
  <2>3. \A x \in DOMAIN requests' : requests'[x].todo \subseteq DOMAIN metaByUuid'
    BY <1>11, <1>12, <2>1 DEF PollerInv, MetaExists
  <2>. QED BY <1>1, <2>1, <2>2, <2>3 DEF PollerInv, MetaExists
<1>15. AddressKnown'
  BY <1>1, <1>8 DEF PollerInv, AddressKnown, NewTask
<1>16. NoLostWakeup'
  BY <1>8, <1>9, <1>11, <1>12 DEF PollerInv, NoLostWakeup
<1>. QED BY <1>8, <1>13, <1>14, <1>15, <1>16 DEF PollerInv

\* So does a worker that takes its next device.
LEMMA WorkerNextInv ==
  ASSUME PollerInv, NEW r \in RequestIds, NEW u \in Uuids, WorkerNext(r, u)
  PROVE  PollerInv'
<1>. DEFINE q == requests[r]
<1>0. TypeOK /\ InFlightExact
  BY DEF PollerInv
<1>1. /\ r \in DOMAIN requests
      /\ UNCHANGED <<clock, lanVars, stateByUuid, metaByUuid, hostVars, powerVars,
                     resolving, subscribers, tickVars>>
  BY DEF WorkerNext
<1>2. PICK v \in q.todo :
        /\ PollDevices(r, {v}, q.reason)
        /\ requests' = [requests EXCEPT ![r] =
             [q EXCEPT !.todo = @ \ {v}, !.ready = @ \ {u},
                       !.awaits = Put(@, v, AwaitedOwner(r, v))]]
  BY DEF WorkerNext
<1>3. q \in Request
  BY <1>1 DEF PollerInv, TypeOK, IsMap
<1>4. /\ q.reason \in Reasons /\ r \in Owners /\ v \in Uuids
      /\ q.awaits \in MapsOf(Uuids, Owners)
  BY <1>3 DEF Request, Owners
<1>5. /\ IsMap(tasks', Owners \X Uuids, Task)
      /\ IsMap(inFlight', Uuids, Owners)
      /\ InFlightExact'
      /\ DOMAIN tasks \subseteq DOMAIN tasks'
      /\ \A k \in DOMAIN tasks : tasks'[k] = tasks[k]
      /\ \A k \in DOMAIN tasks' \ DOMAIN tasks :
           k[1] = r /\ k[2] \in {v} /\ tasks'[k] = NewTask(q.reason)
      /\ AwaitedOwner(r, v) \in Owners
      /\ <<AwaitedOwner(r, v), v>> \in DOMAIN tasks'
  <2>1. {v} \in SUBSET Uuids
    BY <1>4
  <2>2. PollDevices(r, {v}, q.reason)
    BY <1>2
  <2>. HIDE DEF q
  <2>3. StartStep(r, {v}, q.reason)
    BY <1>0, <1>4, <2>1, <2>2, PollDevicesStep
  <2>. QED BY <2>3 DEF StartStep
<1>. DEFINE aw == Put(q.awaits, v, AwaitedOwner(r, v))
            q2 == [q EXCEPT !.todo = q.todo \ {v}, !.ready = q.ready \ {u}, !.awaits = aw]
<1>6. /\ aw \in MapsOf(Uuids, Owners) /\ DOMAIN aw = DOMAIN q.awaits \cup {v}
      /\ \A x \in DOMAIN q.awaits : x # v => aw[x] = q.awaits[x]
      /\ aw[v] = AwaitedOwner(r, v)
  <2>1. IsMap(q.awaits, Uuids, Owners)
    BY <1>4, MapsOfIsMap
  <2>2. IsMap(aw, Uuids, Owners) /\ DOMAIN aw = DOMAIN q.awaits \cup {v}
        /\ (\A x \in DOMAIN q.awaits : x # v => aw[x] = q.awaits[x])
        /\ aw[v] = AwaitedOwner(r, v)
    BY <2>1, <1>4, <1>5 DEF Put, IsMap
  <2>. QED BY <2>2, MapsOfIsMap
<1>7. requests' = [requests EXCEPT ![r] = q2]
  BY <1>2
<1>. HIDE DEF aw
<1>8. q2 \in Request /\ q2.todo = q.todo \ {v} /\ q2.awaits = aw
  BY <1>3, <1>6 DEF Request
<1>. HIDE DEF q2
<1>9. /\ IsMap(requests', RequestIds, Request) /\ DOMAIN requests' = DOMAIN requests
      /\ requests'[r] = q2
      /\ \A x \in DOMAIN requests : x # r => requests'[x] = requests[x]
  BY <1>0, <1>1, <1>7, <1>8 DEF TypeOK, IsMap
<1>10. TypeOK'
  BY <1>0, <1>1, <1>5, <1>9 DEF TypeOK
<1>11. MetaExists'
  <2>1. v \in DOMAIN metaByUuid
    BY <1>1 DEF PollerInv, MetaExists
  <2>2. \A k \in DOMAIN tasks' : k[2] \in DOMAIN metaByUuid
    BY <1>5, <2>1 DEF PollerInv, MetaExists
  <2>3. \A x \in DOMAIN requests' : requests'[x].todo \subseteq DOMAIN metaByUuid
    BY <1>1, <1>8, <1>9 DEF PollerInv, MetaExists
  <2>. QED BY <1>1, <2>2, <2>3 DEF PollerInv, MetaExists
<1>12. AddressKnown'
  BY <1>1, <1>5 DEF PollerInv, AddressKnown, NewTask
<1>13. NoLostWakeup'
  BY <1>1, <1>5, <1>6, <1>8, <1>9 DEF PollerInv, NoLostWakeup
<1>. QED BY <1>5, <1>10, <1>11, <1>12, <1>13 DEF PollerInv

\* A worker that finds the queue empty only leaves ready.
LEMMA WorkerReturnInv ==
  ASSUME PollerInv, NEW r \in RequestIds, NEW u \in Uuids, WorkerReturn(r, u)
  PROVE  PollerInv'
<1>. DEFINE q == requests[r]
            q2 == [q EXCEPT !.ready = q.ready \ {u}]
<1>0. TypeOK /\ IsMap(requests, RequestIds, Request)
  BY DEF PollerInv, TypeOK
<1>1. /\ r \in DOMAIN requests
      /\ requests' = [requests EXCEPT ![r] = q2]
      /\ UNCHANGED <<clock, lanVars, stateByUuid, metaByUuid, hostVars, pollVars,
                     powerVars, resolving, subscribers, tickVars>>
  <2>1. /\ r \in DOMAIN requests
        /\ UNCHANGED <<clock, lanVars, stateByUuid, metaByUuid, hostVars, pollVars,
                       powerVars, resolving, subscribers, tickVars>>
    BY DEF WorkerReturn
  <2>2. requests' = [requests EXCEPT ![r].ready = @ \ {u}]
    BY DEF WorkerReturn
  <2>3. requests' = [requests EXCEPT ![r] = q2]
    BY <2>2
  <2>. QED BY <2>1, <2>3
<1>2. q \in Request
  BY <1>0, <1>1 DEF IsMap
<1>3. q2 \in Request /\ q2.todo = q.todo /\ q2.awaits = q.awaits
  BY <1>2 DEF Request
<1>. HIDE DEF q2
<1>4. /\ IsMap(requests', RequestIds, Request) /\ DOMAIN requests' = DOMAIN requests
      /\ \A x \in DOMAIN requests : /\ requests'[x].todo = requests[x].todo
                                    /\ requests'[x].awaits = requests[x].awaits
  BY <1>0, <1>1, <1>3 DEF IsMap
<1>5. TypeOK'
  BY <1>0, <1>1, <1>4 DEF TypeOK
<1>6. MetaExists' /\ NoLostWakeup'
  BY <1>1, <1>4 DEF PollerInv, MetaExists, NoLostWakeup
<1>. QED BY <1>1, <1>5, <1>6 DEF PollerInv, InFlightExact, AddressKnown

\* A call that returns is forgotten.
LEMMA PollNowReturnInv ==
  ASSUME PollerInv, NEW r \in RequestIds, PollNowReturn(r)
  PROVE  PollerInv'
<1>0. TypeOK /\ IsMap(requests, RequestIds, Request)
  BY DEF PollerInv, TypeOK
<1>1. /\ requests' = Drop(requests, r)
      /\ UNCHANGED <<clock, lanVars, stateByUuid, metaByUuid, hostVars, pollVars,
                     powerVars, resolving, subscribers, tickVars>>
  BY DEF PollNowReturn
<1>2. /\ IsMap(requests', RequestIds, Request)
      /\ \A x \in DOMAIN requests' : x \in DOMAIN requests /\ requests'[x] = requests[x]
  BY <1>0, <1>1 DEF Drop, IsMap
<1>3. TypeOK'
  BY <1>0, <1>1, <1>2 DEF TypeOK
<1>4. MetaExists' /\ NoLostWakeup'
  BY <1>1, <1>2 DEF PollerInv, MetaExists, NoLostWakeup
<1>. QED BY <1>1, <1>3, <1>4 DEF PollerInv, InFlightExact, AddressKnown

-----------------------------------------------------------------------------
(* Resolving hosts, streams and the environment *)

\* A search that finds its device has read the config again.
LEMMA ResolveFoundInv ==
  ASSUME PollerInv, NEW u \in Uuids, NEW host \in Hosts, ResolveFound(u, host)
  PROVE  PollerInv'
<1>. DEFINE found == [pc |-> "write", cfg |-> config, host |-> host]
<1>0. TypeOK /\ IsMap(resolving, Uuids, Resolution)
  BY DEF PollerInv, TypeOK
<1>1. /\ u \in DOMAIN resolving
      /\ UNCHANGED <<clock, lanVars, stateByUuid, metaByUuid, hostVars, pollVars,
                     powerVars, subscribers, requests, tickVars>>
      /\ resolving' = [resolving EXCEPT ![u] = found]
  BY DEF ResolveFound
<1>2. found \in Resolution /\ found.host \in Hosts
  BY <1>0 DEF Resolution, TypeOK
<1>. HIDE DEF found
<1>3. /\ IsMap(resolving', Uuids, Resolution)
      /\ DOMAIN resolving' = DOMAIN resolving
      /\ \A v \in DOMAIN resolving' : resolving'[v] = resolving[v] \/ resolving'[v] = found
  BY <1>0, <1>1, <1>2 DEF IsMap
<1>4. TypeOK'
  BY <1>0, <1>1, <1>3 DEF TypeOK
<1>5. MetaExists' /\ AddressKnown'
  BY <1>1, <1>2, <1>3 DEF PollerInv, MetaExists, AddressKnown
<1>. QED BY <1>1, <1>4, <1>5 DEF PollerInv, InFlightExact, NoLostWakeup

\* A search that ends without a host is forgotten.
LEMMA ResolveGiveUpInv ==
  ASSUME PollerInv, NEW u \in Uuids, ResolveGiveUp(u)
  PROVE  PollerInv'
<1>0. TypeOK /\ IsMap(resolving, Uuids, Resolution)
  BY DEF PollerInv, TypeOK
<1>1. /\ UNCHANGED <<clock, lanVars, stateByUuid, metaByUuid, hostVars, pollVars,
                     powerVars, subscribers, requests, tickVars>>
      /\ resolving' = Drop(resolving, u)
  BY DEF ResolveGiveUp
<1>2. /\ IsMap(resolving', Uuids, Resolution)
      /\ DOMAIN resolving' \subseteq DOMAIN resolving
      /\ \A v \in DOMAIN resolving' : resolving'[v] = resolving[v]
  BY <1>0, <1>1 DEF Drop, IsMap
<1>3. TypeOK'
  BY <1>0, <1>1, <1>2 DEF TypeOK
<1>4. MetaExists' /\ AddressKnown'
  BY <1>1, <1>2 DEF PollerInv, MetaExists, AddressKnown
<1>. QED BY <1>1, <1>3, <1>4 DEF PollerInv, InFlightExact, NoLostWakeup

\* A host added to a map of hosts.
LEMMA HostAdded ==
  ASSUME NEW h \in HostMaps, NEW u \in Uuids, NEW host \in Hosts
  PROVE  Put(h, u, host) \in HostMaps
<1>1. IsMap(h, Uuids, Hosts)
  BY MapsOfIsMap DEF HostMaps
<1>2. IsMap(Put(h, u, host), Uuids, Hosts)
  BY <1>1 DEF Put, IsMap
<1>. QED BY <1>2, MapsOfIsMap DEF HostMaps

\* Storing the host that was found in the file.
LEMMA ResolveWriteInv ==
  ASSUME PollerInv, NEW u \in Uuids, ResolveWrite(u)
  PROVE  PollerInv'
<1>. DEFINE r == resolving[u]
            w == [r EXCEPT !.pc = "written"]
<1>0. TypeOK /\ IsMap(resolving, Uuids, Resolution)
  BY DEF PollerInv, TypeOK
<1>1. /\ u \in DOMAIN resolving /\ r.pc = "write"
      /\ config' = Put(r.cfg, u, r.host)
      /\ resolving' = [resolving EXCEPT ![u] = w]
      /\ UNCHANGED <<clock, device, stateByUuid, metaByUuid, hostVars, pollVars,
                     powerVars, subscribers, requests, tickVars>>
  BY DEF ResolveWrite
<1>2. r.host \in Hosts
  BY <1>1 DEF PollerInv, AddressKnown
<1>3. r \in Resolution
  BY <1>0, <1>1 DEF IsMap
<1>4. w \in Resolution /\ w.host = r.host /\ r.cfg \in HostMaps
  BY <1>3 DEF Resolution
<1>. HIDE DEF r, w
<1>5. config' \in HostMaps
  BY <1>1, <1>2, <1>4, HostAdded
<1>6. /\ IsMap(resolving', Uuids, Resolution)
      /\ DOMAIN resolving' = DOMAIN resolving
      /\ \A v \in DOMAIN resolving' : resolving'[v] = resolving[v] \/ resolving'[v] = w
  BY <1>0, <1>1, <1>4 DEF IsMap
<1>7. TypeOK'
  BY <1>0, <1>1, <1>5, <1>6 DEF TypeOK
<1>8. MetaExists' /\ AddressKnown'
  BY <1>1, <1>2, <1>4, <1>6 DEF PollerInv, MetaExists, AddressKnown
<1>. QED BY <1>1, <1>7, <1>8 DEF PollerInv, InFlightExact, NoLostWakeup

\* Using the host that was stored.
LEMMA ResolveDoneInv ==
  ASSUME PollerInv, NEW u \in Uuids, ResolveDone(u)
  PROVE  PollerInv'
<1>. DEFINE r == resolving[u]
            m == [metaByUuid[u] EXCEPT !.boostUntilAt = clock + BOOST_WINDOW_MS,
                                       !.nextDueAt = clock]
<1>0. /\ TypeOK /\ IsMap(resolving, Uuids, Resolution) /\ IsMap(metaByUuid, Uuids, PollMeta)
      /\ knownHosts \in HostMaps
  BY DEF PollerInv, TypeOK
<1>1. /\ u \in DOMAIN resolving /\ r.pc = "written"
      /\ knownHosts' = Put(knownHosts, u, r.host)
      /\ metaByUuid' = [metaByUuid EXCEPT ![u] = m]
      /\ resolving' = Drop(resolving, u)
      /\ UNCHANGED <<clock, lanVars, stateByUuid, lastSyncHostsAt, pollVars,
                     powerVars, subscribers, requests, tickVars>>
  BY DEF ResolveDone
<1>2. r.host \in Hosts /\ u \in DOMAIN metaByUuid
  BY <1>1 DEF PollerInv, AddressKnown, MetaExists
<1>4. knownHosts' \in HostMaps
  BY <1>0, <1>1, <1>2, HostAdded
<1>5. clock + BOOST_WINDOW_MS \in Nat /\ clock \in Nat
  BY <1>0, BoostTime
<1>6. metaByUuid[u] \in PollMeta
  BY <1>0, <1>2 DEF IsMap
<1>7. m \in PollMeta
  BY <1>5, <1>6 DEF PollMeta
<1>. HIDE DEF r, m
<1>8. IsMap(metaByUuid', Uuids, PollMeta) /\ DOMAIN metaByUuid' = DOMAIN metaByUuid
  BY <1>0, <1>1, <1>2, <1>7 DEF IsMap
<1>9. /\ IsMap(resolving', Uuids, Resolution)
      /\ DOMAIN resolving' \subseteq DOMAIN resolving
      /\ \A v \in DOMAIN resolving' : resolving'[v] = resolving[v]
  BY <1>0, <1>1 DEF Drop, IsMap
<1>10. TypeOK'
  BY <1>0, <1>1, <1>4, <1>8, <1>9 DEF TypeOK
<1>11. MetaExists' /\ AddressKnown'
  BY <1>1, <1>8, <1>9 DEF PollerInv, MetaExists, AddressKnown
<1>. QED BY <1>1, <1>10, <1>11 DEF PollerInv, InFlightExact, NoLostWakeup

\* Streams come and go.
LEMMA StreamInv ==
  ASSUME PollerInv, NEW s \in SubscriberIds, CreateStream(s) \/ CancelStream(s)
  PROVE  PollerInv'
<1>. DEFINE new == [states |-> stateByUuid, power |-> powerByUuid]
<1>0. /\ TypeOK /\ DOMAIN subscribers \subseteq SubscriberIds
      /\ \A x \in DOMAIN subscribers : IsSubscriber(subscribers[x])
  BY DEF PollerInv, TypeOK, IsMap
<1>1. /\ UNCHANGED <<clock, lanVars, stateByUuid, metaByUuid, hostVars, pollVars,
                     powerVars, resolving, requests, tickVars>>
      /\ \/ subscribers' = Put(subscribers, s, new)
         \/ subscribers' = Drop(subscribers, s)
  BY DEF CreateStream, CancelStream
<1>2. IsSubscriber(new)
  BY <1>0 DEF IsSubscriber, TypeOK
<1>. HIDE DEF new
<1>3. /\ DOMAIN subscribers' \subseteq SubscriberIds
      /\ \A x \in DOMAIN subscribers' : subscribers'[x] = new \/
           (x \in DOMAIN subscribers /\ subscribers'[x] = subscribers[x])
      /\ subscribers' = [x \in DOMAIN subscribers' |-> subscribers'[x]]
  BY <1>0, <1>1 DEF Put, Drop
<1>4. /\ IsMap(subscribers', SubscriberIds, {subscribers'[x] : x \in DOMAIN subscribers'})
      /\ \A x \in DOMAIN subscribers' : IsSubscriber(subscribers'[x])
  BY <1>0, <1>2, <1>3 DEF IsMap
<1>5. TypeOK'
  BY <1>0, <1>1, <1>4 DEF TypeOK
<1>. QED BY <1>1, <1>5
     DEF PollerInv, InFlightExact, MetaExists, AddressKnown, NoLostWakeup

\* The clock, the config file and the devices change by themselves.
LEMMA EnvironmentInv ==
  ASSUME PollerInv,
         \/ ClockAdvances \/ ClockSetBack
         \/ \E hosts \in HostMaps : ConfigChanges(hosts)
         \/ \E host \in Hosts, val \in Values : DeviceChanges(host, val)
  PROVE  PollerInv'
<1>0. TypeOK
  BY DEF PollerInv
<1>1. UNCHANGED <<stateByUuid, metaByUuid, hostVars, pollVars, powerVars, resolving,
                  subscribers, requests, tickVars>>
  BY DEF ClockAdvances, ClockSetBack, SetClock, ConfigChanges, DeviceChanges
<1>2. clock' \in Nat /\ clock' >= Epoch
  <2>1. Epoch \in Nat /\ clock \in Nat /\ clock >= Epoch
    BY <1>0, TimesAssumption DEF TypeOK
  <2>2. CASE ClockAdvances
    BY <2>1, <2>2 DEF ClockAdvances, SetClock
  <2>3. CASE ClockSetBack
    BY <2>1, <2>3 DEF ClockSetBack, SetClock
  <2>4. CASE \E hosts \in HostMaps : ConfigChanges(hosts)
    BY <2>1, <2>4 DEF ConfigChanges
  <2>5. CASE \E host \in Hosts, val \in Values : DeviceChanges(host, val)
    BY <2>1, <2>5 DEF DeviceChanges
  <2>. QED BY <2>2, <2>3, <2>4, <2>5
<1>3. config' \in HostMaps /\ device' \in [Hosts -> Values]
  BY <1>0 DEF TypeOK, ClockAdvances, ClockSetBack, SetClock, ConfigChanges,
              DeviceChanges, lanVars
<1>4. TypeOK'
  BY <1>0, <1>1, <1>2, <1>3 DEF TypeOK
<1>. QED BY <1>1, <1>4
     DEF PollerInv, InFlightExact, MetaExists, AddressKnown, NoLostWakeup

-----------------------------------------------------------------------------
(* The tick timer *)

\* What the loops of tick start, whatever is due: polls and telemetry of devices
\* that have a PollMeta.
LEMMA TickScheduleStep ==
  ASSUME TypeOK, InFlightExact, NEW known, NEW metas, IsMap(metas, Uuids, PollMeta),
         TickSchedule(known, metas)
  PROVE  /\ \E S \in SUBSET DOMAIN metas : StartStep(Poller, S, "poller")
         /\ IsMap(telemetryInFlight', Uuids, Nat)
         /\ DOMAIN telemetryInFlight' \subseteq DOMAIN telemetryInFlight \cup DOMAIN metas
<1>0. DOMAIN metas \subseteq Uuids
  BY DEF IsMap
<1>1. PICK S \in SUBSET DOMAIN metas : PollDevices(Poller, S, "poller")
  BY DEF TickSchedule, Pollable
<1>2. PICK T \in SUBSET DOMAIN metas : telemetryInFlight' = PutAll(telemetryInFlight, T, clock)
  BY DEF TickSchedule, Pollable
<1>3. StartStep(Poller, S, "poller")
  <2>1. Poller \in Owners /\ S \in SUBSET Uuids /\ "poller" \in Reasons
    BY <1>0 DEF Owners
  <2>. QED BY <1>1, <2>1, PollDevicesStep
<1>4. /\ IsMap(telemetryInFlight', Uuids, Nat)
      /\ DOMAIN telemetryInFlight' \subseteq DOMAIN telemetryInFlight \cup DOMAIN metas
  <2>1. IsMap(telemetryInFlight, Uuids, Nat) /\ clock \in Nat
    BY DEF TypeOK
  <2>. QED BY <1>0, <1>2, <2>1 DEF PutAll, IsMap
<1>. QED BY <1>3, <1>4

\* Scheduling keeps the bookkeeping when the metas it looks at cover the old ones.
LEMMA TickScheduleInv ==
  ASSUME PollerInv, TickSchedule(knownHosts', metaByUuid'),
         IsMap(metaByUuid', Uuids, PollMeta),
         DOMAIN metaByUuid \subseteq DOMAIN metaByUuid',
         knownHosts' \in HostMaps, lastSyncHostsAt' \in Nat,
         tickBusy' \in BOOLEAN, tickCfg' \in HostMaps,
         UNCHANGED <<clock, lanVars, stateByUuid, powerByUuid, resolving,
                     subscribers, requests>>
  PROVE  PollerInv'
<1>0. TypeOK /\ InFlightExact
  BY DEF PollerInv
<1>1. /\ \E S \in SUBSET DOMAIN metaByUuid' : StartStep(Poller, S, "poller")
      /\ IsMap(telemetryInFlight', Uuids, Nat)
      /\ DOMAIN telemetryInFlight' \subseteq DOMAIN telemetryInFlight \cup DOMAIN metaByUuid'
  BY <1>0, TickScheduleStep
<1>2. PICK S \in SUBSET DOMAIN metaByUuid' : StartStep(Poller, S, "poller")
  BY <1>1
<1>3. /\ IsMap(tasks', Owners \X Uuids, Task)
      /\ IsMap(inFlight', Uuids, Owners)
      /\ InFlightExact'
      /\ DOMAIN tasks \subseteq DOMAIN tasks'
      /\ \A k \in DOMAIN tasks : tasks'[k] = tasks[k]
      /\ \A k \in DOMAIN tasks' \ DOMAIN tasks : k[2] \in S /\ tasks'[k] = NewTask("poller")
  BY <1>2 DEF StartStep
<1>4. TypeOK'
  BY <1>0, <1>1, <1>3 DEF TypeOK
<1>5. MetaExists'
  BY <1>1, <1>3 DEF PollerInv, MetaExists
<1>6. AddressKnown'
  BY <1>3 DEF PollerInv, AddressKnown, NewTask
<1>7. NoLostWakeup'
  BY <1>3 DEF PollerInv, NoLostWakeup
<1>. QED BY <1>3, <1>4, <1>5, <1>6, <1>7 DEF PollerInv

\* A tick that waits for its config only says so.
LEMMA TickSyncInv ==
  ASSUME PollerInv, TickSync
  PROVE  PollerInv'
<1>0. TypeOK
  BY DEF PollerInv
<1>1. UNCHANGED <<clock, lanVars, stateByUuid, metaByUuid, hostVars, pollVars,
                  powerVars, resolving, subscribers, requests>>
  BY DEF TickSync
<1>2. tickBusy' \in BOOLEAN
  BY DEF TickSync
<1>3. tickCfg' \in HostMaps
  BY <1>0 DEF TickSync, TypeOK
<1>4. TypeOK'
  BY <1>0, <1>1, <1>2, <1>3 DEF TypeOK
<1>. QED BY <1>1, <1>4
     DEF PollerInv, InFlightExact, MetaExists, AddressKnown, NoLostWakeup

\* A tick that has the hosts of its config.
LEMMA TickResumeInv ==
  ASSUME PollerInv, TickResume
  PROVE  PollerInv'
<1>0. TypeOK /\ IsMap(metaByUuid, Uuids, PollMeta) /\ tickCfg \in HostMaps /\ clock \in Nat
  BY DEF PollerInv, TypeOK
<1>1. DOMAIN tickCfg \in SUBSET Uuids
  BY <1>0, MapsOfIsMap DEF HostMaps, IsMap
<1>2. /\ knownHosts' = tickCfg /\ lastSyncHostsAt' = clock /\ tickCfg' = EmptyMap
      /\ metaByUuid' = EnsureMeta(metaByUuid, DOMAIN tickCfg)
      /\ TickSchedule(knownHosts', metaByUuid')
      /\ UNCHANGED <<clock, lanVars, stateByUuid, powerByUuid, resolving,
                     subscribers, requests>>
  BY DEF TickResume
<1>3. tickBusy' \in BOOLEAN
  BY DEF TickResume
<1>4. tickCfg' \in HostMaps
  BY <1>2, EmptyIsMap, MapsOfIsMap DEF HostMaps
<1>5. IsMap(metaByUuid', Uuids, PollMeta) /\ DOMAIN metaByUuid \subseteq DOMAIN metaByUuid'
  <2>1. /\ IsMap(EnsureMeta(metaByUuid, DOMAIN tickCfg), Uuids, PollMeta)
        /\ DOMAIN EnsureMeta(metaByUuid, DOMAIN tickCfg) = DOMAIN metaByUuid \cup DOMAIN tickCfg
    BY <1>0, <1>1, EnsureMetaType
  <2>. QED BY <1>2, <2>1
<1>. QED BY <1>0, <1>2, <1>3, <1>4, <1>5, TickScheduleInv

\* A tick between two syncs.
LEMMA TickNoSyncInv ==
  ASSUME PollerInv, TickNoSync
  PROVE  PollerInv'
<1>0. /\ TypeOK /\ IsMap(metaByUuid, Uuids, PollMeta) /\ knownHosts \in HostMaps
      /\ lastSyncHostsAt \in Nat /\ tickCfg \in HostMaps
  BY DEF PollerInv, TypeOK
<1>1. /\ TickSchedule(knownHosts, metaByUuid)
      /\ UNCHANGED <<clock, lanVars, stateByUuid, metaByUuid, hostVars, powerByUuid,
                     resolving, subscribers, requests, tickVars>>
  BY DEF TickNoSync
<1>2. metaByUuid' = metaByUuid /\ knownHosts' = knownHosts /\ lastSyncHostsAt' = lastSyncHostsAt
      /\ tickCfg' = tickCfg
  BY <1>1 DEF hostVars, tickVars
<1>3. TickSchedule(knownHosts', metaByUuid')
  BY <1>1, <1>2
<1>4. tickBusy' \in BOOLEAN
  BY <1>1 DEF PollerInv, TypeOK, tickVars
<1>. QED BY <1>0, <1>1, <1>2, <1>3, <1>4, TickScheduleInv

-----------------------------------------------------------------------------
(* The bookkeeping invariant is inductive *)

\* Every step keeps the invariant.
LEMMA NextInv ==
  ASSUME PollerInv, [Next]_vars
  PROVE  PollerInv'
<1>1. CASE UNCHANGED vars
  BY <1>1 DEF PollerInv, TypeOK, InFlightExact, MetaExists, AddressKnown, NoLostWakeup,
              vars
<1>2. CASE TickSync \/ TickResume \/ TickNoSync
  BY <1>2, TickSyncInv, TickResumeInv, TickNoSyncInv
<1>3. CASE \E o \in Owners, u \in Uuids :
             PollReadConfig(o, u) \/ LanAnswer(o, u) \/ PollSuccess(o, u) \/ PollFailure(o, u)
  BY <1>3, PollReadConfigInv, LanAnswerInv, PollSuccessInv, PollFailureInv
<1>4. CASE \E u \in Uuids : TelemetrySuccess(u) \/ TelemetryFailure(u) \/ TelemetrySkip(u)
  BY <1>4, TelemetryInv
<1>5. CASE \E u \in Uuids : ResolveWrite(u) \/ ResolveDone(u)
  BY <1>5, ResolveWriteInv, ResolveDoneInv
<1>6. CASE \E u \in Uuids : ResolveGiveUp(u)
  BY <1>6, ResolveGiveUpInv
<1>7. CASE \E u \in Uuids, host \in Hosts : ResolveFound(u, host)
  BY <1>7, ResolveFoundInv
<1>8. CASE \E r \in RequestIds : PollNowResume(r) \/ PollNowReturn(r)
  BY <1>8, PollNowResumeInv, PollNowReturnInv
<1>9. CASE \E r \in RequestIds, asked \in SUBSET Uuids, reason \in Reasons :
             PollNow(r, asked, reason)
  BY <1>9, PollNowInv
<1>10. CASE \E r \in RequestIds, u \in Uuids :
              ControlDone(r, u) \/ WorkerNext(r, u) \/ WorkerReturn(r, u)
  BY <1>10, ControlDoneInv, WorkerNextInv, WorkerReturnInv
<1>11. CASE \E s \in SubscriberIds : CreateStream(s) \/ CancelStream(s)
  BY <1>11, StreamInv
<1>12. CASE \/ ClockAdvances \/ ClockSetBack
            \/ \E hosts \in HostMaps : ConfigChanges(hosts)
            \/ \E host \in Hosts, val \in Values : DeviceChanges(host, val)
  BY <1>12, EnvironmentInv
<1>. QED BY <1>1, <1>2, <1>3, <1>4, <1>5, <1>6, <1>7, <1>8, <1>9, <1>10, <1>11, <1>12
         DEF Next

\* A run never leaves the bookkeeping invariant.
THEOREM PollerInvariant == Spec => []PollerInv
BY InitInv, NextInv, PTL DEF Spec

\* Type correctness: whatever order polls, joins, resolutions, streams and clock
\* corrections come in, every map of the service holds entries of its type.
THEOREM TypeCorrect == Spec => []TypeOK
<1>1. PollerInv => TypeOK
  BY DEF PollerInv
<1>. QED BY <1>1, PollerInvariant, PTL

\* No two pollDevice tasks run for one device at a time, for any number of
\* devices and of concurrent pollNow calls.
THEOREM SingleFlightAlways == Spec => []SingleFlight
<1>1. PollerInv => SingleFlight
  <2>. SUFFICES ASSUME PollerInv, NEW j \in DOMAIN tasks, NEW k \in DOMAIN tasks,
                       j[2] = k[2]
                PROVE  j = k
    BY DEF SingleFlight
  <2>1. j = <<j[1], j[2]>> /\ k = <<k[1], k[2]>>
    BY DEF PollerInv, TypeOK, IsMap
  <2>2. j[1] = k[1]
    BY DEF PollerInv, InFlightExact
  <2>. QED BY <2>1, <2>2
<1>. QED BY <1>1, PollerInvariant, PTL

\* A pollNow worker only ever waits for a task that is running.
THEOREM NoLostWakeupAlways == Spec => []NoLostWakeup
<1>1. PollerInv => NoLostWakeup
  BY DEF PollerInv
<1>. QED BY <1>1, PollerInvariant, PTL

-----------------------------------------------------------------------------
(* What a pollNow call still has to answer, and how many polls it runs *)

\* Every uuid of a pollNow call is in one place: queued, awaited by a worker, or
\* answered by a state or an error; and while uuids are queued a worker is left
\* to take them.
CallExact(q) ==
  /\ q.pc = "sync" =>
       /\ q.todo = {} /\ DOMAIN q.awaits = {} /\ q.ready = {}
       /\ DOMAIN q.states = {} /\ q.errors = {}
  /\ q.pc = "work" =>
       /\ q.asked = q.todo \cup DOMAIN q.awaits \cup DOMAIN q.states \cup q.errors
       /\ q.todo \cap DOMAIN q.awaits = {}
       /\ (q.todo \cup DOMAIN q.awaits) \cap (DOMAIN q.states \cup q.errors) = {}
       /\ DOMAIN q.states \cap q.errors = {}
       /\ q.ready \subseteq DOMAIN q.states \cup q.errors
       /\ q.todo = {} \/ DOMAIN q.awaits \cup q.ready # {}

\* No more workers than the limit: each waits for one uuid or is about to resume.
CallWithinCap(q) == Cardinality(DOMAIN q.awaits \cup q.ready) <= POLL_MAX_CONCURRENCY

\* A task that a pollNow call started is one that the call awaits.
OwnAwaited ==
  \A r \in RequestIds, u \in Uuids : <<r, u>> \in DOMAIN tasks =>
    r \in DOMAIN requests /\ u \in DOMAIN requests[r].awaits

\* The polls that owner o has running.
Owned(o) == {u \in Uuids : <<o, u>> \in DOMAIN tasks}

\* The inductive invariant of the calls, beside PollerInv.
CallInv ==
  /\ \A r \in DOMAIN requests : CallExact(requests[r]) /\ CallWithinCap(requests[r])
  /\ OwnAwaited
  /\ Cardinality(Owned(Poller)) <= POLL_MAX_CONCURRENCY

\* Sets of uuids are finite and a part has no more elements than the whole.
LEMMA UuidSets ==
  ASSUME NEW S \in SUBSET Uuids
  PROVE  /\ IsFiniteSet(S) /\ Cardinality(S) \in Nat
         /\ \A T \in SUBSET S : Cardinality(T) \in Nat /\ Cardinality(T) <= Cardinality(S)
<1>1. IsFiniteSet(S)
  BY NamesAssumption, FS_Subset
<1>2. \A T \in SUBSET S : IsFiniteSet(T) /\ Cardinality(T) <= Cardinality(S)
  BY <1>1, FS_Subset
<1>. QED BY <1>1, <1>2, FS_CardinalityType

\* Steps that touch neither the calls nor the set of running tasks.
LEMMA FramedCalls ==
  ASSUME CallInv, requests' = requests, DOMAIN tasks' = DOMAIN tasks
  PROVE  CallInv'
BY DEF CallInv, OwnAwaited, Owned, CallExact, CallWithinCap

\* The loop of the tick adds to the timer's own polls only while all polls in
\* flight, its own among them, are below the limit.
LEMMA TickCalls ==
  ASSUME PollerInv, CallInv, requests' = requests, NEW known, NEW metas,
         IsMap(metas, Uuids, PollMeta), TickSchedule(known, metas)
  PROVE  CallInv'
<1>0. /\ TypeOK /\ InFlightExact /\ IsMap(inFlight, Uuids, Owners)
      /\ IsMap(tasks, Owners \X Uuids, Task)
  BY DEF PollerInv, TypeOK
<1>1. PICK S \in SUBSET DOMAIN metas :
        /\ S = {} \/ Cardinality(DOMAIN inFlight) + Cardinality(S) <= POLL_MAX_CONCURRENCY
        /\ PollDevices(Poller, S, "poller")
  BY DEF TickSchedule, Pollable, StartedByLoop
<1>2. S \in SUBSET Uuids /\ Poller \in Owners /\ DOMAIN inFlight \in SUBSET Uuids
  BY <1>0 DEF IsMap, Owners
<1>r. "poller" \in Reasons
  BY DEF Reasons
<1>3. StartStep(Poller, S, "poller")
  BY <1>0, <1>1, <1>2, <1>r, PollDevicesStep
<1>4. /\ DOMAIN tasks \subseteq DOMAIN tasks'
      /\ \A k \in DOMAIN tasks' \ DOMAIN tasks : k[1] = Poller /\ k[2] \in S
  BY <1>3 DEF StartStep
<1>5. OwnAwaited'
  <2>. SUFFICES ASSUME NEW r \in RequestIds, NEW u \in Uuids, <<r, u>> \in DOMAIN tasks'
                PROVE  r \in DOMAIN requests /\ u \in DOMAIN requests[r].awaits
    BY DEF OwnAwaited
  <2>1. <<r, u>> \in DOMAIN tasks
    BY <1>4, NamesAssumption
  <2>. QED BY <2>1 DEF CallInv, OwnAwaited
<1>6. Cardinality(Owned(Poller)') <= POLL_MAX_CONCURRENCY
  <2>1. CASE S = {}
    <3>1. DOMAIN tasks' = DOMAIN tasks
      BY <1>4, <2>1
    <3>. QED BY <3>1 DEF CallInv, Owned
  <2>2. CASE S # {}
    <3>. DEFINE F == DOMAIN inFlight
    <3>1. Owned(Poller)' \in SUBSET (F \cup S)
      BY <1>4 DEF Owned, PollerInv, InFlightExact
    <3>2. IsFiniteSet(F) /\ IsFiniteSet(S) /\ F \cup S \in SUBSET Uuids
      BY <1>2, UuidSets
    <3>3. Cardinality(F) \in Nat /\ Cardinality(S) \in Nat
      BY <1>2, UuidSets
    <3>4. /\ Cardinality(F \cup S) = Cardinality(F) + Cardinality(S) - Cardinality(F \cap S)
      BY <3>2, FS_Union
    <3>5. Cardinality(F \cap S) \in Nat /\ Cardinality(F \cup S) \in Nat
      BY <1>2, UuidSets
    <3>6. /\ Cardinality(Owned(Poller)') \in Nat
          /\ Cardinality(Owned(Poller)') <= Cardinality(F \cup S)
      BY <3>1, <3>2, UuidSets
    <3>7. Cardinality(F) + Cardinality(S) <= POLL_MAX_CONCURRENCY
      BY <1>1, <2>2
    <3>. HIDE DEF F
    <3>. QED BY <3>3, <3>4, <3>5, <3>6, <3>7, TimesAssumption
  <2>. QED BY <2>1, <2>2
<1>7. \A r \in DOMAIN requests' : CallExact(requests'[r]) /\ CallWithinCap(requests'[r])
  BY DEF CallInv
<1>. QED BY <1>5, <1>6, <1>7 DEF CallInv, CallExact, CallWithinCap

\* What the end of a task does to a call that awaited it: the uuid is answered by
\* a state or by an error, and its worker is about to resume.
Answered(q, q2, u) ==
  /\ q2.pc = q.pc /\ q2.asked = q.asked /\ q2.todo = q.todo
  /\ DOMAIN q2.awaits = DOMAIN q.awaits \ {u}
  /\ q2.ready = q.ready \cup {u}
  /\ \/ DOMAIN q2.states = DOMAIN q.states \cup {u} /\ q2.errors = q.errors
     \/ DOMAIN q2.states = DOMAIN q.states /\ q2.errors = q.errors \cup {u}

\* A finishing task answers those who await it and nobody else.
LEMMA DeliveryAnswers ==
  ASSUME TypeOK, NEW o \in Owners, NEW u \in Uuids,
         DeliverError(o, u) \/ \E v : DeliverState(o, u, v)
  PROVE  /\ DOMAIN requests' = DOMAIN requests
         /\ \A r \in DOMAIN requests :
              IF Awaiting(r, o, u) THEN Answered(requests[r], requests'[r], u)
                                   ELSE requests'[r] = requests[r]
<1>1. \A r \in DOMAIN requests : requests[r] \in Request
  BY DEF TypeOK, IsMap
<1>2. CASE DeliverError(o, u)
  <2>1. /\ DOMAIN requests' = DOMAIN requests
        /\ \A r \in DOMAIN requests :
             requests'[r] = IF Awaiting(r, o, u)
                            THEN [Delivered(requests[r], u) EXCEPT !.errors = @ \cup {u}]
                            ELSE requests[r]
    BY <1>2 DEF DeliverError
  <2>2. ASSUME NEW q \in Request
        PROVE  Answered(q, [Delivered(q, u) EXCEPT !.errors = @ \cup {u}], u)
    <3>. DEFINE d == Delivered(q, u)
    <3>1. d \in Request /\ d.todo = q.todo /\ d.awaits = Drop(q.awaits, u) /\ d.states = q.states
          /\ d.errors = q.errors /\ d.ready = q.ready \cup {u} /\ d.asked = q.asked /\ d.pc = q.pc
      BY DeliveredType
    <3>2. DOMAIN d.awaits = DOMAIN q.awaits \ {u}
      BY <3>1 DEF Drop
    <3>. HIDE DEF d
    <3>3. Answered(q, [d EXCEPT !.errors = @ \cup {u}], u)
      BY <3>1, <3>2 DEF Answered, Request
    <3>. QED BY <3>3 DEF d
  <2>. QED BY <1>1, <2>1, <2>2
<1>3. ASSUME NEW v, DeliverState(o, u, v)
      PROVE  /\ DOMAIN requests' = DOMAIN requests
             /\ \A r \in DOMAIN requests :
                  IF Awaiting(r, o, u) THEN Answered(requests[r], requests'[r], u)
                                       ELSE requests'[r] = requests[r]
  <2>1. /\ DOMAIN requests' = DOMAIN requests
        /\ \A r \in DOMAIN requests :
             requests'[r] = IF Awaiting(r, o, u)
                            THEN [Delivered(requests[r], u) EXCEPT !.states = Put(@, u, v)]
                            ELSE requests[r]
    BY <1>3 DEF DeliverState
  <2>2. ASSUME NEW q \in Request
        PROVE  Answered(q, [Delivered(q, u) EXCEPT !.states = Put(@, u, v)], u)
    <3>. DEFINE d == Delivered(q, u)
    <3>1. d \in Request /\ d.todo = q.todo /\ d.awaits = Drop(q.awaits, u) /\ d.states = q.states
          /\ d.errors = q.errors /\ d.ready = q.ready \cup {u} /\ d.asked = q.asked /\ d.pc = q.pc
      BY DeliveredType
    <3>2. DOMAIN d.awaits = DOMAIN q.awaits \ {u} /\ DOMAIN Put(d.states, u, v) = DOMAIN q.states \cup {u}
      BY <3>1 DEF Drop, Put
    <3>. HIDE DEF d
    <3>3. Answered(q, [d EXCEPT !.states = Put(@, u, v)], u)
      BY <3>1, <3>2 DEF Answered, Request
    <3>. QED BY <3>3 DEF d
  <2>. QED BY <1>1, <2>1, <2>2
<1>. QED BY <1>2, <1>3

\* The end of a poll moves its uuid from the awaited to the answered ones in every
\* call that joined it.
LEMMA EndCalls ==
  ASSUME PollerInv, CallInv, NEW o \in Owners, NEW u \in Uuids,
         PollSuccess(o, u) \/ PollFailure(o, u)
  PROVE  CallInv'
<1>1. <<o, u>> \in DOMAIN tasks /\ EndTask(o, u) /\ TypeOK /\ InFlightExact
  BY DEF PollSuccess, PollFailure, PollerInv
<1>2. DeliverError(o, u) \/ \E v : DeliverState(o, u, v)
  BY DEF PollSuccess, PollFailure
<1>3. /\ DOMAIN requests' = DOMAIN requests
      /\ \A r \in DOMAIN requests :
           IF Awaiting(r, o, u) THEN Answered(requests[r], requests'[r], u)
                                ELSE requests'[r] = requests[r]
  BY <1>1, <1>2, DeliveryAnswers
<1>4. DOMAIN tasks' = DOMAIN tasks \ {<<o, u>>}
  BY <1>1, EndTaskStep
<1>5. ASSUME NEW r \in DOMAIN requests, Awaiting(r, o, u)
      PROVE  CallExact(requests'[r]) /\ CallWithinCap(requests'[r])
  <2>1. Answered(requests[r], requests'[r], u) /\ u \in DOMAIN requests[r].awaits
    BY <1>3, <1>5 DEF Awaiting
  <2>2. CallExact(requests[r]) /\ CallWithinCap(requests[r])
    BY DEF CallInv
  <2>3. requests[r].pc \in {"sync", "work"}
    BY <1>1 DEF TypeOK, IsMap, Request
  <2>4. CallExact(requests'[r])
    BY <2>1, <2>2, <2>3 DEF Answered, CallExact
  <2>5. DOMAIN requests'[r].awaits \cup requests'[r].ready
          = DOMAIN requests[r].awaits \cup requests[r].ready
    BY <2>1 DEF Answered
  <2>. QED BY <2>2, <2>4, <2>5 DEF CallWithinCap
<1>6. \A r \in DOMAIN requests' : CallExact(requests'[r]) /\ CallWithinCap(requests'[r])
  BY <1>3, <1>5 DEF CallInv
<1>7. OwnAwaited'
  <2>. SUFFICES ASSUME NEW r \in RequestIds, NEW v \in Uuids, <<r, v>> \in DOMAIN tasks'
                PROVE  r \in DOMAIN requests' /\ v \in DOMAIN requests'[r].awaits
    BY DEF OwnAwaited
  <2>1. <<r, v>> \in DOMAIN tasks /\ <<r, v>> # <<o, u>>
    BY <1>4
  <2>2. r \in DOMAIN requests /\ v \in DOMAIN requests[r].awaits
    BY <2>1 DEF CallInv, OwnAwaited
  <2>3. v # u
    BY <1>1, <2>1 DEF InFlightExact
  <2>. QED BY <1>3, <2>2, <2>3 DEF Answered
<1>8. Cardinality(Owned(Poller)') <= POLL_MAX_CONCURRENCY
  <2>1. Owned(Poller)' \in SUBSET Owned(Poller) /\ Owned(Poller) \in SUBSET Uuids
    BY <1>4 DEF Owned
  <2>2. /\ Cardinality(Owned(Poller)') \in Nat /\ Cardinality(Owned(Poller)) \in Nat
        /\ Cardinality(Owned(Poller)') <= Cardinality(Owned(Poller))
    BY <2>1, UuidSets
  <2>. QED BY <2>2, TimesAssumption DEF CallInv
<1>. QED BY <1>6, <1>7, <1>8 DEF CallInv, CallExact, CallWithinCap

\* Changing one call, or adding one, while every task that starts is the call's
\* own and awaited.
LEMMA OneCall ==
  ASSUME CallInv, NEW r \in RequestIds, DOMAIN requests' = DOMAIN requests \cup {r},
         \A x \in DOMAIN requests : x # r => requests'[x] = requests[x],
         CallExact(requests'[r]), CallWithinCap(requests'[r]),
         \A k \in DOMAIN tasks' \ DOMAIN tasks : k[1] = r /\ k[2] \in DOMAIN requests'[r].awaits,
         DOMAIN tasks \subseteq DOMAIN tasks',
         \A u \in Uuids : <<r, u>> \in DOMAIN tasks => u \in DOMAIN requests'[r].awaits
  PROVE  CallInv'
<1>1. \A x \in DOMAIN requests' : CallExact(requests'[x]) /\ CallWithinCap(requests'[x])
  BY DEF CallInv
<1>2. OwnAwaited'
  <2>. SUFFICES ASSUME NEW x \in RequestIds, NEW u \in Uuids, <<x, u>> \in DOMAIN tasks'
                PROVE  x \in DOMAIN requests' /\ u \in DOMAIN requests'[x].awaits
    BY DEF OwnAwaited
  <2>1. CASE <<x, u>> \in DOMAIN tasks
    BY <2>1 DEF CallInv, OwnAwaited
  <2>2. CASE <<x, u>> \notin DOMAIN tasks
    BY <2>2
  <2>. QED BY <2>1, <2>2
<1>3. Owned(Poller)' = Owned(Poller)
  BY NamesAssumption DEF Owned
<1>. QED BY <1>1, <1>2, <1>3 DEF CallInv, CallExact, CallWithinCap

\* A call that arrives has nothing queued, awaited or answered, and no tasks.
LEMMA NewCalls ==
  ASSUME PollerInv, CallInv, NEW r \in RequestIds, r \notin DOMAIN requests,
         NEW asked \in SUBSET Uuids, NEW reason \in Reasons,
         requests' = Put(requests, r, NewRequest(asked, reason)), tasks' = tasks
  PROVE  CallInv'
<1>1. /\ DOMAIN requests' = DOMAIN requests \cup {r}
      /\ \A x \in DOMAIN requests : x # r => requests'[x] = requests[x]
      /\ requests'[r] = NewRequest(asked, reason)
  BY DEF Put
<1>. DEFINE q == NewRequest(asked, reason)
<1>2. /\ q.pc = "sync" /\ q.todo = {} /\ q.awaits = EmptyMap /\ q.ready = {}
      /\ q.states = EmptyMap /\ q.errors = {}
  BY DEF NewRequest
<1>. HIDE DEF q
<1>3. DOMAIN q.awaits \cup q.ready = {} /\ CallExact(q)
  BY <1>2, EmptyIsMap DEF CallExact
<1>4. CallWithinCap(q)
  <2>1. Cardinality({}) <= POLL_MAX_CONCURRENCY
    BY FS_EmptySet, TimesAssumption
  <2>. QED BY <1>3, <2>1 DEF CallWithinCap
<1>5. \A u \in Uuids : <<r, u>> \notin DOMAIN tasks
  BY DEF CallInv, OwnAwaited
<1>6. requests'[r] = q
  BY <1>1 DEF q
<1>. QED BY <1>1, <1>3, <1>4, <1>5, <1>6, OneCall

\* The workers that start take one uuid each, and at least one starts if any is
\* asked for.
LEMMA ResumeCalls ==
  ASSUME PollerInv, CallInv, NEW r \in RequestIds, PollNowResume(r)
  PROVE  CallInv'
<1>. DEFINE q == requests[r]
            uuids == IF q.asked = {} THEN DOMAIN q.cfg ELSE q.asked
<1>0. TypeOK /\ InFlightExact
  BY DEF PollerInv
<1>1. r \in DOMAIN requests /\ q.pc = "sync"
  BY DEF PollNowResume
<1>2. PICK first \in SUBSET uuids :
        /\ Cardinality(first) <= POLL_MAX_CONCURRENCY
        /\ first = uuids \/ Cardinality(first) = POLL_MAX_CONCURRENCY
        /\ PollDevices(r, first, q.reason)
        /\ requests' = [requests EXCEPT ![r] =
             [q EXCEPT !.pc = "work", !.asked = uuids, !.todo = uuids \ first,
                       !.awaits = [u \in first |-> AwaitedOwner(r, u)]]]
  BY DEF PollNowResume
<1>3. q \in Request /\ CallExact(q)
  BY <1>1 DEF PollerInv, TypeOK, IsMap, CallInv
<1>4. q.cfg \in HostMaps /\ q.asked \in SUBSET Uuids /\ q.reason \in Reasons /\ r \in Owners
  BY <1>3 DEF Request, Owners
<1>5. DOMAIN q.cfg \subseteq Uuids
  BY <1>4, MapsOfIsMap DEF HostMaps, IsMap
<1>6. first \in SUBSET Uuids
  BY <1>4, <1>5
<1>. HIDE DEF uuids
<1>7. /\ DOMAIN tasks \subseteq DOMAIN tasks'
      /\ \A k \in DOMAIN tasks' \ DOMAIN tasks : k[1] = r /\ k[2] \in first
  <2>1. PollDevices(r, first, q.reason)
    BY <1>2
  <2>. HIDE DEF q
  <2>2. StartStep(r, first, q.reason)
    BY <1>0, <1>4, <1>6, <2>1, PollDevicesStep
  <2>. QED BY <2>2 DEF StartStep
<1>8. q.ready = {} /\ DOMAIN q.awaits = {} /\ DOMAIN q.states = {} /\ q.errors = {}
  BY <1>1, <1>3 DEF CallExact
<1>. DEFINE aw == [u \in first |-> AwaitedOwner(r, u)]
            q2 == [q EXCEPT !.pc = "work", !.asked = uuids, !.todo = uuids \ first,
                            !.awaits = aw]
<1>9. DOMAIN aw = first
  OBVIOUS
<1>10. requests' = [requests EXCEPT ![r] = q2]
  BY <1>2
<1>. HIDE DEF aw
<1>11. /\ q2.pc = "work" /\ q2.asked = uuids /\ q2.todo = uuids \ first /\ q2.awaits = aw
       /\ q2.ready = {} /\ q2.states = q.states /\ q2.errors = {}
  BY <1>3, <1>8 DEF Request
<1>12. first = uuids \/ first # {}
  BY <1>2, FS_EmptySet, TimesAssumption
<1>13. CallExact(q2)
  BY <1>8, <1>9, <1>11, <1>12 DEF CallExact
<1>14. CallWithinCap(q2)
  <2>1. DOMAIN q2.awaits \cup q2.ready = first
    BY <1>9, <1>11
  <2>. QED BY <1>2, <2>1 DEF CallWithinCap
<1>15. DOMAIN q2.awaits = first
  BY <1>9, <1>11
<1>16. \A u \in Uuids : <<r, u>> \notin DOMAIN tasks
  BY <1>8 DEF CallInv, OwnAwaited
<1>. HIDE DEF q, q2
<1>17. /\ DOMAIN requests' = DOMAIN requests \cup {r} /\ requests'[r] = q2
       /\ \A x \in DOMAIN requests : x # r => requests'[x] = requests[x]
  BY <1>0, <1>1, <1>10 DEF TypeOK, IsMap
<1>. QED BY <1>7, <1>13, <1>14, <1>15, <1>16, <1>17, OneCall

\* A worker takes the next uuid for the one it had.
LEMMA WorkerNextCalls ==
  ASSUME PollerInv, CallInv, NEW r \in RequestIds, NEW u \in Uuids, WorkerNext(r, u)
  PROVE  CallInv'
<1>. DEFINE q == requests[r]
<1>0. TypeOK /\ InFlightExact
  BY DEF PollerInv
<1>1. r \in DOMAIN requests /\ u \in q.ready
  BY DEF WorkerNext
<1>2. PICK v \in q.todo :
        /\ PollDevices(r, {v}, q.reason)
        /\ requests' = [requests EXCEPT ![r] =
             [q EXCEPT !.todo = @ \ {v}, !.ready = @ \ {u},
                       !.awaits = Put(@, v, AwaitedOwner(r, v))]]
  BY DEF WorkerNext
<1>3. q \in Request /\ CallExact(q) /\ CallWithinCap(q)
  BY <1>1 DEF PollerInv, TypeOK, IsMap, CallInv
<1>4. /\ q.reason \in Reasons /\ r \in Owners /\ v \in Uuids /\ q.ready \in SUBSET Uuids
      /\ q.awaits \in MapsOf(Uuids, Owners) /\ q.pc \in {"sync", "work"}
  BY <1>3 DEF Request, Owners
<1>5. DOMAIN q.awaits \in SUBSET Uuids
  BY <1>4, MapsOfIsMap DEF IsMap
<1>6. /\ DOMAIN tasks \subseteq DOMAIN tasks'
      /\ \A k \in DOMAIN tasks' \ DOMAIN tasks : k[1] = r /\ k[2] \in {v}
  <2>1. {v} \in SUBSET Uuids
    BY <1>4
  <2>2. PollDevices(r, {v}, q.reason)
    BY <1>2
  <2>. HIDE DEF q
  <2>3. StartStep(r, {v}, q.reason)
    BY <1>0, <1>4, <2>1, <2>2, PollDevicesStep
  <2>. QED BY <2>3 DEF StartStep
<1>. DEFINE aw == Put(q.awaits, v, AwaitedOwner(r, v))
            q2 == [q EXCEPT !.todo = q.todo \ {v}, !.ready = q.ready \ {u}, !.awaits = aw]
<1>7. DOMAIN aw = DOMAIN q.awaits \cup {v}
  BY DEF Put
<1>8. requests' = [requests EXCEPT ![r] = q2]
  BY <1>2
<1>. HIDE DEF aw
<1>9. /\ q2.pc = q.pc /\ q2.asked = q.asked /\ q2.todo = q.todo \ {v} /\ q2.awaits = aw
      /\ q2.ready = q.ready \ {u} /\ q2.states = q.states /\ q2.errors = q.errors
  BY <1>3 DEF Request
<1>10. DOMAIN q2.awaits = DOMAIN q.awaits \cup {v}
  BY <1>7, <1>9
<1>. HIDE DEF q2
<1>11. CallExact(q2)
  BY <1>2, <1>3, <1>4, <1>9, <1>10 DEF CallExact
<1>12. CallWithinCap(q2)
  <2>. DEFINE W == DOMAIN q.awaits \cup q.ready
  <2>1. W \in SUBSET Uuids /\ u \in W
    BY <1>1, <1>4, <1>5
  <2>2. u \notin DOMAIN q.awaits
    BY <1>1, <1>3, <1>4 DEF CallExact
  <2>3. DOMAIN q2.awaits \cup q2.ready = (W \ {u}) \cup {v}
    BY <1>9, <1>10, <2>2
  <2>4. IsFiniteSet(W) /\ Cardinality(W) \in Nat /\ Cardinality(W) <= POLL_MAX_CONCURRENCY
    BY <1>3, <2>1, UuidSets DEF CallWithinCap
  <2>. HIDE DEF W
  <2>5. IsFiniteSet(W \ {u}) /\ Cardinality(W \ {u}) = Cardinality(W) - 1
    BY <2>1, <2>4, FS_RemoveElement
  <2>6. Cardinality((W \ {u}) \cup {v}) = Cardinality(W) - 1
        \/ Cardinality((W \ {u}) \cup {v}) = Cardinality(W) - 1 + 1
    BY <2>5, FS_AddElement
  <2>7. Cardinality((W \ {u}) \cup {v}) <= POLL_MAX_CONCURRENCY
    BY <2>4, <2>6, TimesAssumption
  <2>. QED BY <2>3, <2>7 DEF CallWithinCap
<1>13. \A x \in Uuids : <<r, x>> \in DOMAIN tasks => x \in DOMAIN q2.awaits
  BY <1>10 DEF CallInv, OwnAwaited
<1>. HIDE DEF q
<1>14. /\ DOMAIN requests' = DOMAIN requests \cup {r} /\ requests'[r] = q2
       /\ \A x \in DOMAIN requests : x # r => requests'[x] = requests[x]
  BY <1>0, <1>1, <1>8 DEF TypeOK, IsMap
<1>. QED BY <1>6, <1>10, <1>11, <1>12, <1>13, <1>14, OneCall

\* A worker that finds the queue empty returns.
LEMMA WorkerReturnCalls ==
  ASSUME PollerInv, CallInv, NEW r \in RequestIds, NEW u \in Uuids, WorkerReturn(r, u)
  PROVE  CallInv'
<1>. DEFINE q == requests[r]
            q2 == [q EXCEPT !.ready = q.ready \ {u}]
<1>1. r \in DOMAIN requests /\ q.todo = {} /\ requests' = [requests EXCEPT ![r] = q2] /\ tasks' = tasks
  BY DEF WorkerReturn
<1>2. q \in Request /\ CallExact(q) /\ CallWithinCap(q)
  BY <1>1 DEF PollerInv, TypeOK, IsMap, CallInv
<1>3. q.ready \in SUBSET Uuids /\ q.awaits \in MapsOf(Uuids, Owners)
  BY <1>2 DEF Request
<1>4. DOMAIN q.awaits \in SUBSET Uuids
  BY <1>3, MapsOfIsMap DEF IsMap
<1>5. /\ q2.pc = q.pc /\ q2.asked = q.asked /\ q2.todo = q.todo /\ q2.awaits = q.awaits
      /\ q2.ready = q.ready \ {u} /\ q2.states = q.states /\ q2.errors = q.errors
  BY <1>2 DEF Request
<1>. HIDE DEF q2
<1>6. CallExact(q2)
  BY <1>1, <1>2, <1>5 DEF CallExact
<1>7. CallWithinCap(q2)
  <2>. DEFINE W == DOMAIN q.awaits \cup q.ready
              W2 == DOMAIN q2.awaits \cup q2.ready
  <2>1. W2 \in SUBSET W /\ W \in SUBSET Uuids
    BY <1>3, <1>4, <1>5
  <2>2. Cardinality(W) <= POLL_MAX_CONCURRENCY
    BY <1>2 DEF CallWithinCap
  <2>. HIDE DEF W, W2
  <2>3. Cardinality(W2) <= POLL_MAX_CONCURRENCY
    BY <2>1, <2>2, UuidSets, TimesAssumption
  <2>. QED BY <2>3 DEF CallWithinCap, W2
<1>8. \A x \in Uuids : <<r, x>> \in DOMAIN tasks => x \in DOMAIN q2.awaits
  BY <1>5 DEF CallInv, OwnAwaited
<1>. HIDE DEF q
<1>9. /\ DOMAIN requests' = DOMAIN requests \cup {r} /\ requests'[r] = q2
      /\ \A x \in DOMAIN requests : x # r => requests'[x] = requests[x]
  BY <1>1 DEF PollerInv, TypeOK, IsMap
<1>. QED BY <1>1, <1>6, <1>7, <1>8, <1>9, OneCall

\* A call returns only when no task of its own runs.
LEMMA ReturnCalls ==
  ASSUME PollerInv, CallInv, NEW r \in RequestIds, PollNowReturn(r)
  PROVE  CallInv'
<1>1. requests' = Drop(requests, r) /\ tasks' = tasks /\ requests[r].awaits = EmptyMap
  BY DEF PollNowReturn, Finished
<1>2. \A x \in DOMAIN requests' : x \in DOMAIN requests /\ requests'[x] = requests[x]
  BY <1>1 DEF Drop
<1>3. \A x \in DOMAIN requests : x # r => x \in DOMAIN requests' /\ requests'[x] = requests[x]
  BY <1>1 DEF Drop
<1>4. \A x \in DOMAIN requests' : CallExact(requests'[x]) /\ CallWithinCap(requests'[x])
  BY <1>2 DEF CallInv
<1>5. OwnAwaited'
  BY <1>1, <1>3, EmptyIsMap DEF CallInv, OwnAwaited
<1>6. (\A x \in DOMAIN requests : CallExact(requests[x]) /\ CallWithinCap(requests[x]))'
  BY <1>4 DEF CallExact, CallWithinCap
<1>7. Owned(Poller)' = Owned(Poller)
  BY <1>1 DEF Owned
<1>. QED BY <1>5, <1>6, <1>7 DEF CallInv

\* Every step keeps the invariant of the calls.
LEMMA NextCalls ==
  ASSUME PollerInv, CallInv, [Next]_vars
  PROVE  CallInv'
<1>1. CASE \/ UNCHANGED vars \/ TickSync
           \/ \E u \in Uuids : \/ TelemetrySuccess(u) \/ TelemetryFailure(u) \/ TelemetrySkip(u)
                              \/ ResolveWrite(u) \/ ResolveDone(u) \/ ResolveGiveUp(u)
           \/ \E u \in Uuids, host \in Hosts : ResolveFound(u, host)
           \/ \E s \in SubscriberIds : CreateStream(s) \/ CancelStream(s)
           \/ ClockAdvances \/ ClockSetBack
           \/ \E hosts \in HostMaps : ConfigChanges(hosts)
           \/ \E host \in Hosts, val \in Values : DeviceChanges(host, val)
  <2>1. requests' = requests /\ tasks' = tasks
    BY <1>1 DEF vars, TickSync, TelemetrySuccess, TelemetryFailure, TelemetrySkip,
                ResolveWrite, ResolveDone, ResolveGiveUp, ResolveFound, CreateStream, CancelStream,
                ClockAdvances, ClockSetBack, SetClock, ConfigChanges, DeviceChanges
  <2>. QED BY <2>1, FramedCalls
<1>2. ASSUME NEW o \in Owners, NEW u \in Uuids, PollReadConfig(o, u) \/ LanAnswer(o, u)
      PROVE  CallInv'
  <2>1. requests' = requests /\ DOMAIN tasks' = DOMAIN tasks
    BY <1>2 DEF PollReadConfig, LanAnswer
  <2>. QED BY <2>1, FramedCalls
<1>3. CASE TickResume
  <2>1. requests' = requests /\ TickSchedule(knownHosts', metaByUuid')
    BY <1>3 DEF TickResume
  <2>2. IsMap(metaByUuid', Uuids, PollMeta)
    BY NextInv DEF PollerInv, TypeOK
  <2>. QED BY <2>1, <2>2, TickCalls
<1>4. CASE TickNoSync
  <2>1. requests' = requests /\ TickSchedule(knownHosts, metaByUuid)
    BY <1>4 DEF TickNoSync
  <2>2. IsMap(metaByUuid, Uuids, PollMeta)
    BY DEF PollerInv, TypeOK
  <2>. QED BY <2>1, <2>2, TickCalls
<1>5. ASSUME NEW o \in Owners, NEW u \in Uuids, PollSuccess(o, u) \/ PollFailure(o, u)
      PROVE  CallInv'
  BY <1>5, EndCalls
<1>6. ASSUME NEW r \in RequestIds, NEW asked \in SUBSET Uuids, NEW reason \in Reasons,
             PollNow(r, asked, reason)
      PROVE  CallInv'
  <2>1. r \notin DOMAIN requests /\ requests' = Put(requests, r, NewRequest(asked, reason))
        /\ tasks' = tasks
    BY <1>6 DEF PollNow
  <2>. QED BY <2>1, NewCalls
<1>7. ASSUME NEW r \in RequestIds, NEW u \in Uuids, ControlDone(r, u)
      PROVE  CallInv'
  <2>1. r \notin DOMAIN requests /\ requests' = Put(requests, r, NewRequest({u}, "manual"))
        /\ tasks' = tasks
    BY <1>7 DEF ControlDone
  <2>2. {u} \in SUBSET Uuids /\ "manual" \in Reasons
    BY DEF Reasons
  <2>. QED BY <2>1, <2>2, NewCalls
<1>8. CASE \E r \in RequestIds : PollNowResume(r) \/ PollNowReturn(r)
  BY <1>8, ResumeCalls, ReturnCalls
<1>9. CASE \E r \in RequestIds, u \in Uuids : WorkerNext(r, u) \/ WorkerReturn(r, u)
  BY <1>9, WorkerNextCalls, WorkerReturnCalls
<1>. QED BY <1>1, <1>2, <1>3, <1>4, <1>5, <1>6, <1>7, <1>8, <1>9 DEF Next

\* A run never leaves the invariant of the calls.
LEMMA CallInvariant == Spec => []CallInv
<1>1. Init => CallInv
  <2>. SUFFICES ASSUME Init PROVE CallInv
    OBVIOUS
  <2>1. DOMAIN requests = {} /\ DOMAIN tasks = {}
    BY EmptyIsMap DEF Init
  <2>2. Owned(Poller) = {}
    BY <2>1 DEF Owned
  <2>. QED BY <2>1, <2>2, FS_EmptySet, TimesAssumption DEF CallInv, OwnAwaited
<1>2. PollerInv /\ CallInv /\ [Next]_vars => CallInv'
  BY NextCalls
<1>. QED BY <1>1, <1>2, PollerInvariant, PTL DEF Spec

\* A pollNow response has exactly one state or error for every uuid asked for, for
\* any number of calls that start, join and share polls.
THEOREM ResponseAlwaysComplete == Spec => []ResponseComplete
<1>1. CallInv => ResponseComplete
  <2>. SUFFICES ASSUME CallInv, NEW r \in DOMAIN requests, Finished(r)
                PROVE  /\ DOMAIN requests[r].states \cup requests[r].errors = requests[r].asked
                       /\ DOMAIN requests[r].states \cap requests[r].errors = {}
    BY DEF ResponseComplete
  <2>1. CallExact(requests[r]) /\ DOMAIN requests[r].awaits = {}
    BY EmptyIsMap DEF CallInv, Finished
  <2>. QED BY <2>1 DEF CallExact, Finished
<1>. QED BY <1>1, CallInvariant, PTL

\* The tick timer, and every pollNow call on its own, keeps within
\* POLL_MAX_CONCURRENCY polls, whatever others have in flight.
THEOREM OwnersAlwaysWithinCap == Spec => []OwnerWithinCap
<1>1. PollerInv /\ CallInv => OwnerWithinCap
  <2>. SUFFICES ASSUME PollerInv, CallInv, NEW o \in Owners
                PROVE  Cardinality(Owned(o)) <= POLL_MAX_CONCURRENCY
    BY DEF OwnerWithinCap, Owned
  <2>1. CASE o = Poller
    BY <2>1 DEF CallInv
  <2>2. CASE o \in RequestIds /\ Owned(o) = {}
    BY <2>2, FS_EmptySet, TimesAssumption
  <2>3. CASE o \in RequestIds /\ Owned(o) # {}
    <3>1. o \in DOMAIN requests /\ Owned(o) \subseteq DOMAIN requests[o].awaits
      BY <2>3 DEF Owned, CallInv, OwnAwaited
    <3>. DEFINE W == DOMAIN requests[o].awaits \cup requests[o].ready
    <3>2. requests[o] \in Request
      BY <3>1 DEF PollerInv, TypeOK, IsMap
    <3>3. requests[o].ready \in SUBSET Uuids /\ requests[o].awaits \in MapsOf(Uuids, Owners)
      BY <3>2 DEF Request
    <3>4. W \in SUBSET Uuids /\ Owned(o) \in SUBSET W
      BY <3>1, <3>3, MapsOfIsMap DEF IsMap
    <3>5. Cardinality(W) <= POLL_MAX_CONCURRENCY
      BY <3>1 DEF CallInv, CallWithinCap
    <3>. HIDE DEF W
    <3>. QED BY <3>4, <3>5, UuidSets, TimesAssumption
  <2>. QED BY <2>1, <2>2, <2>3 DEF Owners
<1>. QED BY <1>1, PollerInvariant, CallInvariant, PTL


-----------------------------------------------------------------------------
(* The poller implements DeviceFeed: stream clients see every published     *)
(* state, once, in the order of its versions.                                *)

(* What a step can do to states and subscribers *)

\* A new entry for u is stored and pushed, with a greater version.
Published(u, next) ==
  /\ stateByUuid' = Put(stateByUuid, u, next)
  /\ BroadcastState(u, next)
  /\ u \in DOMAIN stateByUuid => next.updatedAt > stateByUuid[u].updatedAt

\* Only the source of an entry may change.
Kept ==
  /\ DOMAIN stateByUuid' = DOMAIN stateByUuid
  /\ Material(stateByUuid') = Material(stateByUuid)
  /\ UNCHANGED subscribers

\* Streams break and the others keep the states they have.
Broken ==
  /\ UNCHANGED stateByUuid
  /\ subscribers' = [s \in DOMAIN subscribers' |-> subscribers'[s]]
  /\ DOMAIN subscribers' \subseteq DOMAIN subscribers
  /\ \A s \in DOMAIN subscribers' : subscribers'[s].states = subscribers[s].states

\* A stream opens with the snapshot.
Opened(s) ==
  /\ UNCHANGED stateByUuid
  /\ s \notin DOMAIN subscribers
  /\ subscribers' = Put(subscribers, s, [states |-> stateByUuid, power |-> powerByUuid])

FeedStep ==
  \/ \E u \in Uuids, next \in DeviceState : Published(u, next)
  \/ Kept
  \/ Broken
  \/ \E s \in SubscriberIds : Opened(s)

\* A poll that succeeds publishes a changed state or keeps the published one.
LEMMA PollSuccessFeed ==
  ASSUME PollerInv, NEW o \in Owners, NEW u \in Uuids, PollSuccess(o, u)
  PROVE  FeedStep
<1>. DEFINE t == tasks[<<o, u>>]
            next == [host |-> t.host, val |-> t.val, stale |-> FALSE,
                     updatedAt |-> NextUpdatedAt(stateByUuid, u), source |-> t.reason]
            changed == HasMaterialStateChange(u, next)
<1>1. /\ <<o, u>> \in DOMAIN tasks
      /\ IF changed
         THEN stateByUuid' = Put(stateByUuid, u, next) /\ BroadcastState(u, next)
         ELSE stateByUuid' = [stateByUuid EXCEPT ![u].source = t.reason] /\ UNCHANGED subscribers
  BY DEF PollSuccess
<1>2. /\ t \in Task /\ NextUpdatedAt(stateByUuid, u) \in Nat
      /\ u \in DOMAIN stateByUuid => stateByUuid[u] \in DeviceState
      /\ u \in DOMAIN stateByUuid => NextUpdatedAt(stateByUuid, u) > stateByUuid[u].updatedAt
  BY <1>1, FinishingTask
<1>3. next \in DeviceState /\ next.updatedAt = NextUpdatedAt(stateByUuid, u)
  BY <1>2 DEF Task, DeviceState
<1>4. ~changed => u \in DOMAIN stateByUuid
  BY DEF HasMaterialStateChange
<1>5. stateByUuid = [v \in DOMAIN stateByUuid |-> stateByUuid[v]]
  BY DEF PollerInv, TypeOK, IsMap
<1>. HIDE DEF t, next, changed
<1>6. CASE changed
  <2>1. Published(u, next)
    BY <1>1, <1>2, <1>3, <1>6 DEF Published
  <2>. QED BY <1>3, <2>1 DEF FeedStep
<1>7. CASE ~changed
  <2>. DEFINE same == [stateByUuid[u] EXCEPT !.source = t.reason]
  <2>1. stateByUuid' = [stateByUuid EXCEPT ![u] = same] /\ u \in DOMAIN stateByUuid
        /\ UNCHANGED subscribers
    BY <1>1, <1>4, <1>7
  <2>2. /\ same.host = stateByUuid[u].host /\ same.val = stateByUuid[u].val
        /\ same.stale = stateByUuid[u].stale /\ same.updatedAt = stateByUuid[u].updatedAt
    BY <1>2, <2>1 DEF DeviceState
  <2>. HIDE DEF same
  <2>3. DOMAIN stateByUuid' = DOMAIN stateByUuid
    BY <2>1
  <2>4. Material(stateByUuid') = Material(stateByUuid)
    <3>1. \A v \in DOMAIN stateByUuid :
            /\ stateByUuid'[v].host = stateByUuid[v].host /\ stateByUuid'[v].val = stateByUuid[v].val
            /\ stateByUuid'[v].stale = stateByUuid[v].stale
            /\ stateByUuid'[v].updatedAt = stateByUuid[v].updatedAt
      BY <2>1, <2>2
    <3>. QED BY <2>3, <3>1 DEF Material
  <2>. QED BY <2>1, <2>3, <2>4 DEF FeedStep, Kept
<1>. QED BY <1>6, <1>7

\* A poll that fails publishes the stale state or changes nothing.
LEMMA PollFailureFeed ==
  ASSUME PollerInv, NEW o \in Owners, NEW u \in Uuids, PollFailure(o, u)
  PROVE  FeedStep
<1>. DEFINE t == tasks[<<o, u>>]
            next == StaleState(u, t.reason)
<1>1. /\ <<o, u>> \in DOMAIN tasks
      /\ IF HasMaterialStateChange(u, next)
         THEN stateByUuid' = Put(stateByUuid, u, next) /\ BroadcastState(u, next)
         ELSE UNCHANGED <<stateByUuid, subscribers>>
  BY DEF PollFailure
<1>2. /\ t \in Task
      /\ u \in DOMAIN stateByUuid => NextUpdatedAt(stateByUuid, u) > stateByUuid[u].updatedAt
  BY <1>1, FinishingTask
<1>3. t.reason \in Reasons
  BY <1>2 DEF Task
<1>4. next \in DeviceState
  BY <1>1, <1>3, StaleStateType
<1>5. next.updatedAt = NextUpdatedAt(stateByUuid, u)
  BY DEF StaleState
<1>. HIDE DEF t, next
<1>6. CASE HasMaterialStateChange(u, next)
  <2>1. Published(u, next)
    BY <1>1, <1>2, <1>5, <1>6 DEF Published
  <2>. QED BY <1>4, <2>1 DEF FeedStep
<1>7. CASE ~HasMaterialStateChange(u, next)
  <2>1. UNCHANGED <<stateByUuid, subscribers>>
    BY <1>1, <1>7
  <2>2. Material(stateByUuid') = Material(stateByUuid) /\ DOMAIN stateByUuid' = DOMAIN stateByUuid
    BY <2>1
  <2>. QED BY <2>1, <2>2 DEF FeedStep, Kept
<1>. QED BY <1>6, <1>7

\* Steps that touch neither states nor subscribers.
LEMMA QuietFeed ==
  ASSUME UNCHANGED <<stateByUuid, subscribers>>
  PROVE  FeedStep
<1>1. Material(stateByUuid') = Material(stateByUuid) /\ DOMAIN stateByUuid' = DOMAIN stateByUuid
  OBVIOUS
<1>. QED BY <1>1 DEF FeedStep, Kept

\* Telemetry pushes power readings only, and may find streams closed.
LEMMA TelemetryFeed ==
  ASSUME PollerInv, NEW u \in Uuids,
         TelemetrySuccess(u) \/ TelemetryFailure(u) \/ TelemetrySkip(u)
  PROVE  FeedStep
<1>1. UNCHANGED stateByUuid
  BY DEF TelemetrySuccess, TelemetryFailure, TelemetrySkip
<1>2. UNCHANGED subscribers \/ \E next : BroadcastPower(u, next)
  BY DEF TelemetrySuccess, TelemetryFailure, TelemetrySkip, RecordPower
<1>3. CASE UNCHANGED subscribers
  BY <1>1, <1>3, QuietFeed
<1>4. ASSUME NEW next, BroadcastPower(u, next)
      PROVE  FeedStep
  <2>1. PICK gone \in SUBSET DOMAIN subscribers :
          subscribers' = [s \in DOMAIN subscribers \ gone |->
            [subscribers[s] EXCEPT !.power = Put(@, u, next)]]
    BY <1>4 DEF BroadcastPower
  <2>2. \A s \in DOMAIN subscribers :
          subscribers[s] = [states |-> subscribers[s].states, power |-> subscribers[s].power]
    BY DEF PollerInv, TypeOK, IsSubscriber
  <2>3. \A s \in DOMAIN subscribers' : subscribers'[s].states = subscribers[s].states
    BY <2>1, <2>2
  <2>. QED BY <1>1, <2>1, <2>3 DEF FeedStep, Broken
<1>. QED BY <1>2, <1>3, <1>4

\* Streams that open or close.
LEMMA StreamFeed ==
  ASSUME NEW s \in SubscriberIds, CreateStream(s) \/ CancelStream(s)
  PROVE  FeedStep
<1>1. CASE CreateStream(s)
  BY <1>1 DEF CreateStream, FeedStep, Opened
<1>2. CASE CancelStream(s)
  <2>1. UNCHANGED stateByUuid /\ subscribers' = Drop(subscribers, s)
    BY <1>2 DEF CancelStream
  <2>2. Broken
    BY <2>1 DEF Broken, Drop
  <2>. QED BY <2>2 DEF FeedStep
<1>. QED BY <1>1, <1>2

\* Every step of the poller is one of these.
LEMMA NextFeed ==
  ASSUME PollerInv, [Next]_vars
  PROVE  FeedStep
<1>1. CASE UNCHANGED vars
  BY <1>1, QuietFeed DEF vars
<1>2. CASE TickSync \/ TickResume \/ TickNoSync
  BY <1>2, QuietFeed DEF TickSync, TickResume, TickNoSync
<1>3. CASE \E o \in Owners, u \in Uuids : PollReadConfig(o, u) \/ LanAnswer(o, u)
  BY <1>3, QuietFeed DEF PollReadConfig, LanAnswer
<1>4. CASE \E o \in Owners, u \in Uuids : PollSuccess(o, u) \/ PollFailure(o, u)
  BY <1>4, PollSuccessFeed, PollFailureFeed
<1>5. CASE \E u \in Uuids : TelemetrySuccess(u) \/ TelemetryFailure(u) \/ TelemetrySkip(u)
  BY <1>5, TelemetryFeed
<1>6. CASE \/ \E u \in Uuids : ResolveWrite(u) \/ ResolveDone(u) \/ ResolveGiveUp(u)
           \/ \E u \in Uuids, host \in Hosts : ResolveFound(u, host)
  BY <1>6, QuietFeed DEF ResolveWrite, ResolveDone, ResolveGiveUp, ResolveFound
<1>7. CASE \/ \E r \in RequestIds : PollNowResume(r) \/ PollNowReturn(r)
           \/ \E r \in RequestIds, asked \in SUBSET Uuids, reason \in Reasons :
                PollNow(r, asked, reason)
           \/ \E r \in RequestIds, u \in Uuids :
                ControlDone(r, u) \/ WorkerNext(r, u) \/ WorkerReturn(r, u)
  BY <1>7, QuietFeed DEF PollNowResume, PollNowReturn, PollNow, ControlDone, WorkerNext,
                         WorkerReturn
<1>8. CASE \E s \in SubscriberIds : CreateStream(s) \/ CancelStream(s)
  BY <1>8, StreamFeed
<1>9. CASE \/ ClockAdvances \/ ClockSetBack
           \/ \E hosts \in HostMaps : ConfigChanges(hosts)
           \/ \E host \in Hosts, val \in Values : DeviceChanges(host, val)
  BY <1>9, QuietFeed DEF ClockAdvances, ClockSetBack, SetClock, ConfigChanges, DeviceChanges
<1>. QED BY <1>1, <1>2, <1>3, <1>4, <1>5, <1>6, <1>7, <1>8, <1>9 DEF Next

-----------------------------------------------------------------------------
(* The published part of a map of states *)

\* Two maps with the same published part keep it when both store an entry.
LEMMA MaterialPutSame ==
  ASSUME NEW a, NEW b, NEW u, NEW next, Material(a) = Material(b)
  PROVE  Material(Put(a, u, next)) = Material(Put(b, u, next))
<1>. DEFINE ma == Material(Put(a, u, next))
            mb == Material(Put(b, u, next))
<1>1. DOMAIN a = DOMAIN b
  BY DEF Material
<1>2. DOMAIN ma = DOMAIN b \cup {u} /\ DOMAIN mb = DOMAIN b \cup {u}
  BY <1>1 DEF Material, Put
<1>3. ASSUME NEW v \in DOMAIN b \cup {u}
      PROVE  ma[v] = mb[v]
  <2>1. CASE v = u
    BY <1>1, <2>1 DEF Material, Put
  <2>2. CASE v # u
    <3>1. ma[v] = Material(a)[v] /\ mb[v] = Material(b)[v]
      BY <1>1, <2>2 DEF Material, Put
    <3>. QED BY <3>1
  <2>. QED BY <2>1, <2>2
<1>4. ma = [v \in DOMAIN ma |-> ma[v]] /\ mb = [v \in DOMAIN mb |-> mb[v]]
  BY DEF Material
<1>. HIDE DEF ma, mb
<1>5. ma = mb
  BY <1>2, <1>3, <1>4
<1>. QED BY <1>5 DEF ma, mb

\* What a broadcast leaves a stream with.
LEMMA BroadcastStates ==
  ASSUME PollerInv, NEW u, NEW next, BroadcastState(u, next)
  PROVE  /\ subscribers' = [s \in DOMAIN subscribers' |-> subscribers'[s]]
         /\ DOMAIN subscribers' \subseteq DOMAIN subscribers
         /\ \A s \in DOMAIN subscribers' :
              subscribers'[s].states = Put(subscribers[s].states, u, next)
<1>1. PICK gone \in SUBSET DOMAIN subscribers :
        subscribers' = [s \in DOMAIN subscribers \ gone |->
          [subscribers[s] EXCEPT !.states = Put(@, u, next)]]
  BY DEF BroadcastState
<1>2. \A s \in DOMAIN subscribers :
        subscribers[s] = [states |-> subscribers[s].states, power |-> subscribers[s].power]
  BY DEF PollerInv, TypeOK, IsSubscriber
<1>. QED BY <1>1, <1>2

-----------------------------------------------------------------------------
(* Streams in sync *)

\* No step leaves an open stream with anything but what is published.
LEMMA SyncStep ==
  ASSUME PollerInv, SubscribersInSync, FeedStep
  PROVE  SubscribersInSync'
<1>. SUFFICES ASSUME NEW s \in DOMAIN subscribers'
              PROVE  Material(subscribers'[s].states) = Material(stateByUuid')
  BY DEF SubscribersInSync
<1>1. ASSUME NEW u \in Uuids, NEW next \in DeviceState, Published(u, next)
      PROVE  Material(subscribers'[s].states) = Material(stateByUuid')
  <2>1. s \in DOMAIN subscribers /\ subscribers'[s].states = Put(subscribers[s].states, u, next)
    BY <1>1, BroadcastStates DEF Published
  <2>2. Material(subscribers[s].states) = Material(stateByUuid)
    BY <2>1 DEF SubscribersInSync
  <2>3. Material(Put(subscribers[s].states, u, next)) = Material(Put(stateByUuid, u, next))
    BY <2>2, MaterialPutSame
  <2>. QED BY <1>1, <2>1, <2>3 DEF Published
<1>2. CASE Kept
  BY <1>2 DEF Kept, SubscribersInSync
<1>3. CASE Broken
  BY <1>3 DEF Broken, SubscribersInSync
<1>4. ASSUME NEW t \in SubscriberIds, Opened(t)
      PROVE  Material(subscribers'[s].states) = Material(stateByUuid')
  <2>1. CASE s = t
    BY <1>4, <2>1 DEF Opened, Put
  <2>2. CASE s # t
    BY <1>4, <2>2 DEF Opened, Put, SubscribersInSync
  <2>. QED BY <2>1, <2>2
<1>. QED BY <1>1, <1>2, <1>3, <1>4 DEF FeedStep

\* Every open stream has been sent exactly what the poller has published, for
\* any number of streams, whichever of them break in the middle of a broadcast.
THEOREM SubscribersAlwaysInSync == Spec => []SubscribersInSync
<1>1. Init => SubscribersInSync
  BY DEF Init, EmptyMap, SubscribersInSync
<1>2. PollerInv /\ SubscribersInSync /\ [Next]_vars => SubscribersInSync'
  BY NextFeed, SyncStep
<1>. QED BY <1>1, <1>2, PollerInvariant, PTL DEF Spec

-----------------------------------------------------------------------------
(* Versions *)

\* No step takes a device's entry away or changes it under an old version.
LEMMA VersionStep ==
  ASSUME PollerInv, FeedStep, NEW u \in DOMAIN stateByUuid
  PROVE  /\ u \in DOMAIN stateByUuid'
         /\ Material(stateByUuid')[u] # Material(stateByUuid)[u] =>
              stateByUuid'[u].updatedAt > stateByUuid[u].updatedAt
<1>1. ASSUME NEW v \in Uuids, NEW next \in DeviceState, Published(v, next)
      PROVE  /\ u \in DOMAIN stateByUuid'
             /\ Material(stateByUuid')[u] # Material(stateByUuid)[u] =>
                  stateByUuid'[u].updatedAt > stateByUuid[u].updatedAt
  <2>1. stateByUuid' = Put(stateByUuid, v, next)
    BY <1>1 DEF Published
  <2>2. CASE u = v
    BY <1>1, <2>1, <2>2 DEF Published, Put
  <2>3. CASE u # v
    <3>1. Material(stateByUuid')[u] = Material(stateByUuid)[u]
      BY <2>1, <2>3 DEF Material, Put
    <3>. QED BY <2>1, <3>1 DEF Put
  <2>. QED BY <2>2, <2>3
<1>2. CASE Kept
  BY <1>2 DEF Kept
<1>3. CASE Broken
  BY <1>3 DEF Broken
<1>4. ASSUME NEW t \in SubscriberIds, Opened(t)
      PROVE  UNCHANGED stateByUuid
  BY <1>4 DEF Opened
<1>. QED BY <1>1, <1>2, <1>3, <1>4 DEF FeedStep

\* updatedAt is a version: an entry is never dropped, and a published change of
\* it always comes with a greater updatedAt, even when the clock was set back.
THEOREM UpdatedAtAlwaysIncreases == Spec => UpdatedAtIncreases
<1>. DEFINE A == \A u \in DOMAIN stateByUuid :
       /\ u \in DOMAIN stateByUuid'
       /\ Material(stateByUuid')[u] # Material(stateByUuid)[u] =>
            stateByUuid'[u].updatedAt > stateByUuid[u].updatedAt
<1>1. PollerInv /\ [Next]_vars => [A]_vars
  BY NextFeed, VersionStep
<1>2. UpdatedAtIncreases <=> [][A]_vars
  BY DEF UpdatedAtIncreases
<1>. HIDE DEF A
<1>. QED BY <1>1, <1>2, PollerInvariant, PTL DEF Spec

-----------------------------------------------------------------------------
(* Power readings in sync *)

\* A reading or a failure is stored, and pushed if its comparison finds a difference.
Recorded(u) ==
  \/ \E reading \in Readings :
       RecordPower(u, ReadPower(u, reading), ReadingChanged(u, ReadPower(u, reading)))
  \/ \E error \in Errors :
       RecordPower(u, StalePower(u, error), FailureChanged(u, StalePower(u, error)))

\* No reading is stored; streams may break, and the others keep theirs.
PowerKept ==
  /\ UNCHANGED powerByUuid
  /\ DOMAIN subscribers' \subseteq DOMAIN subscribers
  /\ \A s \in DOMAIN subscribers' : subscribers'[s].power = subscribers[s].power

PowerStep ==
  \/ \E u \in Uuids : Recorded(u)
  \/ PowerKept
  \/ \E s \in SubscriberIds : Opened(s) /\ UNCHANGED powerByUuid

\* A state that is pushed leaves the readings of a stream alone.
LEMMA BroadcastKeepsPower ==
  ASSUME PollerInv, NEW u, NEW next, BroadcastState(u, next), UNCHANGED powerByUuid
  PROVE  PowerKept
<1>1. PICK gone \in SUBSET DOMAIN subscribers :
        subscribers' = [s \in DOMAIN subscribers \ gone |->
          [subscribers[s] EXCEPT !.states = Put(@, u, next)]]
  BY DEF BroadcastState
<1>2. \A s \in DOMAIN subscribers :
        subscribers[s] = [states |-> subscribers[s].states, power |-> subscribers[s].power]
  BY DEF PollerInv, TypeOK, IsSubscriber
<1>. QED BY <1>1, <1>2 DEF PowerKept

\* Every step of the poller is a PowerStep.
LEMMA NextPower ==
  ASSUME PollerInv, [Next]_vars
  PROVE  PowerStep
<1>1. ASSUME UNCHANGED <<powerByUuid, subscribers>> PROVE PowerStep
  BY <1>1 DEF PowerStep, PowerKept
<1>2. CASE UNCHANGED vars
  BY <1>1, <1>2 DEF vars
<1>3. CASE TickSync \/ TickResume \/ TickNoSync
  BY <1>1, <1>3 DEF TickSync, TickResume, TickNoSync, powerVars
<1>4. ASSUME NEW o \in Owners, NEW u \in Uuids, PollReadConfig(o, u) \/ LanAnswer(o, u)
      PROVE  PowerStep
  BY <1>1, <1>4 DEF PollReadConfig, LanAnswer, powerVars
<1>5. ASSUME NEW o \in Owners, NEW u \in Uuids, PollSuccess(o, u) \/ PollFailure(o, u)
      PROVE  PowerStep
  <2>1. UNCHANGED powerByUuid
    BY <1>5 DEF PollSuccess, PollFailure, powerVars
  <2>2. UNCHANGED subscribers \/ \E next : BroadcastState(u, next)
    BY <1>5 DEF PollSuccess, PollFailure
  <2>. QED BY <1>1, <2>1, <2>2, BroadcastKeepsPower DEF PowerStep
<1>6. ASSUME NEW u \in Uuids, TelemetrySuccess(u) \/ TelemetryFailure(u)
      PROVE  PowerStep
  BY <1>6 DEF TelemetrySuccess, TelemetryFailure, Recorded, PowerStep
<1>7. ASSUME NEW u \in Uuids, TelemetrySkip(u) PROVE PowerStep
  BY <1>1, <1>7 DEF TelemetrySkip
<1>8. ASSUME NEW u \in Uuids, NEW host,
             \/ ResolveWrite(u) \/ ResolveDone(u) \/ ResolveGiveUp(u)
             \/ ResolveFound(u, host)
      PROVE  PowerStep
  BY <1>1, <1>8 DEF ResolveWrite, ResolveDone, ResolveGiveUp, ResolveFound, powerVars
<1>9. ASSUME NEW r, NEW u, NEW asked, NEW reason,
             \/ PollNowResume(r) \/ PollNowReturn(r) \/ PollNow(r, asked, reason)
             \/ ControlDone(r, u) \/ WorkerNext(r, u) \/ WorkerReturn(r, u)
      PROVE  PowerStep
  BY <1>1, <1>9 DEF PollNowResume, PollNowReturn, PollNow, ControlDone, WorkerNext,
                    WorkerReturn, powerVars
<1>10. ASSUME NEW s \in SubscriberIds, CreateStream(s)
       PROVE  PowerStep
  BY <1>10 DEF CreateStream, Opened, PowerStep, powerVars
<1>11. ASSUME NEW s \in SubscriberIds, CancelStream(s)
       PROVE  PowerStep
  BY <1>11 DEF CancelStream, PowerKept, PowerStep, powerVars, Drop
<1>12. CASE \/ ClockAdvances \/ ClockSetBack
            \/ \E hosts \in HostMaps : ConfigChanges(hosts)
            \/ \E host \in Hosts, val \in Values : DeviceChanges(host, val)
  BY <1>1, <1>12 DEF ClockAdvances, ClockSetBack, SetClock, ConfigChanges, DeviceChanges, powerVars
<1>. QED BY <1>2, <1>3, <1>4, <1>5, <1>6, <1>7, <1>8, <1>9, <1>10, <1>11, <1>12 DEF Next

\* Two maps with the same measurements keep them the same when both store a reading.
LEMMA MeasuredPutSame ==
  ASSUME NEW a, NEW b, NEW u, NEW next, Measured(a) = Measured(b)
  PROVE  Measured(Put(a, u, next)) = Measured(Put(b, u, next))
<1>. DEFINE ma == Measured(Put(a, u, next))
            mb == Measured(Put(b, u, next))
<1>1. DOMAIN a = DOMAIN b
  BY DEF Measured
<1>2. DOMAIN ma = DOMAIN b \cup {u} /\ DOMAIN mb = DOMAIN b \cup {u}
  BY <1>1 DEF Measured, Put
<1>3. ASSUME NEW v \in DOMAIN b \cup {u}
      PROVE  ma[v] = mb[v]
  <2>1. CASE v = u
    BY <1>1, <2>1 DEF Measured, Put
  <2>2. CASE v # u
    <3>1. ma[v] = Measured(a)[v] /\ mb[v] = Measured(b)[v]
      BY <1>1, <2>2 DEF Measured, Put
    <3>. QED BY <3>1
  <2>. QED BY <2>1, <2>2
<1>4. ma = [v \in DOMAIN ma |-> ma[v]] /\ mb = [v \in DOMAIN mb |-> mb[v]]
  BY DEF Measured
<1>. HIDE DEF ma, mb
<1>5. ma = mb
  BY <1>2, <1>3, <1>4
<1>. QED BY <1>5 DEF ma, mb

\* Storing an entry that measures the same changes no measurement.
LEMMA MeasuredUnchanged ==
  ASSUME NEW u \in DOMAIN powerByUuid, NEW next,
         powerByUuid[u].stale = next.stale, powerByUuid[u].error = next.error,
         powerByUuid[u].reading = next.reading
  PROVE  Measured(Put(powerByUuid, u, next)) = Measured(powerByUuid)
<1>. DEFINE new == Measured(Put(powerByUuid, u, next))
            old == Measured(powerByUuid)
<1>2. DOMAIN new = DOMAIN powerByUuid /\ DOMAIN old = DOMAIN powerByUuid
  BY DEF Measured, Put
<1>3. \A v \in DOMAIN powerByUuid : new[v] = old[v]
  BY DEF Measured, Put
<1>4. new = [v \in DOMAIN new |-> new[v]] /\ old = [v \in DOMAIN old |-> old[v]]
  BY DEF Measured
<1>. HIDE DEF new, old
<1>5. new = old
  BY <1>2, <1>3, <1>4
<1>. QED BY <1>5 DEF new, old

\* A reading whose comparison finds no difference has none, not even in the error it
\* is not asked for: both entries are not stale, so neither has one.
LEMMA ReadingSame ==
  ASSUME PollerInv, ErrorIffStale, NEW u \in Uuids, NEW reading \in Readings,
         ~ReadingChanged(u, ReadPower(u, reading))
  PROVE  Measured(Put(powerByUuid, u, ReadPower(u, reading))) = Measured(powerByUuid)
<1>. DEFINE next == ReadPower(u, reading)
<1>1. next.stale = FALSE /\ next.error = "" /\ next.reading = reading
  BY DEF ReadPower
<1>. HIDE DEF next
<1>2. /\ u \in DOMAIN powerByUuid
      /\ powerByUuid[u].stale = next.stale
      /\ powerByUuid[u].reading.powerW = next.reading.powerW
      /\ powerByUuid[u].reading.supply = next.reading.supply
  BY DEF ReadingChanged, next
<1>3. powerByUuid[u].reading \in Readings
  BY <1>2 DEF PollerInv, TypeOK, IsMap, DevicePower
<1>4. powerByUuid[u].reading = next.reading
  <2>1. PICK w1, v1 : powerByUuid[u].reading = [powerW |-> w1, supply |-> v1]
    BY <1>3 DEF Readings
  <2>2. PICK w2, v2 : next.reading = [powerW |-> w2, supply |-> v2]
    BY <1>1 DEF Readings
  <2>. QED BY <1>2, <2>1, <2>2
<1>5. powerByUuid[u].error = next.error
  BY <1>1, <1>2 DEF ErrorIffStale
<1>6. Measured(Put(powerByUuid, u, next)) = Measured(powerByUuid)
  BY <1>2, <1>4, <1>5, MeasuredUnchanged
<1>. QED BY <1>6 DEF next

\* A failure whose comparison finds no difference has none: it keeps the voltage and
\* the current it is not asked for.
LEMMA FailureSame ==
  ASSUME NEW u \in Uuids, NEW error, ~FailureChanged(u, StalePower(u, error))
  PROVE  Measured(Put(powerByUuid, u, StalePower(u, error))) = Measured(powerByUuid)
<1>. DEFINE next == StalePower(u, error)
<1>1. /\ u \in DOMAIN powerByUuid
      /\ powerByUuid[u].stale = next.stale
      /\ powerByUuid[u].error = next.error
  BY DEF FailureChanged
<1>2. powerByUuid[u].reading = next.reading
  BY <1>1 DEF StalePower
<1>. HIDE DEF next
<1>3. Measured(Put(powerByUuid, u, next)) = Measured(powerByUuid)
  BY <1>1, <1>2, MeasuredUnchanged
<1>. QED BY <1>3 DEF next

\* Every entry stored has an error only if it is stale.
LEMMA RecordedErrors ==
  ASSUME ErrorIffStale, PowerStep
  PROVE  ErrorIffStale'
<1>1. CASE UNCHANGED powerByUuid
  BY <1>1 DEF ErrorIffStale
<1>2. ASSUME NEW u, NEW next, next.error # "" => next.stale, powerByUuid' = Put(powerByUuid, u, next)
      PROVE  ErrorIffStale'
  BY <1>2 DEF ErrorIffStale, Put
<1>3. ASSUME NEW u, Recorded(u) PROVE ErrorIffStale'
  <2>1. ASSUME NEW reading PROVE ReadPower(u, reading).error = ""
    BY DEF ReadPower
  <2>2. ASSUME NEW error PROVE StalePower(u, error).stale
    BY DEF StalePower
  <2>3. CASE \E reading : powerByUuid' = Put(powerByUuid, u, ReadPower(u, reading))
    BY <2>1, <2>3, <1>2
  <2>4. CASE \E error : powerByUuid' = Put(powerByUuid, u, StalePower(u, error))
    BY <2>2, <2>4, <1>2
  <2>. QED BY <1>3, <2>3, <2>4 DEF Recorded, RecordPower
<1>. QED BY <1>1, <1>3 DEF PowerStep, PowerKept

\* An entry that is stored, and pushed unless it measures the same, leaves every open
\* stream with the stored measurements.
LEMMA RecordedSync ==
  ASSUME PollerInv, PowerInSync, NEW u \in Uuids, NEW next, NEW changed,
         RecordPower(u, next, changed),
         ~changed => Measured(Put(powerByUuid, u, next)) = Measured(powerByUuid)
  PROVE  \A s \in DOMAIN subscribers' : Measured(subscribers'[s].power) = Measured(powerByUuid')
<1>. SUFFICES ASSUME NEW s \in DOMAIN subscribers'
              PROVE  Measured(subscribers'[s].power) = Measured(powerByUuid')
  OBVIOUS
<1>1. powerByUuid' = Put(powerByUuid, u, next)
  BY DEF RecordPower
<1>2. CASE changed
  <2>1. PICK gone \in SUBSET DOMAIN subscribers :
          subscribers' = [x \in DOMAIN subscribers \ gone |->
            [subscribers[x] EXCEPT !.power = Put(@, u, next)]]
    BY <1>2 DEF RecordPower, BroadcastPower
  <2>2. \A x \in DOMAIN subscribers :
          subscribers[x] = [states |-> subscribers[x].states, power |-> subscribers[x].power]
    BY DEF PollerInv, TypeOK, IsSubscriber
  <2>3. s \in DOMAIN subscribers /\ subscribers'[s].power = Put(subscribers[s].power, u, next)
    BY <2>1, <2>2
  <2>4. Measured(subscribers[s].power) = Measured(powerByUuid)
    BY <2>3 DEF PowerInSync
  <2>5. Measured(Put(subscribers[s].power, u, next)) = Measured(Put(powerByUuid, u, next))
    BY <2>4, MeasuredPutSame
  <2>. QED BY <1>1, <2>3, <2>5
<1>3. CASE ~changed
  <2>1. UNCHANGED subscribers
    BY <1>3 DEF RecordPower
  <2>. QED BY <1>1, <1>3, <2>1 DEF PowerInSync
<1>. QED BY <1>2, <1>3

\* No step leaves an open stream with anything but the stored measurements.
LEMMA PowerSyncStep ==
  ASSUME PollerInv, PowerInSync, PowerStep
  PROVE  PowerInSync'
<1>0. ErrorIffStale /\ ErrorIffStale'
  BY RecordedErrors DEF PowerInSync
<1>. SUFFICES \A s \in DOMAIN subscribers' : Measured(subscribers'[s].power) = Measured(powerByUuid')
  BY <1>0 DEF PowerInSync
<1>1. ASSUME NEW u \in Uuids, Recorded(u)
      PROVE  \A s \in DOMAIN subscribers' : Measured(subscribers'[s].power) = Measured(powerByUuid')
  <2>1. ASSUME NEW reading \in Readings,
               RecordPower(u, ReadPower(u, reading), ReadingChanged(u, ReadPower(u, reading)))
        PROVE  \A s \in DOMAIN subscribers' : Measured(subscribers'[s].power) = Measured(powerByUuid')
    BY <1>0, <2>1, ReadingSame, RecordedSync
  <2>2. ASSUME NEW error \in Errors,
               RecordPower(u, StalePower(u, error), FailureChanged(u, StalePower(u, error)))
        PROVE  \A s \in DOMAIN subscribers' : Measured(subscribers'[s].power) = Measured(powerByUuid')
    BY <2>2, FailureSame, RecordedSync
  <2>. QED BY <1>1, <2>1, <2>2 DEF Recorded
<1>2. CASE PowerKept
  BY <1>2 DEF PowerKept, PowerInSync
<1>3. ASSUME NEW t \in SubscriberIds, Opened(t), UNCHANGED powerByUuid, NEW s \in DOMAIN subscribers'
      PROVE  Measured(subscribers'[s].power) = Measured(powerByUuid')
  <2>1. CASE s = t
    BY <1>3, <2>1 DEF Opened, Put
  <2>2. CASE s # t
    BY <1>3, <2>2 DEF Opened, Put, PowerInSync
  <2>. QED BY <2>1, <2>2
<1>. QED BY <1>1, <1>2, <1>3 DEF PowerStep

\* Every open stream shows the power, voltage, current, staleness and error stored for
\* each plug, although a success is pushed without looking at the error and a failure
\* without looking at voltage and current.
THEOREM PowerAlwaysInSync == Spec => []PowerInSync
<1>1. Init => PowerInSync
  BY DEF Init, EmptyMap, PowerInSync, ErrorIffStale
<1>2. PollerInv /\ PowerInSync /\ [Next]_vars => PowerInSync'
  BY NextPower, PowerSyncStep
<1>. QED BY <1>1, <1>2, PollerInvariant, PTL DEF Spec

-----------------------------------------------------------------------------
(* Staleness and failures *)

\* What is published for a device has a PollMeta beside it, which is never dropped.
StatesHaveMeta == DOMAIN stateByUuid \subseteq DOMAIN metaByUuid

\* Failure counts stay, and a new PollMeta starts without failures.
CountsKept ==
  /\ UNCHANGED stateByUuid
  /\ DOMAIN metaByUuid \subseteq DOMAIN metaByUuid'
  /\ \A u \in DOMAIN metaByUuid : metaByUuid'[u].failureCount = metaByUuid[u].failureCount
  /\ \A u \in DOMAIN metaByUuid' \ DOMAIN metaByUuid : metaByUuid'[u].failureCount = 0

\* A poll of u ended: its entry and its count say how, and no other entry changes.
PollEnded(u, failed) ==
  /\ u \in DOMAIN metaByUuid
  /\ DOMAIN metaByUuid' = DOMAIN metaByUuid
  /\ metaByUuid'[u].failureCount > 0 <=> failed
  /\ DOMAIN stateByUuid' = DOMAIN stateByUuid \cup {u}
  /\ stateByUuid'[u].stale = failed
  /\ \A v \in DOMAIN metaByUuid \ {u} : metaByUuid'[v] = metaByUuid[v]
  /\ \A v \in DOMAIN stateByUuid \ {u} : stateByUuid'[v] = stateByUuid[v]

\* A successful poll publishes a fresh entry and resets the count.
LEMMA PollSuccessEnds ==
  ASSUME PollerInv, NEW o \in Owners, NEW u \in Uuids, PollSuccess(o, u)
  PROVE  PollEnded(u, FALSE)
<1>. DEFINE t == tasks[<<o, u>>]
            next == [host |-> t.host, val |-> t.val, stale |-> FALSE,
                     updatedAt |-> NextUpdatedAt(stateByUuid, u), source |-> t.reason]
            changed == HasMaterialStateChange(u, next)
            meta == [metaByUuid[u] EXCEPT !.failureCount = 0,
                                          !.lastChangeAt = IF changed THEN t.now ELSE @]
<1>1. /\ <<o, u>> \in DOMAIN tasks
      /\ IF changed THEN stateByUuid' = Put(stateByUuid, u, next)
                    ELSE stateByUuid' = [stateByUuid EXCEPT ![u].source = t.reason]
      /\ \E d \in NextIntervalMs(meta, t.now) :
           metaByUuid' = [metaByUuid EXCEPT ![u] = [meta EXCEPT !.nextDueAt = t.now + d]]
  BY DEF PollSuccess
<1>2. u \in DOMAIN metaByUuid /\ metaByUuid[u] \in PollMeta
  <2>1. u \in DOMAIN metaByUuid
    BY <1>1 DEF PollerInv, MetaExists
  <2>. QED BY <2>1 DEF PollerInv, TypeOK, IsMap
<1>3. IsMap(stateByUuid, Uuids, DeviceState) /\ IsMap(metaByUuid, Uuids, PollMeta)
  BY DEF PollerInv, TypeOK
<1>4. /\ DOMAIN metaByUuid' = DOMAIN metaByUuid /\ metaByUuid'[u].failureCount = 0
      /\ \A v \in DOMAIN metaByUuid \ {u} : metaByUuid'[v] = metaByUuid[v]
  <2>1. PICK d : metaByUuid' = [metaByUuid EXCEPT ![u] = [meta EXCEPT !.nextDueAt = t.now + d]]
    BY <1>1
  <2>2. \A n : [meta EXCEPT !.nextDueAt = n].failureCount = 0
    BY <1>2 DEF PollMeta
  <2>. HIDE DEF meta
  <2>. QED BY <1>2, <1>3, <2>1, <2>2 DEF IsMap
<1>5. CASE changed
  BY <1>1, <1>2, <1>4, <1>5 DEF Put, PollEnded
<1>6. CASE ~changed
  <2>1. u \in DOMAIN stateByUuid /\ stateByUuid[u].stale = FALSE
    BY <1>6 DEF HasMaterialStateChange
  <2>2. stateByUuid[u] \in DeviceState
    BY <1>3, <2>1 DEF IsMap
  <2>3. [stateByUuid[u] EXCEPT !.source = t.reason].stale = FALSE
    BY <2>1, <2>2 DEF DeviceState
  <2>. HIDE DEF t
  <2>4. stateByUuid' = [stateByUuid EXCEPT ![u] = [stateByUuid[u] EXCEPT !.source = t.reason]]
    BY <1>1, <1>6
  <2>5. /\ DOMAIN stateByUuid' = DOMAIN stateByUuid \cup {u}
        /\ stateByUuid'[u].stale = FALSE
        /\ \A v \in DOMAIN stateByUuid \ {u} : stateByUuid'[v] = stateByUuid[v]
    BY <1>3, <2>1, <2>3, <2>4 DEF IsMap
  <2>. QED BY <1>2, <1>4, <2>5 DEF PollEnded
<1>. QED BY <1>5, <1>6

\* A failed poll publishes a stale entry, if it is not stale already, and counts.
LEMMA PollFailureEnds ==
  ASSUME PollerInv, NEW o \in Owners, NEW u \in Uuids, PollFailure(o, u)
  PROVE  PollEnded(u, TRUE)
<1>. DEFINE t == tasks[<<o, u>>]
            next == StaleState(u, t.reason)
            failed == CountFailure(u)
            resolve == StartsResolve(u, failed)
<1>1. /\ <<o, u>> \in DOMAIN tasks
      /\ IF HasMaterialStateChange(u, next) THEN stateByUuid' = Put(stateByUuid, u, next)
                                            ELSE UNCHANGED stateByUuid
      /\ \E d \in NextIntervalMs(failed, t.now) :
           metaByUuid' = [metaByUuid EXCEPT ![u] =
             [failed EXCEPT !.nextDueAt = t.now + d,
                            !.lastResolveAttemptAt = IF resolve THEN clock ELSE @]]
  BY DEF PollFailure
<1>2. u \in DOMAIN metaByUuid /\ metaByUuid[u] \in PollMeta
  <2>1. u \in DOMAIN metaByUuid
    BY <1>1 DEF PollerInv, MetaExists
  <2>. QED BY <2>1 DEF PollerInv, TypeOK, IsMap
<1>3. IsMap(stateByUuid, Uuids, DeviceState) /\ IsMap(metaByUuid, Uuids, PollMeta)
  BY DEF PollerInv, TypeOK
<1>4. /\ DOMAIN metaByUuid' = DOMAIN metaByUuid /\ metaByUuid'[u].failureCount > 0
      /\ \A v \in DOMAIN metaByUuid \ {u} : metaByUuid'[v] = metaByUuid[v]
  <2>1. PICK d : metaByUuid' = [metaByUuid EXCEPT ![u] =
                   [failed EXCEPT !.nextDueAt = t.now + d,
                                  !.lastResolveAttemptAt = IF resolve THEN clock ELSE @]]
    BY <1>1
  <2>. DEFINE m == [failed EXCEPT !.nextDueAt = t.now + d,
                                  !.lastResolveAttemptAt = IF resolve THEN clock ELSE @]
  <2>2. failed \in PollMeta /\ failed.failureCount = metaByUuid[u].failureCount + 1
    BY <1>2 DEF CountFailure, PollMeta
  <2>3. metaByUuid[u].failureCount \in Nat
    BY <1>2 DEF PollMeta
  <2>. HIDE DEF failed, resolve, t
  <2>4. m.failureCount = metaByUuid[u].failureCount + 1
    BY <2>2 DEF PollMeta
  <2>5. m.failureCount > 0
    BY <2>3, <2>4
  <2>6. metaByUuid' = [metaByUuid EXCEPT ![u] = m]
    BY <2>1
  <2>. HIDE DEF m
  <2>. QED BY <1>2, <1>3, <2>5, <2>6 DEF IsMap
<1>5. next.stale = TRUE
  BY DEF StaleState
<1>6. CASE HasMaterialStateChange(u, next)
  <2>. HIDE DEF next
  <2>. QED BY <1>1, <1>2, <1>4, <1>5, <1>6 DEF Put, PollEnded
<1>7. CASE ~HasMaterialStateChange(u, next)
  <2>1. u \in DOMAIN stateByUuid /\ stateByUuid[u].stale = TRUE
    BY <1>5, <1>7 DEF HasMaterialStateChange
  <2>. QED BY <1>1, <1>2, <1>4, <1>7, <2>1 DEF PollEnded
<1>. QED BY <1>6, <1>7

\* A tick, or a call of a handler, creates and boosts entries.
LEMMA EnsureCounts ==
  ASSUME PollerInv, UNCHANGED stateByUuid, NEW S \in SUBSET Uuids, NEW T \in SUBSET Uuids,
         \/ metaByUuid' = EnsureMeta(metaByUuid, S)
         \/ metaByUuid' = BoostDevices(EnsureMeta(metaByUuid, S), T)
         \/ metaByUuid' = BoostDevices(metaByUuid, S)
  PROVE  CountsKept
<1>. DEFINE m == EnsureMeta(metaByUuid, S)
<1>0. TypeOK /\ IsMap(metaByUuid, Uuids, PollMeta)
  BY DEF PollerInv, TypeOK
<1>1. CreateMeta.failureCount = 0
  BY DEF CreateMeta
<1>2. /\ IsMap(m, Uuids, PollMeta) /\ DOMAIN m = DOMAIN metaByUuid \cup S
      /\ \A v \in DOMAIN metaByUuid : m[v] = metaByUuid[v]
      /\ \A v \in S \ DOMAIN metaByUuid : m[v] = CreateMeta
  BY <1>0, EnsureMetaType
<1>. HIDE DEF m
<1>3. CASE metaByUuid' = m
  BY <1>1, <1>2, <1>3 DEF CountsKept
<1>4. CASE metaByUuid' = BoostDevices(m, T)
  <2>1. /\ DOMAIN metaByUuid' = DOMAIN m \cup T
        /\ \A v \in DOMAIN m : metaByUuid'[v].failureCount = m[v].failureCount
        /\ \A v \in T \ DOMAIN m : metaByUuid'[v].failureCount = 0
    <3>1. IsMap(m, Uuids, PollMeta)
      BY <1>2
    <3>. QED BY <1>0, <1>4, <3>1, BoostType
  <2>. QED BY <1>1, <1>2, <2>1 DEF CountsKept
<1>5. CASE metaByUuid' = BoostDevices(metaByUuid, S)
  <2>1. /\ DOMAIN metaByUuid' = DOMAIN metaByUuid \cup S
        /\ \A v \in DOMAIN metaByUuid : metaByUuid'[v].failureCount = metaByUuid[v].failureCount
        /\ \A v \in S \ DOMAIN metaByUuid : metaByUuid'[v].failureCount = 0
    BY <1>0, <1>5, BoostType
  <2>. QED BY <2>1 DEF CountsKept
<1>. QED BY <1>3, <1>4, <1>5 DEF m

\* pollNow boosts what it polls, a control handler what it changed.
LEMMA CallCounts ==
  ASSUME PollerInv, NEW r \in RequestIds,
         PollNowResume(r) \/ \E u \in Uuids : ControlDone(r, u)
  PROVE  CountsKept
<1>1. CASE PollNowResume(r)
  <2>. DEFINE q == requests[r]
              uuids == IF q.asked = {} THEN DOMAIN q.cfg ELSE q.asked
  <2>1. /\ r \in DOMAIN requests /\ UNCHANGED stateByUuid
        /\ metaByUuid' = BoostDevices(EnsureMeta(metaByUuid, DOMAIN q.cfg), uuids)
    BY <1>1 DEF PollNowResume
  <2>2. q \in Request
    BY <2>1 DEF PollerInv, TypeOK, IsMap
  <2>3. q.cfg \in MapsOf(Uuids, Hosts) /\ q.asked \in SUBSET Uuids
    BY <2>2 DEF Request, HostMaps
  <2>4. DOMAIN q.cfg \in SUBSET Uuids
    BY <2>3, MapsOfIsMap DEF IsMap
  <2>5. uuids \in SUBSET Uuids
    BY <2>3, <2>4
  <2>. HIDE DEF q, uuids
  <2>. QED BY <2>1, <2>4, <2>5, EnsureCounts
<1>2. ASSUME NEW u \in Uuids, ControlDone(r, u) PROVE CountsKept
  <2>1. metaByUuid' = BoostDevices(metaByUuid, {u}) /\ UNCHANGED stateByUuid /\ {u} \in SUBSET Uuids
    BY <1>2 DEF ControlDone
  <2>. QED BY <2>1, EnsureCounts
<1>. QED BY <1>1, <1>2

\* Telemetry and resolutions change other fields of an entry.
LEMMA EndedCounts ==
  ASSUME PollerInv, NEW u \in Uuids,
         TelemetrySuccess(u) \/ TelemetryFailure(u) \/ TelemetrySkip(u) \/ ResolveDone(u)
  PROVE  CountsKept
<1>0. IsMap(metaByUuid, Uuids, PollMeta)
  BY DEF PollerInv, TypeOK
<1>1. UNCHANGED stateByUuid
  BY DEF TelemetrySuccess, TelemetryFailure, TelemetrySkip, ResolveDone
<1>2. u \in DOMAIN metaByUuid
  BY DEF TelemetrySuccess, TelemetryFailure, TelemetrySkip, ResolveDone, PollerInv, MetaExists
<1>3. metaByUuid[u] \in PollMeta
  BY <1>0, <1>2 DEF IsMap
<1>4. PICK m : metaByUuid' = [metaByUuid EXCEPT ![u] = m] /\ m.failureCount = metaByUuid[u].failureCount
  <2>1. CASE TelemetrySuccess(u) \/ TelemetryFailure(u) \/ TelemetrySkip(u)
    <3>1. PICK due, n : metaByUuid' = [metaByUuid EXCEPT ![u] =
            [metaByUuid[u] EXCEPT !.telemetryNextDueAt = due, !.telemetryFailureCount = n]]
      BY <2>1 DEF TelemetrySuccess, TelemetryFailure, TelemetrySkip, EndTelemetry
    <3>2. [metaByUuid[u] EXCEPT !.telemetryNextDueAt = due, !.telemetryFailureCount = n].failureCount
            = metaByUuid[u].failureCount
      BY <1>3 DEF PollMeta
    <3>. QED BY <3>1, <3>2
  <2>2. CASE ResolveDone(u)
    <3>1. metaByUuid' = [metaByUuid EXCEPT ![u] =
            [metaByUuid[u] EXCEPT !.boostUntilAt = clock + BOOST_WINDOW_MS, !.nextDueAt = clock]]
      BY <2>2 DEF ResolveDone
    <3>2. [metaByUuid[u] EXCEPT !.boostUntilAt = clock + BOOST_WINDOW_MS, !.nextDueAt = clock].failureCount
            = metaByUuid[u].failureCount
      BY <1>3 DEF PollMeta
    <3>. QED BY <3>1, <3>2
  <2>. QED BY <2>1, <2>2
<1>. QED BY <1>0, <1>1, <1>2, <1>4 DEF CountsKept, IsMap

\* Every step keeps the counts and the states, or ends one poll.
LEMMA NextCounts ==
  ASSUME PollerInv, [Next]_vars
  PROVE  CountsKept \/ \E u \in Uuids, failed \in BOOLEAN : PollEnded(u, failed)
<1>1. ASSUME UNCHANGED <<metaByUuid, stateByUuid>> PROVE CountsKept
  BY <1>1 DEF CountsKept
<1>2. CASE UNCHANGED vars
  BY <1>1, <1>2 DEF vars
<1>3. CASE TickSync \/ TickNoSync
  BY <1>1, <1>3 DEF TickSync, TickNoSync
<1>4. ASSUME NEW o \in Owners, NEW u \in Uuids, PollReadConfig(o, u) \/ LanAnswer(o, u)
      PROVE  CountsKept
  BY <1>1, <1>4 DEF PollReadConfig, LanAnswer
<1>5. ASSUME NEW o \in Owners, NEW u \in Uuids, PollSuccess(o, u) \/ PollFailure(o, u)
      PROVE  \E v \in Uuids, failed \in BOOLEAN : PollEnded(v, failed)
  BY <1>5, PollSuccessEnds, PollFailureEnds
<1>6. CASE TickResume
  <2>1. UNCHANGED stateByUuid /\ metaByUuid' = EnsureMeta(metaByUuid, DOMAIN tickCfg)
        /\ DOMAIN tickCfg \in SUBSET Uuids
    BY <1>6, MapsOfIsMap DEF TickResume, PollerInv, TypeOK, HostMaps, IsMap
  <2>. DEFINE S == DOMAIN tickCfg
  <2>2. S \in SUBSET Uuids /\ metaByUuid' = EnsureMeta(metaByUuid, S)
    BY <2>1
  <2>. HIDE DEF S
  <2>. QED BY <2>1, <2>2, EnsureCounts
<1>7. ASSUME NEW u \in Uuids,
             TelemetrySuccess(u) \/ TelemetryFailure(u) \/ TelemetrySkip(u) \/ ResolveDone(u)
      PROVE  CountsKept
  BY <1>7, EndedCounts
<1>8. ASSUME NEW u, NEW host, ResolveWrite(u) \/ ResolveGiveUp(u) \/ ResolveFound(u, host)
      PROVE  CountsKept
  BY <1>1, <1>8 DEF ResolveWrite, ResolveGiveUp, ResolveFound
<1>9. ASSUME NEW r \in RequestIds, PollNowResume(r) \/ \E u \in Uuids : ControlDone(r, u)
      PROVE  CountsKept
  BY <1>9, CallCounts
<1>10. ASSUME NEW r, NEW u, NEW asked, NEW reason,
              \/ PollNowReturn(r) \/ PollNow(r, asked, reason)
              \/ WorkerNext(r, u) \/ WorkerReturn(r, u)
       PROVE  CountsKept
  BY <1>1, <1>10 DEF PollNowReturn, PollNow, WorkerNext, WorkerReturn
<1>11. ASSUME NEW s, CreateStream(s) \/ CancelStream(s) PROVE CountsKept
  BY <1>1, <1>11 DEF CreateStream, CancelStream
<1>12. CASE \/ ClockAdvances \/ ClockSetBack
            \/ \E hosts \in HostMaps : ConfigChanges(hosts)
            \/ \E host \in Hosts, val \in Values : DeviceChanges(host, val)
  BY <1>1, <1>12 DEF ClockAdvances, ClockSetBack, SetClock, ConfigChanges, DeviceChanges
<1>. QED BY <1>2, <1>3, <1>4, <1>5, <1>6, <1>7, <1>8, <1>9, <1>10, <1>11, <1>12 DEF Next

\* The published staleness and the failure counts never part.
LEMMA StaleStep ==
  ASSUME PollerInv, StatesHaveMeta, StaleIffFailing, [Next]_vars
  PROVE  StatesHaveMeta' /\ StaleIffFailing'
<1>1. CASE CountsKept
  BY <1>1 DEF CountsKept, StatesHaveMeta, StaleIffFailing
<1>2. ASSUME NEW u \in Uuids, NEW failed \in BOOLEAN, PollEnded(u, failed)
      PROVE  StatesHaveMeta' /\ StaleIffFailing'
  <2>1. StatesHaveMeta'
    BY <1>2 DEF PollEnded, StatesHaveMeta
  <2>2. ASSUME NEW v \in DOMAIN metaByUuid'
        PROVE  /\ metaByUuid'[v].failureCount > 0 => v \in DOMAIN stateByUuid'
               /\ v \in DOMAIN stateByUuid' =>
                    (stateByUuid'[v].stale <=> metaByUuid'[v].failureCount > 0)
    <3>1. CASE v = u
      BY <1>2, <3>1 DEF PollEnded
    <3>2. CASE v # u
      BY <1>2, <3>2 DEF PollEnded, StaleIffFailing
    <3>. QED BY <3>1, <3>2
  <2>. QED BY <2>1, <2>2 DEF StaleIffFailing
<1>. QED BY <1>1, <1>2, NextCounts

\* A device is shown stale exactly while its last finished poll failed, whichever
\* boosts, telemetry polls and resolutions write its PollMeta in between.
THEOREM StaleAlwaysIffFailing == Spec => []StaleIffFailing
<1>1. Init => StatesHaveMeta /\ StaleIffFailing
  BY DEF Init, EmptyMap, StatesHaveMeta, StaleIffFailing
<1>2. PollerInv /\ (StatesHaveMeta /\ StaleIffFailing) /\ [Next]_vars
        => (StatesHaveMeta /\ StaleIffFailing)'
  BY StaleStep
<1>. QED BY <1>1, <1>2, PollerInvariant, PTL DEF Spec

-----------------------------------------------------------------------------
(* Refinement *)

\* The feed's own map is that of this module.
LEMMA FeedPut ==
  ASSUME NEW m, NEW k, NEW v
  PROVE  Feed!Put(m, k, v) = Put(m, k, v)
BY DEF Feed!Put, Put

\* The initial states of the poller are initial states of the feed.
LEMMA InitRefines == Init => Feed!Init
BY DEF Init, EmptyMap, Feed!Init, Feed!EmptyMap, Material

\* Every step of the poller is a step of the feed, or none.
LEMMA StepRefines ==
  ASSUME PollerInv, FeedStep
  PROVE  [Feed!Next]_<<Material(stateByUuid),
                       [s \in DOMAIN subscribers |-> Material(subscribers[s].states)]>>
<1>. DEFINE feed == Material(stateByUuid)
            clients == [s \in DOMAIN subscribers |-> Material(subscribers[s].states)]
            feedNext == Material(stateByUuid')
            clientsNext == [s \in DOMAIN subscribers' |-> Material(subscribers'[s].states)]
<1>0. feed' = feedNext /\ clients' = clientsNext
  OBVIOUS
<1>1. ASSUME NEW u \in Uuids, NEW next \in DeviceState, Published(u, next)
      PROVE  Feed!Publish
  <2>1. stateByUuid' = Put(stateByUuid, u, next) /\ BroadcastState(u, next)
    BY <1>1 DEF Published
  <2>2. u \in DOMAIN feedNext
    BY <2>1 DEF Material, Put
  <2>3. feedNext = Put(feed, u, feedNext[u])
    BY <2>1 DEF Material, Put
  <2>4. u \in DOMAIN feed => feedNext[u].updatedAt > feed[u].updatedAt
    BY <1>1 DEF Published, Material, Put
  <2>5. /\ DOMAIN subscribers' \subseteq DOMAIN subscribers
        /\ \A s \in DOMAIN subscribers' :
             subscribers'[s].states = Put(subscribers[s].states, u, next)
    BY <2>1, BroadcastStates
  <2>6. DOMAIN clientsNext \subseteq DOMAIN clients
    BY <2>5
  <2>7. ASSUME NEW s \in DOMAIN subscribers'
        PROVE  clientsNext[s] = Put(clients[s], u, feedNext[u])
    <3>1. clientsNext[s] = Material(Put(subscribers[s].states, u, next))
          /\ clients[s] = Material(subscribers[s].states)
      BY <2>5
    <3>2. feedNext[u] = [host |-> next.host, val |-> next.val, stale |-> next.stale,
                         updatedAt |-> next.updatedAt]
      BY <2>1 DEF Material, Put
    <3>3. Material(Put(subscribers[s].states, u, next)) =
            Put(Material(subscribers[s].states), u,
                [host |-> next.host, val |-> next.val, stale |-> next.stale,
                 updatedAt |-> next.updatedAt])
      BY DEF Material, Put
    <3>. QED BY <3>1, <3>2, <3>3
  <2>8. clientsNext = [s \in DOMAIN clientsNext |-> Put(clients[s], u, feedNext[u])]
    BY <2>7
  <2>. QED BY <1>0, <2>2, <2>3, <2>4, <2>6, <2>8, FeedPut DEF Feed!Publish
<1>2. CASE Kept
  BY <1>2 DEF Kept
<1>3. CASE Broken
  <2>1. feedNext = feed
    BY <1>3 DEF Broken
  <2>2. clientsNext = [s \in DOMAIN clients \ (DOMAIN clients \ DOMAIN subscribers') |-> clients[s]]
    BY <1>3 DEF Broken
  <2>3. Feed!Disconnect
    BY <1>0, <2>1, <2>2 DEF Feed!Disconnect
  <2>. QED BY <2>3 DEF Feed!Next
<1>4. ASSUME NEW t \in SubscriberIds, Opened(t)
      PROVE  Feed!Connect
  <2>1. feedNext = feed
    BY <1>4 DEF Opened
  <2>2. t \in DOMAIN clientsNext \ DOMAIN clients
    BY <1>4 DEF Opened, Put
  <2>3. clientsNext = Put(clients, t, feed)
    BY <1>4 DEF Opened, Put
  <2>. QED BY <1>0, <2>1, <2>2, <2>3, FeedPut DEF Feed!Connect
<1>. QED BY <1>1, <1>2, <1>3, <1>4 DEF FeedStep, Feed!Next

\* The poller implements the abstract feed: polling, joining, backoff, stale
\* marking and broken streams only ever publish newer entries, to every client
\* that is connected, or connect and disconnect clients.
THEOREM PollerImplementsFeed == Spec => ImplementsFeed
<1>1. PollerInv /\ [Next]_vars =>
        [Feed!Next]_<<Material(stateByUuid),
                      [s \in DOMAIN subscribers |-> Material(subscribers[s].states)]>>
  BY NextFeed, StepRefines
<1>. QED BY <1>1, InitRefines, PollerInvariant, PTL DEF Spec, ImplementsFeed, Feed!Spec

=============================================================================
