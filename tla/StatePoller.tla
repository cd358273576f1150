---------------------------- MODULE StatePoller ----------------------------
(***************************************************************************)
(* The state poller of the API server: packages/core/src/api/              *)
(* state-poller.ts, class StatePollerServiceImpl.                          *)
(*                                                                         *)
(* One process, one event loop: the code between two awaits is atomic and  *)
(* is one action here, and what happens between an await and its           *)
(* continuation is an interleaving.  Actors: the tick timer, the poll      *)
(* tasks (pollDevice), the telemetry tasks (pollTelemetry), the pollNow    *)
(* calls of the HTTP handlers with their workers, the background host      *)
(* resolutions (tryResolveHost) and the SSE subscribers.                   *)
(*                                                                         *)
(* A poll task is named <<owner, uuid>> by who started it: the tick timer  *)
(* (Poller) or a pollNow call.  The tick starts no poll of a uuid that is  *)
(* in the inFlight map and a pollNow call polls each of its uuids once, so *)
(* the name is unique among running tasks, while two tasks for one uuid    *)
(* remain expressible.                                                     *)
(***************************************************************************)
EXTENDS Integers, Sequences, FiniteSets, Maps

CONSTANTS
  Uuids,             \* device uuids
  Hosts,             \* LAN addresses
  NoHost,            \* the empty host of a device never reached
  Values,            \* material device states: kind, channels, lights, digests
  DefaultVal,        \* togglex, off, no channels: a device never read
  Powers,            \* values of powerW
  Supplies,          \* pairs of voltageV and currentA
  NoReading,         \* undefined: a field the device did not report
  Errors,            \* messages of failed telemetry polls
  RequestIds,        \* concurrent pollNow calls
  Poller,            \* the tick timer, as the owner of the tasks it starts
  SubscriberIds,     \* SSE connections
  Epoch              \* Date.now() when the service is constructed

CONSTANTS
  POLL_MAX_CONCURRENCY, TELEMETRY_MAX_CONCURRENCY,
  STABLE_INTERVAL_MS, HOT_INTERVAL_MS, BOOST_INTERVAL_MS,
  TELEMETRY_INTERVAL_MS,
  NOT_A_PLUG_MS,               \* 60_000 in pollTelemetry
  MIN_JITTERED_MS,             \* 1000 in withJitterMs
  HOT_WINDOW_MS, BOOST_WINDOW_MS, SYNC_HOSTS_EVERY_MS,
  RESOLVE_COOLDOWN_MS,
  RESOLVE_AFTER_FAILURES,      \* 3 in pollDevice
  FAILURE_BACKOFF_SEQUENCE_MS

Owners == RequestIds \cup {Poller}
Reasons == {"manual", "poller"}

ASSUME NamesAssumption ==
  /\ NoHost \notin Hosts
  /\ Poller \notin RequestIds
  /\ DefaultVal \in Values
  /\ IsFiniteSet(Uuids)

ASSUME TimesAssumption ==
  /\ POLL_MAX_CONCURRENCY \in Nat \ {0}
  /\ TELEMETRY_MAX_CONCURRENCY \in Nat
  /\ STABLE_INTERVAL_MS \in Nat
  /\ HOT_INTERVAL_MS \in Nat
  /\ BOOST_INTERVAL_MS \in Nat
  /\ TELEMETRY_INTERVAL_MS \in Nat
  /\ NOT_A_PLUG_MS \in Nat
  /\ MIN_JITTERED_MS \in Nat
  /\ HOT_WINDOW_MS \in Nat
  /\ BOOST_WINDOW_MS \in Nat
  /\ SYNC_HOSTS_EVERY_MS \in Nat
  /\ RESOLVE_COOLDOWN_MS \in Nat
  /\ RESOLVE_AFTER_FAILURES \in Nat
  /\ FAILURE_BACKOFF_SEQUENCE_MS \in Seq(Nat)
  /\ Len(FAILURE_BACKOFF_SEQUENCE_MS) > 0
  /\ Epoch \in Nat
  /\ Epoch > SYNC_HOSTS_EVERY_MS   \* Date.now() is far from 0

VARIABLES
  clock,            \* Date.now(), a wall clock that may be set back
  config,           \* hosts of the config file: uuid -> host
  device,           \* host -> what the device at that address would answer
  stateByUuid,      \* uuid -> DeviceStateDto
  metaByUuid,       \* uuid -> PollMeta
  knownHosts,       \* uuid -> host, the poller's copy of config
  lastSyncHostsAt,
  inFlight,         \* uuid -> owner of the task whose promise is registered
  tasks,            \* <<owner, uuid>> -> a running pollDevice task
  powerByUuid,      \* uuid -> DevicePowerDto
  telemetryInFlight,\* uuid -> start time of the running pollTelemetry task
  resolving,        \* uuid -> a running tryResolveHost
  subscribers,      \* subscriber -> what it has been sent so far
  requests,         \* request -> a running pollNow call
  tickBusy,         \* a tick is waiting for its readConfig
  tickCfg           \* the hosts that readConfig will give it

lanVars     == <<config, device>>
pollVars    == <<inFlight, tasks>>
powerVars   == <<powerByUuid, telemetryInFlight>>
tickVars    == <<tickBusy, tickCfg>>
hostVars    == <<knownHosts, lastSyncHostsAt>>
vars == <<clock, config, device, stateByUuid, metaByUuid, knownHosts,
          lastSyncHostsAt, inFlight, tasks, powerByUuid, telemetryInFlight,
          resolving, subscribers, requests, tickBusy, tickCfg>>

-----------------------------------------------------------------------------
(* Types *)

DeviceState ==
  [host : Hosts \cup {NoHost}, val : Values, stale : BOOLEAN,
   updatedAt : Nat, source : Reasons]

Readings == [powerW : Powers \cup {NoReading}, supply : Supplies \cup {NoReading}]

NothingRead == [powerW |-> NoReading, supply |-> NoReading]

\* "" stands for no error field.
DevicePower ==
  [reading : Readings, stale : BOOLEAN, error : Errors \cup {""}, updatedAt : Nat]

\* 0 stands for null: the code tests these fields for truthiness.
PollMeta ==
  [nextDueAt : Nat, failureCount : Nat, lastChangeAt : Nat,
   lastResolveAttemptAt : Nat, boostUntilAt : Nat,
   telemetryNextDueAt : Nat, telemetryFailureCount : Nat]

\* "config": awaiting readConfig; "lan": request sent; "answer": reply on its way.
Task ==
  [pc : {"config", "lan", "answer"}, now : Nat, reason : Reasons,
   host : Hosts \cup {NoHost}, val : Values]

HostMaps == MapsOf(Uuids, Hosts)

\* "scan": looking for the device; "write": config read again, host found;
\* "written": awaiting writeConfig, whose write is done.
Resolution ==
  [pc : {"scan", "write", "written"}, cfg : HostMaps, host : Hosts \cup {NoHost}]

\* What the events pushed to a subscriber add up to.
IsSubscriber(sub) ==
  /\ sub = [states |-> sub.states, power |-> sub.power]
  /\ IsMap(sub.states, Uuids, DeviceState)
  /\ IsMap(sub.power, Uuids, DevicePower)

\* "sync": awaiting syncKnownHosts; "work": its workers drain todo.
\* awaits: uuid -> owner of the task a worker waits for; ready: that task has
\* ended and the worker has not resumed yet.
Request ==
  [pc : {"sync", "work"}, reason : Reasons, cfg : HostMaps,
   asked : SUBSET Uuids, todo : SUBSET Uuids,
   awaits : MapsOf(Uuids, Owners), ready : SUBSET Uuids,
   states : MapsOf(Uuids, Values), errors : SUBSET Uuids]

TypeOK ==
  /\ clock \in Nat /\ clock >= Epoch
  /\ config \in HostMaps
  /\ device \in [Hosts -> Values]
  /\ IsMap(stateByUuid, Uuids, DeviceState)
  /\ IsMap(metaByUuid, Uuids, PollMeta)
  /\ knownHosts \in HostMaps
  /\ lastSyncHostsAt \in Nat
  /\ IsMap(inFlight, Uuids, Owners)
  /\ IsMap(tasks, Owners \X Uuids, Task)
  /\ IsMap(powerByUuid, Uuids, DevicePower)
  /\ IsMap(telemetryInFlight, Uuids, Nat)
  /\ IsMap(resolving, Uuids, Resolution)
  /\ IsMap(requests, RequestIds, Request)
  /\ IsMap(subscribers, SubscriberIds, {subscribers[s] : s \in DOMAIN subscribers})
  /\ \A s \in DOMAIN subscribers : IsSubscriber(subscribers[s])
  /\ tickBusy \in BOOLEAN
  /\ tickCfg \in HostMaps

Init ==
  /\ clock = Epoch
  /\ config \in HostMaps
  /\ device \in [Hosts -> Values]
  /\ stateByUuid = EmptyMap
  /\ metaByUuid = EmptyMap
  /\ knownHosts = EmptyMap
  /\ lastSyncHostsAt = 0
  /\ inFlight = EmptyMap
  /\ tasks = EmptyMap
  /\ powerByUuid = EmptyMap
  /\ telemetryInFlight = EmptyMap
  /\ resolving = EmptyMap
  /\ subscribers = EmptyMap
  /\ requests = EmptyMap
  /\ tickBusy = FALSE
  /\ tickCfg = EmptyMap

-----------------------------------------------------------------------------
(* Poll intervals *)

FailureBackoffMs(failureCount) ==
  LET n == Len(FAILURE_BACKOFF_SEQUENCE_MS)
  IN  IF failureCount <= 0 THEN 0
      ELSE FAILURE_BACKOFF_SEQUENCE_MS[IF failureCount < n THEN failureCount ELSE n]

\* Every delay the random jitter can give.
WithJitterMs(baseMs, percent) ==
  LET delta == (baseMs * percent) \div 100
  IN  {IF d < MIN_JITTERED_MS THEN MIN_JITTERED_MS ELSE d :
         d \in (baseMs - delta)..(baseMs + delta)}

NextIntervalMs(meta, now) ==
  IF meta.failureCount > 0 THEN {FailureBackoffMs(meta.failureCount)}
  ELSE IF meta.boostUntilAt # 0 /\ now < meta.boostUntilAt
       THEN WithJitterMs(BOOST_INTERVAL_MS, 10)
  ELSE IF meta.lastChangeAt # 0 /\ now - meta.lastChangeAt < HOT_WINDOW_MS
       THEN WithJitterMs(HOT_INTERVAL_MS, 15)
  ELSE WithJitterMs(STABLE_INTERVAL_MS, 15)

CreateMeta ==
  [nextDueAt |-> clock, failureCount |-> 0, lastChangeAt |-> 0,
   lastResolveAttemptAt |-> 0, boostUntilAt |-> 0,
   telemetryNextDueAt |-> clock, telemetryFailureCount |-> 0]

EnsureMeta(metas, S) == PutAll(metas, S \ DOMAIN metas, CreateMeta)

\* boostDevice for every uuid of S.
BoostDevices(metas, S) ==
  LET m == EnsureMeta(metas, S)
  IN  [u \in DOMAIN m |->
         IF u \in S THEN [m[u] EXCEPT !.boostUntilAt = clock + BOOST_WINDOW_MS,
                                      !.nextDueAt = clock]
                    ELSE m[u]]

-----------------------------------------------------------------------------
(* Versions, material changes and broadcasts *)

\* nextUpdatedAt and nextTelemetryUpdatedAt: entries is the map that holds prev.
M_ClockOnly(entries, u) == clock
NextUpdatedAt(entries, u) ==
  IF u \in DOMAIN entries /\ entries[u].updatedAt + 1 > clock
  THEN entries[u].updatedAt + 1 ELSE clock

HasMaterialStateChange(u, next) ==
  \/ u \notin DOMAIN stateByUuid
  \/ LET prev == stateByUuid[u]
     IN  \/ prev.host # next.host
         \/ prev.val # next.val
         \/ prev.stale # next.stale

\* Pushing to a subscriber whose stream is closed throws and removes it.
M_SilentState(u, next) == UNCHANGED subscribers
BroadcastState(u, next) ==
  \E gone \in SUBSET DOMAIN subscribers :
    subscribers' = [s \in DOMAIN subscribers \ gone |->
      [subscribers[s] EXCEPT !.states = Put(@, u, next)]]

BroadcastPower(u, next) ==
  \E gone \in SUBSET DOMAIN subscribers :
    subscribers' = [s \in DOMAIN subscribers \ gone |->
      [subscribers[s] EXCEPT !.power = Put(@, u, next)]]

-----------------------------------------------------------------------------
(* Starting and joining poll tasks *)

NewTask(reason) ==
  [pc |-> "config", now |-> clock, reason |-> reason,
   host |-> NoHost, val |-> DefaultVal]

\* The uuids of S that pollDevice starts a task for; the others have a promise
\* in flight, which it returns.
M_AlwaysStarts(S) == S
StartedOf(S) == S \ DOMAIN inFlight

\* pollDevice(u) for every u in S, on behalf of owner o.
PollDevices(o, S, reason) ==
  /\ tasks' = PutAll(tasks, {o} \X StartedOf(S), NewTask(reason))
  /\ inFlight' = PutAll(inFlight, StartedOf(S), o)

\* The owner of the task that a pollDevice(u) made by o awaits.
AwaitedOwner(o, u) == IF u \in StartedOf({u}) THEN o ELSE inFlight[u]

\* The loop "while (queue.length && size < max) start(queue.shift())" over the
\* uuids of queue, sorted by rank and with size already running, starts S.
M_OneTooMany(S, queue, size, max, rank) ==
  /\ S \subseteq queue
  /\ \A a \in S, b \in queue \ S : rank[a] <= rank[b]
  /\ S = {} \/ size + Cardinality(S) <= max + 1
  /\ S = queue \/ size + Cardinality(S) >= max + 1
StartedByLoop(S, queue, size, max, rank) ==
  /\ S \subseteq queue
  /\ \A a \in S, b \in queue \ S : rank[a] <= rank[b]
  /\ S = {} \/ size + Cardinality(S) <= max
  /\ S = queue \/ size + Cardinality(S) >= max

-----------------------------------------------------------------------------
(* The tick timer *)

\* Devices a tick may start something for: a known host and no poll in flight.
Pollable(known, metas) ==
  {u \in DOMAIN metas : u \in DOMAIN known /\ u \notin DOMAIN inFlight}

TickSchedule(known, metas) ==
  LET due == {u \in Pollable(known, metas) : metas[u].nextDueAt <= clock}
      dueTelemetry == {u \in Pollable(known, metas) :
                         /\ u \notin DOMAIN telemetryInFlight
                         /\ metas[u].telemetryNextDueAt <= clock}
  IN  /\ \E S \in SUBSET due :
           /\ StartedByLoop(S, due, Cardinality(DOMAIN inFlight), POLL_MAX_CONCURRENCY,
                            [u \in due |-> metas[u].nextDueAt])
           /\ PollDevices(Poller, S, "poller")
      /\ \E T \in SUBSET dueTelemetry :
           /\ StartedByLoop(T, dueTelemetry, Cardinality(DOMAIN telemetryInFlight),
                            TELEMETRY_MAX_CONCURRENCY,
                            [u \in dueTelemetry |-> metas[u].telemetryNextDueAt])
           /\ telemetryInFlight' = PutAll(telemetryInFlight, T, clock)

SyncDue == clock - lastSyncHostsAt > SYNC_HOSTS_EVERY_MS

\* tick() up to the await of readConfig.
TickSync ==
  /\ ~tickBusy /\ SyncDue
  /\ tickBusy' = TRUE
  /\ tickCfg' = config
  /\ UNCHANGED <<clock, lanVars, stateByUuid, metaByUuid, hostVars, pollVars,
                 powerVars, resolving, subscribers, requests>>

\* The continuation of that tick.
TickResume ==
  /\ tickBusy
  /\ tickBusy' = FALSE
  /\ tickCfg' = EmptyMap
  /\ lastSyncHostsAt' = clock
  /\ knownHosts' = tickCfg
  /\ metaByUuid' = EnsureMeta(metaByUuid, DOMAIN tickCfg)
  /\ TickSchedule(knownHosts', metaByUuid')
  /\ UNCHANGED <<clock, lanVars, stateByUuid, powerByUuid, resolving,
                 subscribers, requests>>

\* A tick that has synced recently runs to its end without waiting.
TickNoSync ==
  /\ ~tickBusy /\ ~SyncDue
  /\ TickSchedule(knownHosts, metaByUuid)
  /\ UNCHANGED <<clock, lanVars, stateByUuid, metaByUuid, hostVars, powerByUuid,
                 resolving, subscribers, requests, tickVars>>

-----------------------------------------------------------------------------
(* pollDevice *)

\* The entry of a pollNow call after the task of owner o for u ended.
Delivered(q, u) ==
  [q EXCEPT !.awaits = Drop(@, u), !.ready = @ \cup {u}]

Awaiting(r, o, u) ==
  u \in DOMAIN requests[r].awaits /\ requests[r].awaits[u] = o

\* The task ends: inFlight.delete, and everyone who awaits it gets its result.
EndTask(o, u) ==
  /\ inFlight' = Drop(inFlight, u)
  /\ tasks' = Drop(tasks, <<o, u>>)

M_StateLost(o, u, v) == UNCHANGED requests
DeliverState(o, u, v) ==
  requests' = [r \in DOMAIN requests |->
    IF Awaiting(r, o, u)
    THEN [Delivered(requests[r], u) EXCEPT !.states = Put(@, u, v)]
    ELSE requests[r]]

M_ErrorLost(o, u) == UNCHANGED requests
DeliverError(o, u) ==
  requests' = [r \in DOMAIN requests |->
    IF Awaiting(r, o, u)
    THEN [Delivered(requests[r], u) EXCEPT !.errors = @ \cup {u}]
    ELSE requests[r]]

\* readConfig gave a host for the uuid: requireLanKey, then getSystemAll.
PollReadConfig(o, u) ==
  /\ <<o, u>> \in DOMAIN tasks
  /\ tasks[<<o, u>>].pc = "config"
  /\ u \in DOMAIN config
  /\ tasks' = [tasks EXCEPT ![<<o, u>>] = [@ EXCEPT !.pc = "lan", !.host = config[u]]]
  /\ UNCHANGED <<clock, lanVars, stateByUuid, metaByUuid, hostVars, inFlight,
                 powerVars, resolving, subscribers, requests, tickVars>>

\* The device at that address, whichever it is, reads its state and replies.
LanAnswer(o, u) ==
  /\ <<o, u>> \in DOMAIN tasks
  /\ tasks[<<o, u>>].pc = "lan"
  /\ tasks' = [tasks EXCEPT ![<<o, u>>] =
                 [@ EXCEPT !.pc = "answer", !.val = device[tasks[<<o, u>>].host]]]
  /\ UNCHANGED <<clock, lanVars, stateByUuid, metaByUuid, hostVars, inFlight,
                 powerVars, resolving, subscribers, requests, tickVars>>

\* The reply is parsed.
PollSuccess(o, u) ==
  LET t == tasks[<<o, u>>]
      next == [host |-> t.host, val |-> t.val, stale |-> FALSE,
               updatedAt |-> NextUpdatedAt(stateByUuid, u), source |-> t.reason]
      changed == HasMaterialStateChange(u, next)
      meta == [metaByUuid[u] EXCEPT !.failureCount = 0,
                                    !.lastChangeAt = IF changed THEN t.now ELSE @]
  IN  /\ <<o, u>> \in DOMAIN tasks
      /\ t.pc = "answer"
      /\ IF changed
         THEN /\ stateByUuid' = Put(stateByUuid, u, next)
              /\ BroadcastState(u, next)
         ELSE /\ stateByUuid' = [stateByUuid EXCEPT ![u].source = t.reason]
              /\ UNCHANGED subscribers
      /\ \E d \in NextIntervalMs(meta, t.now) :
           metaByUuid' = [metaByUuid EXCEPT ![u] = [meta EXCEPT !.nextDueAt = t.now + d]]
      /\ EndTask(o, u)
      /\ DeliverState(o, u, stateByUuid'[u].val)
      /\ UNCHANGED <<clock, lanVars, hostVars, powerVars, resolving, tickVars>>

\* tryResolveHost(u) up to its first await.
StartsResolve(u, meta) ==
  /\ meta.failureCount >= RESOLVE_AFTER_FAILURES
  /\ u \notin DOMAIN resolving
  /\ ~(meta.lastResolveAttemptAt # 0
       /\ clock - meta.lastResolveAttemptAt < RESOLVE_COOLDOWN_MS)

\* What a failed poll publishes: the last state seen, marked stale.
M_NoFallback(u, reason) ==
  LET seen == u \in DOMAIN stateByUuid
  IN  [host |-> IF seen THEN stateByUuid[u].host
                ELSE IF u \in DOMAIN knownHosts THEN knownHosts[u] ELSE "undefined",
       val |-> IF seen THEN stateByUuid[u].val ELSE DefaultVal,
       stale |-> TRUE,
       updatedAt |-> NextUpdatedAt(stateByUuid, u),
       source |-> reason]
StaleState(u, reason) ==
  LET seen == u \in DOMAIN stateByUuid
  IN  [host |-> IF seen THEN stateByUuid[u].host
                ELSE IF u \in DOMAIN knownHosts THEN knownHosts[u] ELSE NoHost,
       val |-> IF seen THEN stateByUuid[u].val ELSE DefaultVal,
       stale |-> TRUE,
       updatedAt |-> NextUpdatedAt(stateByUuid, u),
       source |-> reason]

\* The catch block: no host in config, no key, the request failed or timed out,
\* or the reply holds no state.
M_KeepsCount(u) == metaByUuid[u]
CountFailure(u) == [metaByUuid[u] EXCEPT !.failureCount = @ + 1]

PollFailure(o, u) ==
  LET t == tasks[<<o, u>>]
      staleNext == StaleState(u, t.reason)
      failed == CountFailure(u)
      resolve == StartsResolve(u, failed)
  IN  /\ <<o, u>> \in DOMAIN tasks
      /\ t.pc = "config" => u \notin DOMAIN config
      /\ IF HasMaterialStateChange(u, staleNext)
         THEN /\ stateByUuid' = Put(stateByUuid, u, staleNext)
              /\ BroadcastState(u, staleNext)
         ELSE UNCHANGED <<stateByUuid, subscribers>>
      /\ \E d \in NextIntervalMs(failed, t.now) :
           metaByUuid' = [metaByUuid EXCEPT ![u] =
             [failed EXCEPT !.nextDueAt = t.now + d,
                            !.lastResolveAttemptAt = IF resolve THEN clock ELSE @]]
      /\ resolving' = IF resolve
                      THEN Put(resolving, u, [pc |-> "scan", cfg |-> EmptyMap, host |-> NoHost])
                      ELSE resolving
      /\ EndTask(o, u)
      /\ DeliverError(o, u)
      /\ UNCHANGED <<clock, lanVars, hostVars, powerVars, tickVars>>

-----------------------------------------------------------------------------
(* pollTelemetry *)

\* scheduleNext with the failure count n of a task started at now.
TelemetryDue(now, n) ==
  LET backoff == FailureBackoffMs(n)
  IN  now + IF backoff > TELEMETRY_INTERVAL_MS THEN backoff ELSE TELEMETRY_INTERVAL_MS

EndTelemetry(u, due, failures) ==
  /\ metaByUuid' = [metaByUuid EXCEPT ![u] =
                      [@ EXCEPT !.telemetryNextDueAt = due,
                                !.telemetryFailureCount = failures]]
  /\ telemetryInFlight' = Drop(telemetryInFlight, u)

\* What makes a reading worth an event: the error is not compared.
M_PowerOnly(u, next) ==
  \/ u \notin DOMAIN powerByUuid
  \/ powerByUuid[u].stale # next.stale
  \/ powerByUuid[u].reading.powerW # next.reading.powerW
ReadingChanged(u, next) ==
  \/ u \notin DOMAIN powerByUuid
  \/ powerByUuid[u].stale # next.stale
  \/ powerByUuid[u].reading.powerW # next.reading.powerW
  \/ powerByUuid[u].reading.supply # next.reading.supply

\* What makes a failure worth an event: voltage and current are not compared.
M_OnlyStaleness(u, next) ==
  u \notin DOMAIN powerByUuid \/ powerByUuid[u].stale # next.stale
FailureChanged(u, next) ==
  \/ u \notin DOMAIN powerByUuid
  \/ powerByUuid[u].stale # next.stale
  \/ powerByUuid[u].error # next.error
  \/ powerByUuid[u].reading.powerW # next.reading.powerW

RecordPower(u, next, changed) ==
  /\ powerByUuid' = Put(powerByUuid, u, next)
  /\ IF changed THEN BroadcastPower(u, next) ELSE UNCHANGED subscribers

M_KeepsError(u, reading) ==
  [reading |-> reading, stale |-> FALSE,
   error |-> IF u \in DOMAIN powerByUuid THEN powerByUuid[u].error ELSE "",
   updatedAt |-> NextUpdatedAt(powerByUuid, u)]
ReadPower(u, reading) ==
  [reading |-> reading, stale |-> FALSE, error |-> "",
   updatedAt |-> NextUpdatedAt(powerByUuid, u)]

\* What a failed telemetry poll stores: the last reading, marked stale.
StalePower(u, error) ==
  [reading |-> IF u \in DOMAIN powerByUuid THEN powerByUuid[u].reading ELSE NothingRead,
   stale |-> TRUE, error |-> error, updatedAt |-> NextUpdatedAt(powerByUuid, u)]

TelemetrySuccess(u) ==
  /\ u \in DOMAIN telemetryInFlight
  /\ \E reading \in Readings \ {NothingRead} :
       RecordPower(u, ReadPower(u, reading), ReadingChanged(u, ReadPower(u, reading)))
  /\ EndTelemetry(u, TelemetryDue(telemetryInFlight[u], 0), 0)
  /\ UNCHANGED <<clock, lanVars, stateByUuid, hostVars, pollVars, resolving,
                 requests, tickVars>>

TelemetryFailure(u) ==
  LET failures == metaByUuid[u].telemetryFailureCount + 1
  IN  /\ u \in DOMAIN telemetryInFlight
      /\ \E error \in Errors :
           RecordPower(u, StalePower(u, error), FailureChanged(u, StalePower(u, error)))
      /\ EndTelemetry(u, TelemetryDue(telemetryInFlight[u], failures), failures)
      /\ UNCHANGED <<clock, lanVars, stateByUuid, hostVars, pollVars, resolving,
                     requests, tickVars>>

\* The cloud inventory says the device is no plug or strip.
TelemetrySkip(u) ==
  LET pause == IF NOT_A_PLUG_MS > TELEMETRY_INTERVAL_MS
               THEN NOT_A_PLUG_MS ELSE TELEMETRY_INTERVAL_MS
  IN  /\ u \in DOMAIN telemetryInFlight
      /\ EndTelemetry(u, telemetryInFlight[u] + pause, metaByUuid[u].telemetryFailureCount)
      /\ UNCHANGED <<clock, lanVars, stateByUuid, hostVars, pollVars, powerByUuid,
                     resolving, subscribers, requests, tickVars>>

-----------------------------------------------------------------------------
(* pollNow and boostDevice *)

NewRequest(asked, reason) ==
  [pc |-> "sync", reason |-> reason, cfg |-> config, asked |-> asked,
   todo |-> {}, awaits |-> EmptyMap, ready |-> {}, states |-> EmptyMap,
   errors |-> {}]

\* A GET of device states calls pollNow; no uuids means every known host.
PollNow(r, asked, reason) ==
  /\ r \notin DOMAIN requests
  /\ requests' = Put(requests, r, NewRequest(asked, reason))
  /\ UNCHANGED <<clock, lanVars, stateByUuid, metaByUuid, hostVars, pollVars,
                 powerVars, resolving, subscribers, tickVars>>

\* The tail of a handler that changed the device: boostDevice, then pollNow.
ControlDone(r, u) ==
  /\ r \notin DOMAIN requests
  /\ metaByUuid' = BoostDevices(metaByUuid, {u})
  /\ requests' = Put(requests, r, NewRequest({u}, "manual"))
  /\ UNCHANGED <<clock, lanVars, stateByUuid, hostVars, pollVars, powerVars,
                 resolving, subscribers, tickVars>>

\* syncKnownHosts has its config: boost the uuids and start the workers, each of
\* which takes a uuid and calls pollDevice before it waits.
PollNowResume(r) ==
  LET q == requests[r]
      uuids == IF q.asked = {} THEN DOMAIN q.cfg ELSE q.asked
      max == POLL_MAX_CONCURRENCY
  IN  /\ r \in DOMAIN requests
      /\ q.pc = "sync"
      /\ knownHosts' = q.cfg
      /\ lastSyncHostsAt' = clock
      /\ metaByUuid' = BoostDevices(EnsureMeta(metaByUuid, DOMAIN q.cfg), uuids)
      /\ \E first \in SUBSET uuids :
           /\ Cardinality(first) <= max
           /\ first = uuids \/ Cardinality(first) = max
           /\ PollDevices(r, first, q.reason)
           /\ requests' = [requests EXCEPT ![r] =
                [q EXCEPT !.pc = "work", !.asked = uuids, !.todo = uuids \ first,
                          !.awaits = [u \in first |-> AwaitedOwner(r, u)]]]
      /\ UNCHANGED <<clock, lanVars, stateByUuid, powerVars, resolving,
                     subscribers, tickVars>>

\* The worker that waited for u has its result and takes the next uuid.
WorkerNext(r, u) ==
  LET q == requests[r]
  IN  /\ r \in DOMAIN requests
      /\ u \in q.ready
      /\ \E v \in q.todo :
           /\ PollDevices(r, {v}, q.reason)
           /\ requests' = [requests EXCEPT ![r] =
                [q EXCEPT !.todo = @ \ {v}, !.ready = @ \ {u},
                          !.awaits = Put(@, v, AwaitedOwner(r, v))]]
      /\ UNCHANGED <<clock, lanVars, stateByUuid, metaByUuid, hostVars,
                     powerVars, resolving, subscribers, tickVars>>

\* ... or finds the queue empty and returns.
M_ReturnsEarly(r, u) ==
  /\ r \in DOMAIN requests
  /\ u \in requests[r].ready
  /\ requests' = [requests EXCEPT ![r].ready = @ \ {u}]
  /\ UNCHANGED <<clock, lanVars, stateByUuid, metaByUuid, hostVars, pollVars,
                 powerVars, resolving, subscribers, tickVars>>
WorkerReturn(r, u) ==
  /\ r \in DOMAIN requests
  /\ u \in requests[r].ready
  /\ requests[r].todo = {}
  /\ requests' = [requests EXCEPT ![r].ready = @ \ {u}]
  /\ UNCHANGED <<clock, lanVars, stateByUuid, metaByUuid, hostVars, pollVars,
                 powerVars, resolving, subscribers, tickVars>>

\* Promise.all(workers) is fulfilled: no worker waits or is about to resume.
Finished(r) ==
  /\ requests[r].pc = "work"
  /\ requests[r].awaits = EmptyMap
  /\ requests[r].ready = {}

PollNowReturn(r) ==
  /\ r \in DOMAIN requests
  /\ Finished(r)
  /\ requests' = Drop(requests, r)
  /\ UNCHANGED <<clock, lanVars, stateByUuid, metaByUuid, hostVars, pollVars,
                 powerVars, resolving, subscribers, tickVars>>

-----------------------------------------------------------------------------
(* tryResolveHost *)

\* The ARP table or the uuid scan gave a host (an ARP entry may be out of date);
\* config is read again.
ResolveFound(u, host) ==
  /\ u \in DOMAIN resolving
  /\ resolving[u].pc = "scan"
  /\ resolving' = [resolving EXCEPT ![u] = [pc |-> "write", cfg |-> config, host |-> host]]
  /\ UNCHANGED <<clock, lanVars, stateByUuid, metaByUuid, hostVars, pollVars,
                 powerVars, subscribers, requests, tickVars>>

\* writeConfig of the copy read before it.
ResolveWrite(u) ==
  LET r == resolving[u]
  IN  /\ u \in DOMAIN resolving
      /\ r.pc = "write"
      /\ config' = Put(r.cfg, u, r.host)
      /\ resolving' = [resolving EXCEPT ![u] = [r EXCEPT !.pc = "written"]]
      /\ UNCHANGED <<clock, device, stateByUuid, metaByUuid, hostVars, pollVars,
                     powerVars, subscribers, requests, tickVars>>

\* Its continuation: the poller's own copy, which a tick may have replaced by the
\* config meanwhile, and a boost.
ResolveDone(u) ==
  LET r == resolving[u]
  IN  /\ u \in DOMAIN resolving
      /\ r.pc = "written"
      /\ knownHosts' = Put(knownHosts, u, r.host)
      /\ metaByUuid' = [metaByUuid EXCEPT ![u] =
                          [@ EXCEPT !.boostUntilAt = clock + BOOST_WINDOW_MS,
                                    !.nextDueAt = clock]]
      /\ resolving' = Drop(resolving, u)
      /\ UNCHANGED <<clock, lanVars, stateByUuid, lastSyncHostsAt, pollVars,
                     powerVars, subscribers, requests, tickVars>>

\* No key, no host found, or an error on the way.
ResolveGiveUp(u) ==
  /\ u \in DOMAIN resolving
  /\ resolving[u].pc # "written"
  /\ resolving' = Drop(resolving, u)
  /\ UNCHANGED <<clock, lanVars, stateByUuid, metaByUuid, hostVars, pollVars,
                 powerVars, subscribers, requests, tickVars>>

-----------------------------------------------------------------------------
(* SSE subscribers *)

\* createStreamResponse: register, then push both snapshots.
M_NoSnapshot(s) ==
  /\ s \notin DOMAIN subscribers
  /\ subscribers' = Put(subscribers, s, [states |-> EmptyMap, power |-> EmptyMap])
  /\ UNCHANGED <<clock, lanVars, stateByUuid, metaByUuid, hostVars, pollVars,
                 powerVars, resolving, requests, tickVars>>
CreateStream(s) ==
  /\ s \notin DOMAIN subscribers
  /\ subscribers' = Put(subscribers, s, [states |-> stateByUuid, power |-> powerByUuid])
  /\ UNCHANGED <<clock, lanVars, stateByUuid, metaByUuid, hostVars, pollVars,
                 powerVars, resolving, requests, tickVars>>

\* The stream is cancelled, or a heartbeat cannot be pushed.
CancelStream(s) ==
  /\ s \in DOMAIN subscribers
  /\ subscribers' = Drop(subscribers, s)
  /\ UNCHANGED <<clock, lanVars, stateByUuid, metaByUuid, hostVars, pollVars,
                 powerVars, resolving, requests, tickVars>>

-----------------------------------------------------------------------------
(* Environment *)

SetClock(now) ==
  /\ now >= Epoch
  /\ clock' = now
  /\ UNCHANGED <<lanVars, stateByUuid, metaByUuid, hostVars, pollVars, powerVars,
                 resolving, subscribers, requests, tickVars>>

ClockAdvances == SetClock(clock + 1)

\* Date.now() is not monotonic: the system clock may be corrected.
ClockSetBack == SetClock(clock - 1)

\* Another handler or the CLI stores or drops a mapping (or the file is read
\* while it is being written, which loadMerossConfig takes for an empty config).
ConfigChanges(hosts) ==
  /\ hosts # config
  /\ config' = hosts
  /\ UNCHANGED <<clock, device, stateByUuid, metaByUuid, hostVars, pollVars,
                 powerVars, resolving, subscribers, requests, tickVars>>

\* A LAN command, a wall switch, or another device that takes over the address.
DeviceChanges(host, val) ==
  /\ device[host] # val
  /\ device' = [device EXCEPT ![host] = val]
  /\ UNCHANGED <<clock, config, stateByUuid, metaByUuid, hostVars, pollVars,
                 powerVars, resolving, subscribers, requests, tickVars>>

-----------------------------------------------------------------------------
Next ==
  \/ TickSync \/ TickResume \/ TickNoSync
  \/ \E o \in Owners, u \in Uuids :
       PollReadConfig(o, u) \/ LanAnswer(o, u) \/ PollSuccess(o, u) \/ PollFailure(o, u)
  \/ \E u \in Uuids :
       \/ TelemetrySuccess(u) \/ TelemetryFailure(u) \/ TelemetrySkip(u)
       \/ ResolveWrite(u) \/ ResolveDone(u) \/ ResolveGiveUp(u)
  \/ \E u \in Uuids, host \in Hosts : ResolveFound(u, host)
  \/ \E r \in RequestIds : PollNowResume(r) \/ PollNowReturn(r)
  \/ \E r \in RequestIds, asked \in SUBSET Uuids, reason \in Reasons :
       PollNow(r, asked, reason)
  \/ \E r \in RequestIds, u \in Uuids :
       ControlDone(r, u) \/ WorkerNext(r, u) \/ WorkerReturn(r, u)
  \/ \E s \in SubscriberIds : CreateStream(s) \/ CancelStream(s)
  \/ ClockAdvances \/ ClockSetBack
  \/ \E hosts \in HostMaps : ConfigChanges(hosts)
  \/ \E host \in Hosts, val \in Values : DeviceChanges(host, val)

Spec == Init /\ [][Next]_vars

-----------------------------------------------------------------------------
(* Safety *)

\* The inFlight map names exactly the running tasks.
InFlightExact ==
  /\ \A u \in DOMAIN inFlight : <<inFlight[u], u>> \in DOMAIN tasks
  /\ \A k \in DOMAIN tasks : k[2] \in DOMAIN inFlight /\ inFlight[k[2]] = k[1]

\* Whatever is running for a device, or queued, has a PollMeta to update.
MetaExists ==
  /\ \A k \in DOMAIN tasks : k[2] \in DOMAIN metaByUuid
  /\ DOMAIN telemetryInFlight \subseteq DOMAIN metaByUuid
  /\ DOMAIN resolving \subseteq DOMAIN metaByUuid
  /\ \A r \in DOMAIN requests : requests[r].todo \subseteq DOMAIN metaByUuid

\* A task past readConfig, and a search that found its device, has an address.
AddressKnown ==
  /\ \A k \in DOMAIN tasks : tasks[k].pc # "config" => tasks[k].host \in Hosts
  /\ \A u \in DOMAIN resolving : resolving[u].pc # "scan" => resolving[u].host \in Hosts

\* pollDevice never runs twice for one device: the inFlight map is checked and
\* filled without an await in between, and emptied only by the task's owner.
SingleFlight ==
  \A j, k \in DOMAIN tasks : j[2] = k[2] => j = k

\* A worker of pollNow that waits for a promise waits for a task that runs: it
\* cannot wait for a task that ended before it joined.
NoLostWakeup ==
  \A r \in DOMAIN requests : \A u \in DOMAIN requests[r].awaits :
    <<requests[r].awaits[u], u>> \in DOMAIN tasks

\* The inductive invariant of the poller's bookkeeping.
PollerInv == TypeOK /\ InFlightExact /\ MetaExists /\ AddressKnown /\ NoLostWakeup

\* The tick timer, and every pollNow call on its own, never has more than
\* POLL_MAX_CONCURRENCY polls of its own running.
OwnerWithinCap ==
  \A o \in Owners :
    Cardinality({u \in Uuids : <<o, u>> \in DOMAIN tasks}) <= POLL_MAX_CONCURRENCY

\* A pollNow response has one state or one error for every uuid it was asked
\* for, whichever tasks its workers started or joined.
ResponseComplete ==
  \A r \in DOMAIN requests : Finished(r) =>
    /\ DOMAIN requests[r].states \cup requests[r].errors = requests[r].asked
    /\ DOMAIN requests[r].states \cap requests[r].errors = {}

\* A device is shown stale exactly while its last finished poll failed: the
\* published state and the failure count that rules backoff never disagree.
StaleIffFailing ==
  \A u \in DOMAIN metaByUuid :
    /\ metaByUuid[u].failureCount > 0 => u \in DOMAIN stateByUuid
    /\ u \in DOMAIN stateByUuid =>
         (stateByUuid[u].stale <=> metaByUuid[u].failureCount > 0)

\* What makes a state worth an event: everything but the source of the poll.
Material(states) ==
  [u \in DOMAIN states |->
     [host |-> states[u].host, val |-> states[u].val, stale |-> states[u].stale,
      updatedAt |-> states[u].updatedAt]]

\* The snapshot and the device_state events a connected client got add up to
\* stateByUuid: no published change is missing and none is out of date.
SubscribersInSync ==
  \A s \in DOMAIN subscribers : Material(subscribers[s].states) = Material(stateByUuid)

\* The same for power, where a repeated reading is stored without an event and
\* so updatedAt may lag.
Measured(power) ==
  [u \in DOMAIN power |->
     [reading |-> power[u].reading, stale |-> power[u].stale, error |-> power[u].error]]

\* Only a stale reading carries an error.
ErrorIffStale ==
  \A u \in DOMAIN powerByUuid : powerByUuid[u].error # "" => powerByUuid[u].stale

\* What a connected client knows of a plug is what is stored for it, error, power,
\* voltage and current, although a success is compared without the error and a
\* failure without voltage and current: a difference one comparison overlooks
\* must show in a field that it looks at.
PowerInSync ==
  /\ ErrorIffStale
  /\ \A s \in DOMAIN subscribers : Measured(subscribers[s].power) = Measured(powerByUuid)

\* updatedAt is a version: a device keeps its entry, and a material change gives
\* it a greater updatedAt even when the wall clock was set back in between.
UpdatedAtIncreases ==
  [][\A u \in DOMAIN stateByUuid :
       /\ u \in DOMAIN stateByUuid'
       /\ Material(stateByUuid')[u] # Material(stateByUuid)[u] =>
            stateByUuid'[u].updatedAt > stateByUuid[u].updatedAt]_vars

\* The poller as the abstract feed: device states without the source of the poll,
\* and what each subscriber has been sent of them.
Feed == INSTANCE DeviceFeed WITH
  feed <- Material(stateByUuid),
  clients <- [s \in DOMAIN subscribers |-> Material(subscribers[s].states)]

\* Polls, retries, joins, backoff and broken streams together do no more to the
\* published states than publish newer entries to every connected client.
ImplementsFeed == Feed!Spec

\* state-poller.ts, tick: "Telemetry polling is independent from state polling."
\* A tick that leaves telemetry capacity unused started every due telemetry poll.
TelemetryIndependent ==
  [][TickResume \/ TickNoSync =>
       \A u \in DOMAIN knownHosts' :
         (/\ metaByUuid'[u].telemetryNextDueAt <= clock
          /\ Cardinality(DOMAIN telemetryInFlight') < TELEMETRY_MAX_CONCURRENCY)
         => u \in DOMAIN telemetryInFlight']_vars

-----------------------------------------------------------------------------
(* Liveness *)

\* readConfig ends, and a LAN request ends by its reply or its timeout.
TaskStep(o, u) ==
  PollReadConfig(o, u) \/ LanAnswer(o, u) \/ PollSuccess(o, u) \/ PollFailure(o, u)

\* Continuations of settled promises run; nothing is assumed of clients, of the
\* clock, of devices or of what a LAN request ends with.
Fairness ==
  /\ WF_vars(TickResume)
  /\ \A o \in Owners, u \in Uuids : WF_vars(TaskStep(o, u))
  /\ \A r \in RequestIds : WF_vars(PollNowResume(r)) /\ WF_vars(PollNowReturn(r))
  /\ \A r \in RequestIds, u \in Uuids : WF_vars(WorkerNext(r, u) \/ WorkerReturn(r, u))

\* Every pollNow call returns, whatever tasks of others its workers joined.
PollNowReturns ==
  \A r \in RequestIds : r \in DOMAIN requests ~> r \notin DOMAIN requests

=============================================================================
