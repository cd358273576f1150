---------------------------- MODULE DeviceStream ----------------------------
(***************************************************************************)
(* The browser's end of GET /api/events/stream: the streamEvents actor and *)
(* the monitor region of apps/web/src/state/devicesMachine.ts, with the    *)
(* server reduced to what it publishes (see DeviceFeed).                   *)
(*                                                                         *)
(* A state is whether the device is on and whether the entry is stale; the *)
(* channels, lights and digests of the code change together with it.       *)
(***************************************************************************)
EXTENDS Naturals, Sequences, Maps

CONSTANTS
  Uuids,
  Readings,   \* power readings of a device
  Delays,     \* number of reconnect delays
  MaxWire     \* bound: events on their way to the browser

VARIABLES
  real,           \* device -> is it on
  feed,           \* device -> the state the server published last
  powerFeed,      \* device -> the reading it published last
  conn,           \* the server's end of the stream: "none", "up" or "lost"
  wire,           \* events sent and not received yet
  source,         \* the EventSource: "null", "connecting" or "open"
  reconnectTimer, \* the timer is set
  retryIndex,
  closed,         \* the actor was stopped
  monitor,        \* the monitor region
  deviceStates, devicePower   \* the context the stream writes

streamVars == <<conn, wire, source, reconnectTimer, retryIndex, closed, monitor>>
serverVars == <<real, feed, powerFeed>>
shownVars == <<deviceStates, devicePower>>

\* optimistic: not received from the server, but what a toggle assumes.
State == [onoff : {0, 1}, stale : BOOLEAN, optimistic : BOOLEAN]

Snapshot == [type |-> "snapshot", states |-> feed]
PowerSnapshot == [type |-> "power_snapshot", readings |-> powerFeed]
StateEvent(type, u, s) == [type |-> type, uuid |-> u, state |-> s]
PowerEvent(u, r) == [type |-> "device_power", uuid |-> u, reading |-> r]

-----------------------------------------------------------------------------
(* The server *)

Send(events) == wire' = IF conn = "up" THEN wire \o events ELSE wire

\* A poll that answers publishes a state only when it differs from the last one;
\* the first poll that fails publishes the last state as stale, twice.
PollAnswer(u) == [onoff |-> real[u], stale |-> FALSE, optimistic |-> FALSE]
PollStale(u) ==
  [onoff |-> IF u \in DOMAIN feed THEN feed[u].onoff ELSE 0, stale |-> TRUE, optimistic |-> FALSE]

Publish(u, s, events) ==
  /\ Len(wire) + Len(events) <= MaxWire
  /\ IF u \in DOMAIN feed /\ feed[u] = s
     THEN UNCHANGED <<feed, wire>>
     ELSE feed' = Put(feed, u, s) /\ Send(events)

ServerPoll(u) ==
  /\ \/ Publish(u, PollAnswer(u), <<StateEvent("device_state", u, PollAnswer(u))>>)
     \/ Publish(u, PollStale(u), <<StateEvent("device_state", u, PollStale(u)),
                                   StateEvent("device_stale", u, PollStale(u))>>)
  /\ UNCHANGED <<real, powerFeed, conn, source, reconnectTimer, retryIndex, closed, monitor, shownVars>>

\* pollTelemetry, and the poller_health event no listener takes.
ServerTelemetry(u) ==
  /\ \E r \in Readings :
       /\ u \in DOMAIN powerFeed => powerFeed[u] # r
       /\ Len(wire) + 2 <= MaxWire
       /\ powerFeed' = Put(powerFeed, u, r)
       /\ Send(<<PowerEvent(u, r), [type |-> "poller_health"]>>)
  /\ UNCHANGED <<real, feed, conn, source, reconnectTimer, retryIndex, closed, monitor, shownVars>>

\* Someone switches the device.
DeviceChanges(u) ==
  /\ real' = [real EXCEPT ![u] = 1 - @]
  /\ UNCHANGED <<feed, powerFeed, streamVars, shownVars>>

\* The connection breaks; what was under way may still arrive in part.
ConnectionLost ==
  /\ conn = "up"
  /\ conn' = "lost"
  /\ \E n \in 0 .. Len(wire) : wire' = SubSeq(wire, 1, n)
  /\ UNCHANGED <<serverVars, source, reconnectTimer, retryIndex, closed, monitor, shownVars>>

-----------------------------------------------------------------------------
(* streamEvents *)

CloseSource == source' = "null" /\ conn' = "none" /\ wire' = <<>>

\* A fault: the actor gives up after the last delay.
M_ScheduleReconnect ==
  IF closed \/ reconnectTimer \/ retryIndex = Delays - 1
  THEN UNCHANGED <<reconnectTimer, retryIndex>>
  ELSE reconnectTimer' = TRUE /\ retryIndex' = retryIndex + 1

\* A fault: the index runs past the last delay.
M_ScheduleReconnectUncapped ==
  IF closed \/ reconnectTimer
  THEN UNCHANGED <<reconnectTimer, retryIndex>>
  ELSE reconnectTimer' = TRUE /\ retryIndex' = retryIndex + 1

\* The delay only depends on min(retryIndex, last), so the index stops there.
ScheduleReconnect ==
  IF closed \/ reconnectTimer
  THEN UNCHANGED <<reconnectTimer, retryIndex>>
  ELSE /\ reconnectTimer' = TRUE
       /\ retryIndex' = IF retryIndex < Delays - 1 THEN retryIndex + 1 ELSE retryIndex

\* The timer fires: openStream closes what is left of the old source.
OpenStream ==
  /\ reconnectTimer /\ ~closed
  /\ reconnectTimer' = FALSE
  /\ source' = "connecting" /\ conn' = "none" /\ wire' = <<>>
  /\ UNCHANGED <<serverVars, retryIndex, closed, monitor, shownVars>>

\* onopen: the response begins with both snapshots (createStreamResponse).
OnOpen ==
  /\ source = "connecting"
  /\ source' = "open" /\ conn' = "up" /\ wire' = <<Snapshot, PowerSnapshot>>
  /\ retryIndex' = 0
  /\ monitor' = "live"
  /\ UNCHANGED <<serverVars, reconnectTimer, closed, shownVars>>

\* Faults: the broken source is kept; the machine is not told.
M_OnErrorKeepsSource ==
  /\ source = "connecting" \/ conn = "lost"
  /\ monitor' = "degraded"
  /\ ScheduleReconnect
  /\ UNCHANGED <<source, conn, wire, serverVars, closed, shownVars>>

M_OnErrorSilent ==
  /\ source = "connecting" \/ conn = "lost"
  /\ CloseSource
  /\ ScheduleReconnect
  /\ UNCHANGED <<monitor, serverVars, closed, shownVars>>

\* onerror: the connection cannot be made, or its loss is noticed.
OnError ==
  /\ source = "connecting" \/ conn = "lost"
  /\ monitor' = "degraded"
  /\ CloseSource
  /\ ScheduleReconnect
  /\ UNCHANGED <<serverVars, closed, shownVars>>

\* parseStreamState, setStreamDeviceState, mergeSnapshot: entries are added and
\* replaced, never removed.  The server only sends what the parsers accept.
MergeStates(shown, states) ==
  [u \in DOMAIN shown \cup DOMAIN states |-> IF u \in DOMAIN states THEN states[u] ELSE shown[u]]

\* Faults: no listener for one of the snapshots.
M_ApplyStates(shown, e) ==
  IF e.type \in {"device_state", "device_stale"} THEN Put(shown, e.uuid, e.state) ELSE shown

M_ApplyPower(shown, e) ==
  IF e.type = "device_power" THEN Put(shown, e.uuid, e.reading) ELSE shown

\* What one event says; one without a listener says nothing.
StatesIn(e) ==
  CASE e.type = "snapshot" -> e.states
    [] e.type \in {"device_state", "device_stale"} -> [u \in {e.uuid} |-> e.state]
    [] OTHER -> EmptyMap

ReadingsIn(e) ==
  CASE e.type = "power_snapshot" -> e.readings
    [] e.type = "device_power" -> [u \in {e.uuid} |-> e.reading]
    [] OTHER -> EmptyMap

\* What it makes of the context.
ApplyStates(shown, e) == MergeStates(shown, StatesIn(e))

ApplyPower(shown, e) == MergeStates(shown, ReadingsIn(e))

Receive ==
  /\ wire # <<>> /\ source = "open"
  /\ wire' = Tail(wire)
  /\ deviceStates' = ApplyStates(deviceStates, Head(wire))
  /\ devicePower' = ApplyPower(devicePower, Head(wire))
  /\ UNCHANGED <<serverVars, conn, source, reconnectTimer, retryIndex, closed, monitor>>

\* The cleanup function of the actor, when the view is left.
Stop ==
  /\ ~closed
  /\ closed' = TRUE
  /\ reconnectTimer' = FALSE
  /\ CloseSource
  /\ UNCHANGED <<serverVars, retryIndex, monitor, shownVars>>

\* A new machine with an empty context; openStream is called at once.
Start ==
  /\ closed
  /\ closed' = FALSE /\ source' = "connecting" /\ retryIndex' = 0 /\ monitor' = "connecting"
  /\ deviceStates' = EmptyMap /\ devicePower' = EmptyMap
  /\ UNCHANGED <<serverVars, conn, wire, reconnectTimer>>

StreamInit ==
  /\ real \in [Uuids -> {0, 1}]
  /\ feed = EmptyMap /\ powerFeed = EmptyMap
  /\ conn = "none" /\ wire = <<>> /\ source = "connecting"
  /\ reconnectTimer = FALSE /\ retryIndex = 0 /\ closed = FALSE /\ monitor = "connecting"
  /\ deviceStates = EmptyMap /\ devicePower = EmptyMap

StreamNext ==
  \/ \E u \in Uuids : ServerPoll(u) \/ ServerTelemetry(u) \/ DeviceChanges(u)
  \/ ConnectionLost \/ OpenStream \/ OnOpen \/ OnError \/ Receive \/ Stop \/ Start

streamSpecVars == <<streamVars, serverVars, shownVars>>

\* The browser's timers fire.
Fairness == WF_streamSpecVars(OpenStream)

StreamSpec == StreamInit /\ [][StreamNext]_streamSpecVars /\ Fairness

-----------------------------------------------------------------------------
(* Properties *)

\* The context, the actor's variables and the index of the reconnect delay, which
\* never leaves the list of delays however long the server is away.
StreamTypeOK ==
  /\ real \in [Uuids -> {0, 1}]
  /\ IsMap(feed, Uuids, State) /\ IsMap(deviceStates, Uuids, State)
  /\ IsMap(powerFeed, Uuids, Readings) /\ IsMap(devicePower, Uuids, Readings)
  /\ conn \in {"none", "up", "lost"} /\ source \in {"null", "connecting", "open"}
  /\ reconnectTimer \in BOOLEAN /\ closed \in BOOLEAN /\ retryIndex \in 0 .. Delays - 1
  /\ monitor \in {"connecting", "live", "degraded"}
  /\ Len(wire) <= MaxWire

\* There is never a second connection and never a lost reconnect: while the view is
\* open, the actor has an EventSource or a timer that will make one, and not both;
\* once it is left, neither is there.
OneConnection ==
  /\ closed => source = "null" /\ ~reconnectTimer
  /\ ~closed => (source = "null") = reconnectTimer

\* The "Live updates degraded" banner is about the connection in use: the region
\* says live exactly while the source is open.
MonitorFollowsSource == ~closed => ((monitor = "live") <=> (source = "open"))

\* Of the entries said[i] that the events on their way bring, the last one about u
\* is the one that will be shown; without any it is the one shown now.
Speaking(said, u) == {i \in DOMAIN said : u \in DOMAIN said[i]}

WillShow(shown, said, u, s) ==
  IF Speaking(said, u) = {}
  THEN u \in DOMAIN shown /\ shown[u] = s
  ELSE \E i \in Speaking(said, u) :
         said[i][u] = s /\ \A j \in Speaking(said, u) : j <= i

StatesSaid == [i \in DOMAIN wire |-> StatesIn(wire[i])]
ReadingsSaid == [i \in DOMAIN wire |-> ReadingsIn(wire[i])]

\* Whatever was lost with earlier connections, a connected client that has received
\* all events shows what the server published, for every device of the server.
StreamConverges ==
  conn = "up" => \A u \in DOMAIN feed : WillShow(deviceStates, StatesSaid, u, feed[u])

\* The same for power readings, for which device_power_stale has no listener.
PowerConverges ==
  conn = "up" => \A u \in DOMAIN powerFeed : WillShow(devicePower, ReadingsSaid, u, powerFeed[u])

\* A broken stream is always tried again, as long as the view is open.
AlwaysRetries == source = "null" /\ ~closed ~> source = "connecting" \/ closed
=============================================================================
