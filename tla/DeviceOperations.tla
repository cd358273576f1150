-------------------------- MODULE DeviceOperations --------------------------
(***************************************************************************)
(* The operations region of apps/web/src/state/devicesMachine.ts on top of *)
(* the stream: optimistic toggles and their rollback, refresh requests and *)
(* diagnostics.  Of the inventory region it has the result, the hosts;     *)
(* InventoryRegion models that region.                                     *)
(***************************************************************************)
EXTENDS DeviceStream

CONSTANT None

VARIABLES
  hosts,            \* devices with a known address
  operations,       \* the operations region
  activeDeviceUuid,
  toggleRollback,   \* None, or the device and its state before the toggle
  wanted,           \* the onoff of the toggle under way
  call,             \* its request: "none", "sent" or "answered" (by the device)
  systemDump,       \* the device whose dump is shown
  asked,            \* devices the server was asked to poll
  overlaid,         \* history: entries written by the client since it last received one
  refreshed,        \* history: devices polled on request, successfully, since then
  answered          \* history: device -> the onoff of its last toggle that was answered

opsVars == <<hosts, operations, activeDeviceUuid, toggleRollback, wanted, call, systemDump>>
histVars == <<asked, overlaid, refreshed, answered>>
vars == <<streamSpecVars, opsVars, histVars>>

-----------------------------------------------------------------------------
(* The stream's steps, with what they mean for requests and history *)

Covered(e) == DOMAIN StatesIn(e)

PollStep(u) ==
  /\ ServerPoll(u)
  /\ asked' = asked \ {u}
  /\ refreshed' = IF u \in asked /\ feed'[u] = PollAnswer(u) THEN refreshed \cup {u} ELSE refreshed
  /\ UNCHANGED <<opsVars, overlaid, answered>>

ReceiveStep ==
  /\ Receive
  /\ overlaid' = overlaid \ Covered(Head(wire))
  /\ refreshed' = refreshed \ Covered(Head(wire))
  /\ UNCHANGED <<opsVars, asked, answered>>

OtherStreamStep ==
  /\ \/ \E u \in Uuids : ServerTelemetry(u) \/ DeviceChanges(u)
     \/ ConnectionLost \/ OpenStream \/ OnOpen \/ OnError
  /\ UNCHANGED <<opsVars, histVars>>

\* Leaving the view stops the machine: the answers of its requests are ignored.
StopStep ==
  /\ Stop
  /\ operations' = "idle" /\ activeDeviceUuid' = None /\ toggleRollback' = None
  /\ wanted' = None /\ call' = "none" /\ systemDump' = None /\ hosts' = {}
  /\ overlaid' = {} /\ refreshed' = {} /\ answered' = EmptyMap
  /\ UNCHANGED asked

StartStep == Start /\ UNCHANGED <<opsVars, histVars>>

-----------------------------------------------------------------------------
(* Requests of the views.  An event that its state does not handle is dropped. *)

Idle == operations = "idle" /\ ~closed

Begin(op, u) ==
  /\ Idle
  /\ operations' = op
  /\ activeDeviceUuid' = u

End ==
  /\ operations' = "idle"
  /\ activeDeviceUuid' = None
  /\ call' = "none"

\* setHosts, whoever calls it.
SetHosts ==
  /\ ~closed
  /\ hosts' \in SUBSET Uuids
  /\ UNCHANGED <<streamSpecVars, operations, activeDeviceUuid, toggleRollback, wanted, call, systemDump, histVars>>

\* monitor_REQUEST_REFRESH in any state, device_REFRESH_STATE when idle:
\* requestDeviceRefresh posts and forgets; the post may fail.
RequestDeviceRefresh(u) ==
  /\ ~closed
  /\ asked' = asked \cup {u}
  /\ refreshed' = refreshed \ {u}
  /\ UNCHANGED <<streamSpecVars, opsVars, overlaid, answered>>

RefreshLost(u) ==
  /\ u \in asked
  /\ asked' = asked \ {u}
  /\ UNCHANGED <<streamSpecVars, opsVars, overlaid, refreshed, answered>>

DeviceResolve(u) ==
  /\ Begin("resolving", u)
  /\ call' = "sent"
  /\ UNCHANGED <<streamSpecVars, hosts, toggleRollback, wanted, systemDump, histVars>>

\* POST /api/hosts/resolve and GET /api/hosts succeeded, or one of them failed.
ResolveEnds ==
  /\ operations = "resolving"
  /\ hosts' \in {hosts} \cup {hosts \cup {activeDeviceUuid} \cup more : more \in SUBSET Uuids}
  /\ End
  /\ UNCHANGED <<streamSpecVars, toggleRollback, wanted, systemDump, histVars>>

DeviceDiagnostics(u) ==
  /\ u \in hosts
  /\ Begin("fetchingDiagnostics", u)
  /\ call' = "sent"
  /\ UNCHANGED <<streamSpecVars, hosts, toggleRollback, wanted, systemDump, histVars>>

DiagnosticsEnd ==
  /\ operations = "fetchingDiagnostics"
  /\ systemDump' \in {systemDump, activeDeviceUuid}
  /\ End
  /\ UNCHANGED <<streamSpecVars, hosts, toggleRollback, wanted, histVars>>

CloseSystemDump ==
  /\ ~closed
  /\ systemDump' = None
  /\ UNCHANGED <<streamSpecVars, hosts, operations, activeDeviceUuid, toggleRollback, wanted, call, histVars>>

-----------------------------------------------------------------------------
(* Toggles *)

\* A fault: the rollback is taken after the optimistic state is in place.
M_PrepareOptimisticToggle(u, onoff) ==
  /\ deviceStates' = Put(deviceStates, u, [onoff |-> onoff, stale |-> FALSE, optimistic |-> TRUE])
  /\ toggleRollback' = [uuid |-> u, previous |-> deviceStates'[u]]

PrepareOptimisticToggle(u, onoff) ==
  /\ toggleRollback' = [uuid |-> u, previous |-> IF u \in DOMAIN deviceStates THEN deviceStates[u] ELSE None]
  /\ deviceStates' = Put(deviceStates, u, [onoff |-> onoff, stale |-> FALSE, optimistic |-> TRUE])

DeviceToggle(u, onoff) ==
  /\ u \in hosts
  /\ Begin("toggling", u)
  /\ PrepareOptimisticToggle(u, onoff)
  /\ wanted' = onoff /\ call' = "sent"
  /\ overlaid' = overlaid \cup {u} /\ refreshed' = refreshed \ {u}
  /\ UNCHANGED <<serverVars, streamVars, devicePower, hosts, systemDump, asked, answered>>

\* toggle-device.ts at the device, which may also refuse with an error in a good
\* answer; the handler boosts and polls the device, then answers.
ToggleReachesDevice ==
  /\ operations = "toggling" /\ call = "sent"
  /\ real' \in {real, [real EXCEPT ![activeDeviceUuid] = wanted]}
  /\ call' = "answered"
  /\ asked' = asked \cup {activeDeviceUuid}
  /\ UNCHANGED <<feed, powerFeed, streamVars, shownVars, overlaid, refreshed, answered,
                 hosts, operations, activeDeviceUuid, toggleRollback, wanted, systemDump>>

\* A fault: the rollback survives the toggle.
M_ToggleDone ==
  /\ operations = "toggling" /\ call = "answered"
  /\ asked' = asked \cup {activeDeviceUuid}
  /\ answered' = Put(answered, activeDeviceUuid, wanted)
  /\ wanted' = None
  /\ End
  /\ UNCHANGED <<streamSpecVars, hosts, toggleRollback, systemDump, overlaid, refreshed>>

ToggleDone ==
  /\ operations = "toggling" /\ call = "answered"
  /\ asked' = asked \cup {activeDeviceUuid}
  /\ answered' = Put(answered, activeDeviceUuid, wanted)
  /\ toggleRollback' = None /\ wanted' = None
  /\ End
  /\ UNCHANGED <<streamSpecVars, hosts, systemDump, overlaid, refreshed>>

\* The states with the rollback applied, then setDeviceError on top of them.
RolledBack ==
  IF toggleRollback.previous = None
  THEN Drop(deviceStates, toggleRollback.uuid)
  ELSE Put(deviceStates, toggleRollback.uuid, toggleRollback.previous)

SetDeviceError(states, u) ==
  Put(states, u, [onoff |-> IF u \in DOMAIN states THEN states[u].onoff ELSE 0, stale |-> TRUE,
                  optimistic |-> u \in DOMAIN states /\ states[u].optimistic])

\* Before or after it reached the device.
ToggleError ==
  /\ operations = "toggling"
  /\ deviceStates' = SetDeviceError(RolledBack, activeDeviceUuid)
  /\ toggleRollback' = None /\ wanted' = None
  /\ overlaid' = overlaid \cup {activeDeviceUuid} /\ refreshed' = refreshed \ {activeDeviceUuid}
  /\ End
  /\ UNCHANGED <<serverVars, streamVars, devicePower, hosts, systemDump, asked, answered>>

Init ==
  /\ StreamInit
  /\ hosts = {} /\ operations = "idle" /\ activeDeviceUuid = None /\ toggleRollback = None
  /\ wanted = None /\ call = "none" /\ systemDump = None
  /\ asked = {} /\ overlaid = {} /\ refreshed = {} /\ answered = EmptyMap

Next ==
  \/ ReceiveStep \/ OtherStreamStep \/ StopStep \/ StartStep
  \/ SetHosts \/ ResolveEnds \/ DiagnosticsEnd \/ CloseSystemDump
  \/ ToggleReachesDevice \/ ToggleDone \/ ToggleError
  \/ \E u \in Uuids :
       \/ PollStep(u) \/ RequestDeviceRefresh(u) \/ RefreshLost(u)
       \/ DeviceResolve(u) \/ DeviceDiagnostics(u)
       \/ \E onoff \in {0, 1} : DeviceToggle(u, onoff)

Spec == Init /\ [][Next]_vars

-----------------------------------------------------------------------------
(* Properties *)

\* A connected client that has received all events shows what the server published
\* for every device, except where a toggle of its own has written over it since.
ConvergesUnlessOverlaid ==
  conn = "up" => \A u \in DOMAIN feed \ overlaid : WillShow(deviceStates, StatesSaid, u, feed[u])

\* Exactly while a toggle is under way there is a rollback, and it belongs to the
\* device the region works on: no toggle can undo another's state.
RollbackOwned ==
  /\ (operations = "toggling") <=> (toggleRollback # None)
  /\ toggleRollback # None => toggleRollback.uuid = activeDeviceUuid
  /\ (activeDeviceUuid = None) <=> (operations = "idle")

\* An optimistic state that is still shown when no toggle of the device is under way
\* is that of a command that was answered: a failed one leaves nothing behind.
OptimismAnswered ==
  ~closed => \A u \in DOMAIN deviceStates :
    deviceStates[u].optimistic /\ ~(operations = "toggling" /\ activeDeviceUuid = u) =>
      u \in DOMAIN answered /\ deviceStates[u].onoff = answered[u]

\* docs/devices-machine-statechart.md: refresh requests "trigger POST
\* /api/device/states and wait for SSE updates".  Once the server has polled the
\* device on request and all events were received, its state is shown.
RefreshShown ==
  conn = "up" /\ wire = <<>> /\ operations = "idle" =>
    \A u \in refreshed : u \in DOMAIN deviceStates /\
      deviceStates[u].onoff = feed[u].onoff /\ deviceStates[u].stale = feed[u].stale
=============================================================================
