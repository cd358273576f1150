------------------------------ MODULE MCClient ------------------------------
(***************************************************************************)
(* The devices machine of the browser in one run: the event stream alone,  *)
(* with power readings and longer queues; the operations region on top of  *)
(* it; the inventory region.  In a behaviour only the part named by        *)
(* running moves, the others rest where they began.  The stream's          *)
(* variables are those of both of the first two.                           *)
(***************************************************************************)
EXTENDS Naturals

CONSTANTS Uuids, Readings, Delays, MaxWire,   \* DeviceStream
          Inventory, Cidrs, NoCidr, Others,   \* InventoryRegion, its devices
          None

\* The wire takes at least the two snapshots of a new connection.
ASSUME StreamBounds == Delays \in Nat \ {0} /\ MaxWire \in Nat /\ MaxWire >= 2
ASSUME CidrBounds == NoCidr \notin Cidrs
ASSUME OthersAssumption == Others \cap {"refresh", "discover", "resolve"} = {}

VARIABLES running,
  real, feed, powerFeed, conn, wire, source, reconnectTimer, retryIndex, closed, monitor,
  deviceStates, devicePower,
  hosts, operations, activeDeviceUuid, toggleRollback, wanted, call, systemDump,
  asked, overlaid, refreshed, answered,
  inventory, resolving, devices, knownHosts, cidr, listReply, hostsReply, resolveReply,
  scanned, srvHosts, copies, overlapped, undone

streamVars == <<real, feed, powerFeed, conn, wire, source, reconnectTimer, retryIndex, closed,
                monitor, deviceStates, devicePower>>
operationsVars == <<hosts, operations, activeDeviceUuid, toggleRollback, wanted, call, systemDump,
                    asked, overlaid, refreshed, answered>>
inventoryVars == <<inventory, resolving, devices, knownHosts, cidr, listReply, hostsReply,
                   resolveReply, scanned, srvHosts, copies, overlapped, undone>>
vars == <<running, streamVars, operationsVars, inventoryVars>>

Stream == INSTANCE DeviceStream
Operations == INSTANCE DeviceOperations WITH Readings <- {}, Delays <- 1, MaxWire <- 2
Region == INSTANCE InventoryRegion WITH Uuids <- Inventory, hosts <- knownHosts

\* None is no device and no rollback.
ASSUME NoneAssumption == None \notin Uuids \cup [uuid : Uuids, previous : Stream!State \cup {None}]

Init ==
  /\ running \in {"stream", "operations", "inventory"}
  /\ running # "inventory" \/ real = [u \in Uuids |-> 0]
  /\ Operations!Init
  /\ running = "inventory" \/ srvHosts = {}
  /\ Region!Init

Next ==
  \/ running = "stream" /\ Stream!StreamNext /\ UNCHANGED <<running, operationsVars, inventoryVars>>
  \/ running = "operations" /\ Operations!Next /\ UNCHANGED <<running, inventoryVars>>
  \/ running = "inventory" /\ Region!Next /\ UNCHANGED <<running, streamVars, operationsVars>>

\* The browser's timers fire.
Fairness == WF_streamVars(running = "stream" /\ Stream!OpenStream)

Spec == Init /\ [][Next]_vars /\ Fairness

-----------------------------------------------------------------------------
\* The actor's variables have their types, while the view is open there is an
\* EventSource or a reconnect timer and never both, and the monitor region says live
\* exactly while the source is open.
StreamSound == Stream!StreamTypeOK /\ Stream!OneConnection /\ Stream!MonitorFollowsSource

\* Whatever connections were lost with events in flight, a connected client that has
\* read its queue shows the states and readings the server published, except for a
\* device a toggle of its own has written over since.
ShownConverges ==
  /\ running = "stream" => Stream!StreamConverges /\ Stream!PowerConverges
  /\ running = "operations" => Operations!ConvergesUnlessOverlaid

\* A broken stream is tried again as long as the view is open.
AlwaysRetries ==
  (running = "stream" /\ source = "null" /\ ~closed) ~> (source = "connecting" \/ closed)

\* A rollback belongs to the toggle under way, and an optimistic state that outlives
\* its toggle is that of one the device answered.
OptimismOwned == running = "operations" => Operations!RollbackOwned /\ Operations!OptimismAnswered

\* Whatever handlers write the config meanwhile, a scan that ends has shown every address
\* it found and has taken none away, unless one of them wrote back what it had read before.
InventoryKept == Region!FoundHostsShown /\ Region!StoredHostsKept
=============================================================================
