-------------------------- MODULE InventoryRegion --------------------------
(***************************************************************************)
(* The inventory region of apps/web/src/state/devicesMachine.ts, the host  *)
(* lookup of its operations region, InventoryView, which starts a reload   *)
(* when it is mounted and scans after each refresh, and the hosts of the   *)
(* server's config.  Each handler that stores something reads the config   *)
(* and writes all of it back later, so what another one stored meanwhile   *)
(* is lost.  SET_CIDR is left out: no view sends it, the range is the      *)
(* suggested one (App.tsx:10).                                             *)
(***************************************************************************)
EXTENDS Naturals

CONSTANTS
  Uuids,           \* devices looked at, among others
  Cidrs, NoCidr,   \* NoCidr: blank
  Others,          \* further handlers under way: the poller's lookups, other
                   \* pages, and requests whose answer no longer reaches this one
  None             \* no answer yet

VARIABLES
  inventory,   \* the region
  resolving,   \* the lookup of the operations region: "idle", "post" or "get"
  devices,     \* the cloud inventory has been loaded
  hosts,       \* devices whose address the client knows
  cidr,
  listReply,   \* POST /api/cloud/devices/refresh: None, "ok" or "error"
  hostsReply,  \* answer of the region's GET /api/hosts, or None
  resolveReply,
  scanned,     \* POST /api/hosts/discover: None or what it found
  srvHosts,    \* devices that have an address in the config
  copies,      \* handler -> None, or the hosts it read and whether that was
               \* before the last scan of this page was stored
  overlapped,  \* history: another handler wrote while this page's scan was merged
  undone       \* history: one that had read before the last scan was stored wrote after

vars == <<inventory, resolving, devices, hosts, cidr, listReply, hostsReply, resolveReply,
          scanned, srvHosts, copies, overlapped, undone>>

calls == <<listReply, hostsReply, scanned>>
server == <<srvHosts, copies, overlapped, undone>>
lookup == <<resolving, resolveReply>>

HostSets == SUBSET Uuids
Handlers == {"refresh", "discover", "resolve"} \cup Others

-----------------------------------------------------------------------------
(* The handlers on the server *)

Read(w) ==
  /\ copies[w] = None
  /\ copies' = [copies EXCEPT ![w] = [hosts |-> srvHosts, before |-> FALSE]]
  /\ UNCHANGED <<srvHosts, overlapped, undone>>

\* A fault: what was found replaces the hosts that are known.
M_Merge(read, found) == found

\* {...cfg, hosts: {...cfg.hosts, ...found}}; a refresh stores no host of its own.
Merge(read, found) == read \cup found

\* Any handler but this page's scan writes its copy back.
Write(w, found) ==
  /\ copies[w] # None
  /\ srvHosts' = Merge(copies[w].hosts, found)
  /\ copies' = [copies EXCEPT ![w] = None]
  /\ overlapped' = (copies["discover"] # None)
  /\ undone' = (undone \/ copies[w].before)

\* The request fails: the handler is over, or goes on unheard.
Fails(w) ==
  /\ \/ copies' = [copies EXCEPT ![w] = None]
     \/ \E o \in Others : /\ copies[o] = None
                          /\ copies' = [copies EXCEPT ![w] = None, ![o] = copies[w]]
  /\ overlapped' = (overlapped /\ w # "discover")
  /\ UNCHANGED <<srvHosts, undone>>

Unheard ==
  /\ \E o \in Others : Read(o) \/ \E found \in HostSets : Write(o, found)
  /\ UNCHANGED <<inventory, lookup, devices, hosts, cidr, calls>>

-----------------------------------------------------------------------------
(* Reloads *)

\* startReload, and the effect that sends REFRESH once when the view is mounted.
Refresh ==
  /\ inventory = "idle"
  /\ inventory' = "refreshingCloud"
  /\ hostsReply' = None
  /\ UNCHANGED <<lookup, devices, hosts, cidr, listReply, scanned, server>>

\* The two requests of refreshFromCloud are answered independently; a failed
\* GET /api/hosts answers {}.
ListRead ==
  /\ inventory = "refreshingCloud" /\ listReply = None
  /\ Read("refresh")
  /\ UNCHANGED <<inventory, lookup, devices, hosts, cidr, calls>>

ListAnswer ==
  /\ inventory = "refreshingCloud" /\ listReply = None
  /\ \/ listReply' = "ok" /\ Write("refresh", {})
     \/ listReply' = "error" /\ Fails("refresh")
  /\ UNCHANGED <<inventory, lookup, devices, hosts, cidr, hostsReply, scanned>>

HostsAnswer ==
  /\ inventory = "refreshingCloud" /\ hostsReply = None
  /\ hostsReply' \in {srvHosts, {}}
  /\ UNCHANGED <<inventory, lookup, devices, hosts, cidr, listReply, scanned, server>>

\* SCAN, sent by the view's effect as soon as the region has left refreshingCloud.
Scan ==
  /\ inventory' = IF cidr = NoCidr THEN "suggestingCidr" ELSE "discoveringHosts"
  /\ scanned' = None /\ hostsReply' = None

RefreshDone ==
  /\ inventory = "refreshingCloud" /\ listReply = "ok" /\ hostsReply # None
  /\ devices' = TRUE
  /\ hosts' = hostsReply
  /\ listReply' = None
  /\ Scan
  /\ UNCHANGED <<lookup, cidr, server>>

\* Promise.all rejects with the first failure.
RefreshError ==
  /\ inventory = "refreshingCloud" /\ listReply = "error"
  /\ listReply' = None
  /\ Scan
  /\ UNCHANGED <<lookup, devices, hosts, cidr, server>>

SetCidrIfEmpty(default) == cidr' = IF cidr = NoCidr THEN default ELSE cidr

SuggestDone ==
  /\ inventory = "suggestingCidr"
  /\ \E default \in Cidrs \cup {NoCidr} : SetCidrIfEmpty(default)
  /\ inventory' = "discoveringHosts"
  /\ UNCHANGED <<lookup, devices, hosts, calls, server>>

SuggestError ==
  /\ inventory = "suggestingCidr"
  /\ inventory' = "discoveringHosts"
  /\ UNCHANGED <<lookup, devices, hosts, cidr, calls, server>>

\* discoverHosts: when the server has scanned it reads the config, ...
DiscoverRead ==
  /\ inventory = "discoveringHosts" /\ scanned = None
  /\ Read("discover")
  /\ UNCHANGED <<inventory, lookup, devices, hosts, cidr, calls>>

\* ... stores what it found and answers; then GET /api/hosts.
DiscoverAnswer ==
  /\ inventory = "discoveringHosts" /\ scanned = None /\ copies["discover"] # None
  /\ \E found \in HostSets :
       /\ scanned' = found
       /\ srvHosts' = Merge(copies["discover"].hosts, found)
  /\ copies' = [w \in Handlers |-> IF w = "discover" \/ copies[w] = None THEN None
                                   ELSE [hosts |-> copies[w].hosts, before |-> TRUE]]
  /\ overlapped' = FALSE /\ undone' = FALSE
  /\ UNCHANGED <<inventory, lookup, devices, hosts, cidr, listReply, hostsReply>>

\* A fault: both requests are sent at once, as refreshFromCloud does.
M_DiscoverGet ==
  /\ inventory = "discoveringHosts" /\ hostsReply = None
  /\ hostsReply' = srvHosts
  /\ UNCHANGED <<inventory, lookup, devices, hosts, cidr, listReply, scanned, server>>

DiscoverGet ==
  /\ inventory = "discoveringHosts" /\ scanned # None /\ hostsReply = None
  /\ hostsReply' = srvHosts
  /\ UNCHANGED <<inventory, lookup, devices, hosts, cidr, listReply, scanned, server>>

DiscoverDone ==
  /\ inventory = "discoveringHosts" /\ scanned # None /\ hostsReply # None
  /\ hosts' = hostsReply
  /\ inventory' = "idle"
  /\ UNCHANGED <<lookup, devices, cidr, calls, server>>

DiscoverError ==
  /\ inventory = "discoveringHosts" /\ (scanned = None \/ hostsReply = None)
  /\ inventory' = "idle"
  /\ Fails("discover")
  /\ UNCHANGED <<lookup, devices, hosts, cidr, calls>>

-----------------------------------------------------------------------------
(* Host lookups, which run beside the inventory region *)

DeviceResolve ==
  /\ resolving = "idle"
  /\ resolving' = "post"
  /\ UNCHANGED <<inventory, resolveReply, devices, hosts, cidr, calls, server>>

ResolveRead ==
  /\ resolving = "post"
  /\ Read("resolve")
  /\ UNCHANGED <<inventory, lookup, devices, hosts, cidr, calls>>

\* POST /api/hosts/resolve found one device, of Uuids or not; then GET /api/hosts is
\* answered.
ResolveAnswer ==
  /\ resolving = "post"
  /\ \E found \in {{}} \cup {{u} : u \in Uuids} : Write("resolve", found)
  /\ resolving' = "get"
  /\ UNCHANGED <<inventory, resolveReply, devices, hosts, cidr, calls>>

ResolveGet ==
  /\ resolving = "get" /\ resolveReply = None
  /\ resolveReply' = srvHosts
  /\ UNCHANGED <<inventory, resolving, devices, hosts, cidr, calls, server>>

ResolveDone ==
  /\ resolving = "get" /\ resolveReply # None
  /\ hosts' = resolveReply
  /\ resolving' = "idle" /\ resolveReply' = None
  /\ UNCHANGED <<inventory, devices, cidr, calls, server>>

ResolveError ==
  /\ resolving # "idle"
  /\ resolving' = "idle" /\ resolveReply' = None
  /\ Fails("resolve")
  /\ UNCHANGED <<inventory, devices, hosts, cidr, calls>>

Init ==
  /\ inventory = "idle" /\ resolving = "idle" /\ devices = FALSE
  /\ hosts = {} /\ cidr = NoCidr
  /\ listReply = None /\ hostsReply = None /\ resolveReply = None /\ scanned = None
  /\ srvHosts \in HostSets
  /\ copies = [w \in Handlers |-> None]
  /\ overlapped = FALSE /\ undone = FALSE

Next ==
  \/ Refresh \/ ListRead \/ ListAnswer \/ HostsAnswer \/ RefreshDone \/ RefreshError
  \/ SuggestDone \/ SuggestError
  \/ DiscoverRead \/ DiscoverAnswer \/ DiscoverGet \/ DiscoverDone \/ DiscoverError
  \/ DeviceResolve \/ ResolveRead \/ ResolveAnswer \/ ResolveGet \/ ResolveDone \/ ResolveError
  \/ Unheard

Spec == Init /\ [][Next]_vars

-----------------------------------------------------------------------------
(* Properties *)

\* A scan that ends shows every address it found, unless a handler that had read the
\* config before the scan was stored wrote it back since: the hosts are asked for after
\* the scan is answered.
FoundHostsShown ==
  [][inventory = "discoveringHosts" /\ inventory' = "idle" /\ scanned # None /\ hostsReply # None =>
       scanned \subseteq hosts' \/ undone]_vars

\* What a scan stores takes no address away that was known when the scanning was over,
\* be its device off or outside the range, unless another handler wrote in between.
StoredHostsKept ==
  [][scanned = None /\ scanned' # None /\ ~overlapped => srvHosts \subseteq srvHosts']_vars

\* InventoryView: "Devices with a known IP remain controllable while scan runs."
ControllableDuringScan ==
  inventory \in {"suggestingCidr", "discoveringHosts"} /\ devices /\ resolving = "idle" =>
    IF scanned = None THEN srvHosts \subseteq hosts ELSE srvHosts \subseteq hosts \cup scanned

\* InventoryView: "Discovered, controllable devices will appear here."  What a scan found
\* is shown from its end to the next reload.
DiscoveredAppear ==
  inventory = "idle" /\ scanned # None /\ hostsReply # None => scanned \subseteq hosts
=============================================================================
