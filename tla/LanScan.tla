------------------------------ MODULE LanScan ------------------------------
(***************************************************************************)
(* Finding devices on the network: the worker pool of POST                 *)
(* /api/hosts/discover and of resolveHostByUuidScan                        *)
(* (packages/core/src/meross/lan/discovery.ts), the ARP lookup that comes  *)
(* before it when a MAC is known (api/resolve-host.ts, lan/resolve-ip.ts)  *)
(* and the merge of what was found into the stored hosts.                  *)
(* Workers share the next index i and what was found; between two awaits a *)
(* worker runs alone.  A device is its uuid and its MAC at once.           *)
(***************************************************************************)
EXTENDS Naturals, FiniteSets

CONSTANTS Devices,
          Last,       \* addresses are 1 .. Last, in the order of ips
          Workers,    \* concurrency where it is a number: workers are 1 .. Workers
          MaxMoves,   \* bound: addresses the router hands out anew
          None

VARIABLES lan,      \* the device at each address, or None
          call,     \* kind, uuid and mac of the request
          i,        \* the next index, counted from 1 here
          worker,   \* the address each worker waits for; 0 when it has ended
          found,    \* the address each uuid was found at, or None
          hosts,    \* cfg.hosts before and after
          missed,   \* addresses that did not answer in time (history)
          moves

vars == <<lan, call, i, worker, found, hosts, missed, moves>>

Addresses == 1 .. Last
Nowhere == [d \in Devices |-> None]
NoWorker == [w \in 1 .. Workers |-> 0]

Stage == call.stage

\* One device has one address; a device may be away.
Init ==
    /\ lan \in [Addresses -> Devices \cup {None}]
    /\ \A p, q \in Addresses : p # q /\ lan[p] # None => lan[p] # lan[q]
    /\ call = [stage |-> "idle", kind |-> "none", uuid |-> None, mac |-> None]
    /\ i = 1 /\ worker = NoWorker
    /\ found = Nowhere
    /\ hosts \in {Nowhere, [d \in Devices |-> 1]}
    /\ missed = {}
    /\ moves = 0

\* A fault: the shared index lags by one.
M_StartScan(n) ==
    /\ worker' = [w \in 1 .. Workers |-> IF w <= n /\ w <= Last THEN w ELSE 0]
    /\ i' = IF n = 0 THEN 1 ELSE n

\* listHostsInCidr, then Promise.all over n workers: each takes its first
\* address at once.
StartScan(n) ==
    /\ worker' = [w \in 1 .. Workers |-> IF w <= n /\ w <= Last THEN w ELSE 0]
    /\ i' = n + 1

\* Without a CIDR, or without the account's key, nothing is scanned.  A
\* concurrency that is no number makes an array of no workers: Math.max(1, NaN)
\* is NaN.
DiscoverHosts ==
    /\ Stage = "idle"
    /\ \E stage \in {"scan", "refused"} :
        /\ call' = [stage |-> stage, kind |-> "discover", uuid |-> None, mac |-> None]
        /\ \/ stage = "scan" /\ \E n \in {0, Workers} : StartScan(n)
           \/ stage = "refused" /\ UNCHANGED <<i, worker>>
    /\ UNCHANGED <<lan, found, hosts, missed, moves>>

\* A MAC is looked up in the ARP table first; without one the scan begins.
ResolveHost(uuid, mac) ==
    /\ Stage = "idle"
    /\ \/ /\ mac # None
          /\ call' = [stage |-> "arp", kind |-> "resolve", uuid |-> uuid, mac |-> mac]
          /\ UNCHANGED <<i, worker>>
       \/ /\ mac = None
          /\ call' = [stage |-> "scan", kind |-> "resolve", uuid |-> uuid, mac |-> mac]
          /\ StartScan(Workers)
       \/ /\ mac = None
          /\ call' = [stage |-> "refused", kind |-> "resolve", uuid |-> uuid, mac |-> mac]
          /\ UNCHANGED <<i, worker>>
    /\ UNCHANGED <<lan, found, hosts, missed, moves>>

\* resolveIpv4FromMac: the table may name an address the MAC no longer has.
\* If it names none, the scan follows, provided there is a CIDR and a key.
ResolveIpv4FromMac ==
    /\ Stage = "arp"
    /\ \/ /\ \E p \in Addresses :
              /\ found' = [found EXCEPT ![call.uuid] = p]
              /\ call' = [call EXCEPT !.stage = "found"]
          /\ UNCHANGED <<i, worker>>
       \/ /\ call' = [call EXCEPT !.stage = "scan"]
          /\ StartScan(Workers)
          /\ UNCHANGED found
       \/ /\ \E stage \in {"host_not_found", "refused"} : call' = [call EXCEPT !.stage = stage]
          /\ UNCHANGED <<i, worker, found>>
    /\ UNCHANGED <<lan, hosts, missed, moves>>

\* The scan for one uuid stops once it is found.
Stops(f) == call.kind = "resolve" /\ f[call.uuid] # None

\* The worker goes round its loop with what is found now: it ends or takes
\* the next address.
TakeNext(w, f) ==
    IF i > Last \/ Stops(f)
    THEN worker' = [worker EXCEPT ![w] = 0] /\ UNCHANGED i
    ELSE worker' = [worker EXCEPT ![w] = i] /\ i' = i + 1

\* A fault: a missing MAC matches a missing MAC.
M_Identifies(d, hasMac) == d = call.uuid \/ call.mac = (IF hasMac THEN d ELSE None)

\* Does an answer of device d, with its MAC or without, identify the target?
Identifies(d, hasMac) == d = call.uuid \/ (hasMac /\ call.mac # None /\ d = call.mac)

\* A fault: the shared index is read after the await.
M_SystemAll(w, hasMac) ==
    LET p == worker[w]
        d == lan[p]
        f == CASE call.kind = "discover" -> [found EXCEPT ![d] = i - 1]
               [] call.kind = "resolve" /\ Identifies(d, hasMac) -> [found EXCEPT ![call.uuid] = p]
               [] OTHER -> found
    IN  /\ Stage = "scan" /\ p # 0
        /\ d # None
        /\ found' = f
        /\ TakeNext(w, f)
        /\ UNCHANGED <<lan, call, hosts, missed, moves>>

\* getSystemAll answered with the device that is at the address now.
SystemAll(w, hasMac) ==
    LET p == worker[w]
        d == lan[p]
        f == CASE call.kind = "discover" -> [found EXCEPT ![d] = p]
               [] call.kind = "resolve" /\ Identifies(d, hasMac) -> [found EXCEPT ![call.uuid] = p]
               [] OTHER -> found
    IN  /\ Stage = "scan" /\ p # 0
        /\ d # None
        /\ found' = f
        /\ TakeNext(w, f)
        /\ UNCHANGED <<lan, call, hosts, missed, moves>>

\* A fault: a timeout does not advance the worker.
M_NoAnswer(w) ==
    /\ Stage = "scan" /\ worker[w] # 0
    /\ missed' = missed \cup {worker[w]}
    /\ UNCHANGED <<lan, call, i, worker, found, hosts, moves>>

\* Nobody there, no answer within perHostTimeoutMs, or an answer without uuid.
NoAnswer(w) ==
    /\ Stage = "scan" /\ worker[w] # 0
    /\ missed' = missed \cup {worker[w]}
    /\ TakeNext(w, found)
    /\ UNCHANGED <<lan, call, found, hosts, moves>>

\* Promise.all: every worker has ended.
ScanEnds ==
    /\ Stage = "scan"
    /\ worker = NoWorker
    /\ call' = [call EXCEPT !.stage = IF call.kind = "resolve" /\ found[call.uuid] = None
                                      THEN "host_not_found" ELSE "found"]
    /\ UNCHANGED <<lan, i, worker, found, hosts, missed, moves>>

\* readConfig and writeConfig: what was found replaces, the rest stays.
Merge ==
    /\ Stage = "found"
    /\ hosts' = [d \in Devices |-> IF found[d] # None THEN found[d] ELSE hosts[d]]
    /\ call' = [call EXCEPT !.stage = "done"]
    /\ UNCHANGED <<lan, i, worker, found, missed, moves>>

\* A device gets another address while the scan runs.
Move ==
    /\ moves < MaxMoves
    /\ moves' = moves + 1
    /\ \E p, q \in Addresses :
        /\ lan[p] # None /\ lan[q] = None
        /\ lan' = [lan EXCEPT ![p] = None, ![q] = lan[p]]
    /\ UNCHANGED <<call, i, worker, found, hosts, missed>>

\* The next request is a fresh one.
Answered ==
    /\ Stage \in {"done", "host_not_found", "refused"}
    /\ call' = [stage |-> "idle", kind |-> "none", uuid |-> None, mac |-> None]
    /\ i' = 1
    /\ found' = Nowhere
    /\ missed' = {}
    /\ UNCHANGED <<lan, worker, hosts, moves>>

Handler ==
    \/ ResolveIpv4FromMac
    \/ \E w \in 1 .. Workers : NoAnswer(w) \/ \E hasMac \in BOOLEAN : SystemAll(w, hasMac)
    \/ ScanEnds \/ Merge \/ Answered

Next ==
    \/ DiscoverHosts
    \/ \E uuid \in Devices, mac \in Devices \cup {None} : ResolveHost(uuid, mac)
    \/ Handler
    \/ Move

\* Every LAN request is answered or aborted by its timeout.
Fairness == WF_vars(Handler)

Spec == Init /\ [][Next]_vars /\ Fairness

-----------------------------------------------------------------------------
\* The pool never asks one address twice at a time, and what the workers have
\* not taken yet is exactly what lies at or beyond i.
PoolExact ==
    /\ \A v, w \in 1 .. Workers : v # w /\ worker[v] # 0 => worker[v] # worker[w]
    /\ Stage = "scan" => \A w \in 1 .. Workers : worker[w] < i

\* When no device moved, a discovery that had workers ends with every device
\* whose answer arrived, at its address: no address falls between two workers.
DiscoveryComplete ==
    (Stage = "done" /\ call.kind = "discover" /\ i # 1 /\ moves = 0) =>
        \A p \in Addresses \ missed : lan[p] # None => hosts[lan[p]] = p

\* A scan for a uuid, also one that follows an ARP table without the MAC, stores
\* the address of a device that has that uuid or the MAC the caller named, and
\* finds none only if the device with the uuid did not answer.
ScanTruthful ==
    (call.kind = "resolve" /\ i # 1 /\ moves = 0) =>
        /\ Stage = "done" =>
               \/ lan[hosts[call.uuid]] = call.uuid
               \/ call.mac # None /\ lan[hosts[call.uuid]] = call.mac
        /\ Stage = "host_not_found" => \A p \in Addresses \ missed : lan[p] # call.uuid

\* What the handler says of itself: "Scan a CIDR range, identify Meross devices
\* by uuid."  A discovery that reports success has asked every address.
RangeScanned == Stage = "done" /\ call.kind = "discover" => i > Last

\* Every request is answered: the pool drains and its promise settles.
ScanAnswered == (Stage # "idle") ~> (Stage = "idle")
=============================================================================
