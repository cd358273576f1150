---------------------------- MODULE ConfigStore ----------------------------
(***************************************************************************)
(* The config file and everyone who updates it: packages/core/src/meross/  *)
(* config.ts, the handlers of packages/core/src/api that call writeConfig, *)
(* tryResolveHost of the state poller, and the commands of packages/cli.   *)
(*                                                                         *)
(* Each update reads the whole file, changes one section of its copy and   *)
(* writes the whole copy back, with no lock, from several requests of the  *)
(* server process and from other processes.  Some read before they wait    *)
(* for the cloud or scan the LAN, some after.                              *)
(***************************************************************************)
EXTENDS Naturals, Maps

CONSTANTS
  Ops,        \* updates that may run at the same time
  Uuids, Hosts,
  Creds,      \* cloud credentials
  Lists,      \* cloud device lists
  Cidrs,
  None,       \* a section the file does not have
  MEROSS_KEY, \* the environment provides a LAN key
  AtomicWrites, \* Bun.write replaces the file in one step
  MaxKills    \* bound: processes that end in the middle of an update

ASSUME StoreAssumption ==
  /\ None \notin Creds \cup Lists \cup Cidrs
  /\ MEROSS_KEY \in BOOLEAN
  /\ AtomicWrites \in BOOLEAN
  /\ MaxKills \in Nat

VARIABLES
  file,      \* the config last written completely
  readable,  \* the file holds it; otherwise it is truncated or mixed up
  ops,       \* update -> its progress
  kills,
  committed, \* history: what the updates that reported success add up to
  raced      \* history: two updates overlapped, or a process died while writing

vars == <<file, readable, ops, kills, committed, raced>>

-----------------------------------------------------------------------------
(* Configurations *)

HostMaps == MapsOf(Uuids, Hosts)

MerossConfig ==
  [cloud : Creds \cup {None}, devices : Lists \cup {None},
   hosts : HostMaps, network : Cidrs \cup {None}]

EmptyConfig == [cloud |-> None, devices |-> None, hosts |-> EmptyMap, network |-> None]

\* A patch is the config that has only what an update found out:
\* { ...cfg, section: value }, with hosts merged by uuid.
Patched(cfg, patch) ==
  [cloud   |-> IF patch.cloud # None THEN patch.cloud ELSE cfg.cloud,
   devices |-> IF patch.devices # None THEN patch.devices ELSE cfg.devices,
   hosts   |-> [u \in DOMAIN cfg.hosts \cup DOMAIN patch.hosts |->
                  IF u \in DOMAIN patch.hosts THEN patch.hosts[u] ELSE cfg.hosts[u]],
   network |-> IF patch.network # None THEN patch.network ELSE cfg.network]

\* loadMerossConfig: what cannot be parsed reads as {}.
LoadMerossConfig == IF readable THEN file ELSE EmptyConfig

\* requireLanKey, and its copy in the CLI.
HasLanKey(cfg) == cfg.cloud # None \/ MEROSS_KEY

-----------------------------------------------------------------------------
(* Updates *)

Kinds == {"login", "refresh", "resolve", "discover", "discoverCli", "cidr"}

\* The kinds that read the config before their remote work; the others read it
\* right before they write.
ReadsFirst == {"refresh", "discoverCli", "cidr"}

\* "work": waiting for the cloud or the LAN; "read": awaiting readConfig;
\* "write": about to call writeConfig with cfg; "writing": Bun.write under way.
\* clash: another write was under way at the same time.
Op ==
  [kind : Kinds, pc : {"work", "read", "write", "writing"},
   cfg : MerossConfig, patch : MerossConfig, clash : BOOLEAN]

TypeOK ==
  /\ file \in MerossConfig
  /\ readable \in BOOLEAN
  /\ IsMap(ops, Ops, Op)
  /\ kills \in 0..MaxKills
  /\ committed \in MerossConfig
  /\ raced \in BOOLEAN

Init ==
  /\ file \in MerossConfig
  /\ readable = TRUE
  /\ ops = EmptyMap
  /\ kills = 0
  /\ committed = file
  /\ raced = FALSE

\* The update ends without having written: an error response or a thrown error.
Ends(o) ==
  /\ ops' = Drop(ops, o)
  /\ UNCHANGED <<file, readable, kills, committed, raced>>

Continues(o, op) ==
  /\ ops' = Put(ops, o, op)
  /\ UNCHANGED <<file, readable, kills, committed, raced>>

NewOp(kind, pc, patch) ==
  [kind |-> kind, pc |-> pc, cfg |-> EmptyConfig, patch |-> patch, clash |-> FALSE]

\* POST /api/cloud/login, meross:login: the cloud first.
LoginCloud(o) ==
  /\ o \notin DOMAIN ops
  /\ Continues(o, NewOp("login", "work", EmptyConfig))

\* POST /api/cloud/devices/refresh, meross:devices:refresh: the config first.
RefreshCloudDevices(o) ==
  /\ o \notin DOMAIN ops
  /\ Continues(o, NewOp("refresh", "read", EmptyConfig))

\* POST /api/hosts/resolve and the poller's tryResolveHost.
ResolveHost(o) ==
  /\ o \notin DOMAIN ops
  /\ Continues(o, NewOp("resolve", "work", EmptyConfig))

\* POST /api/hosts/discover: requireLanKey, then the scan.
DiscoverHosts(o) ==
  /\ o \notin DOMAIN ops
  /\ HasLanKey(LoadMerossConfig)
  /\ Continues(o, NewOp("discover", "work", EmptyConfig))

\* meross:hosts:discover.
DiscoverHostsCli(o) ==
  /\ o \notin DOMAIN ops
  /\ Continues(o, NewOp("discoverCli", "read", EmptyConfig))

\* POST /api/network/cidr, which refuses an empty cidr.
M_AcceptsEmpty(o, cidr) ==
  /\ o \notin DOMAIN ops
  /\ Continues(o, NewOp("cidr", "read", [EmptyConfig EXCEPT !.network = ""]))
NetworkCidr(o, cidr) ==
  /\ o \notin DOMAIN ops
  /\ Continues(o, NewOp("cidr", "read", [EmptyConfig EXCEPT !.network = cidr]))

\* readConfig, with the early returns of refresh and of meross:hosts:discover.
ReadConfig(o) ==
  LET op == ops[o]
      cfg == LoadMerossConfig
      refused == \/ op.kind = "refresh" /\ cfg.cloud = None
                 \/ op.kind = "discoverCli" /\ ~HasLanKey(cfg)
  IN  /\ o \in DOMAIN ops
      /\ op.pc = "read"
      /\ ops' = IF refused THEN Drop(ops, o)
                ELSE Put(ops, o, [op EXCEPT !.cfg = cfg,
                       !.pc = IF op.kind \in {"refresh", "discoverCli"}
                              THEN "work" ELSE "write"])
      /\ raced' = (raced \/ ~readable)
      /\ UNCHANGED <<file, readable, kills, committed>>

\* The remote work succeeded and gave patch.
WorkDone(o, kinds, patch) ==
  /\ o \in DOMAIN ops
  /\ ops[o].pc = "work"
  /\ ops[o].kind \in kinds
  /\ Continues(o, [ops[o] EXCEPT !.patch = patch,
                     !.pc = IF ops[o].kind \in ReadsFirst THEN "write" ELSE "read"])

\* merossCloudLogin gave credentials.
LoginAnswered(o, creds) == WorkDone(o, {"login"}, [EmptyConfig EXCEPT !.cloud = creds])

\* merossCloudListDevices gave the list.
ListAnswered(o, list) == WorkDone(o, {"refresh"}, [EmptyConfig EXCEPT !.devices = list])

\* ARP or the scan by uuid gave the address of one device.
HostFound(o, u, host) ==
  WorkDone(o, {"resolve"}, [EmptyConfig EXCEPT !.hosts = Put(EmptyMap, u, host)])

\* The scan of the network gave the devices that answered.
HostsScanned(o, hosts) ==
  WorkDone(o, {"discover", "discoverCli"}, [EmptyConfig EXCEPT !.hosts = hosts])

\* A cloud error, a missing key, nothing found, an invalid CIDR.
WorkFailed(o) ==
  /\ o \in DOMAIN ops
  /\ ops[o].pc = "work"
  /\ Ends(o)

-----------------------------------------------------------------------------
(* saveMerossConfig.  Nothing says that Bun.write replaces the file at once: *)
(* unless AtomicWrites, the file cannot be parsed until the write is done.   *)

Writers == {o \in DOMAIN ops : ops[o].pc = "writing"}
Holders == {o \in DOMAIN ops :
              \/ ops[o].pc \in {"write", "writing"}
              \/ ops[o].pc = "work" /\ ops[o].kind \in ReadsFirst}

BeginWrite(o) ==
  /\ o \in DOMAIN ops
  /\ ops[o].pc = "write"
  /\ readable' = (readable /\ AtomicWrites)
  /\ ops' = [p \in DOMAIN ops |->
               IF p = o THEN [ops[o] EXCEPT !.pc = "writing", !.clash = (Writers # {})]
               ELSE IF p \in Writers THEN [ops[p] EXCEPT !.clash = TRUE]
               ELSE ops[p]]
  /\ UNCHANGED <<file, kills, committed, raced>>

\* The argument of writeConfig.
M_DropsRest(op) == op.patch
Written(op) == Patched(op.cfg, op.patch)

\* The response is sent: the update counts as done.  Two writes at once may
\* leave a mixture of both.
EndWrite(o) ==
  /\ o \in DOMAIN ops
  /\ ops[o].pc = "writing"
  /\ file' = Written(ops[o])
  /\ readable' \in IF ops[o].clash /\ ~AtomicWrites THEN BOOLEAN ELSE {TRUE}
  /\ ops' = Drop(ops, o)
  /\ committed' = Patched(committed, ops[o].patch)
  /\ raced' = (raced \/ Holders # {o})
  /\ UNCHANGED kills

\* The process ends: Ctrl-C, a crash, a restart of the dev server.
Kill(o) ==
  /\ kills < MaxKills
  /\ o \in DOMAIN ops
  /\ kills' = kills + 1
  /\ ops' = Drop(ops, o)
  /\ raced' = (raced \/ o \in Writers)
  /\ UNCHANGED <<file, readable, committed>>

-----------------------------------------------------------------------------
Next ==
  \E o \in Ops :
    \/ LoginCloud(o) \/ RefreshCloudDevices(o) \/ ResolveHost(o)
    \/ DiscoverHosts(o) \/ DiscoverHostsCli(o)
    \/ \E cidr \in Cidrs : NetworkCidr(o, cidr)
    \/ ReadConfig(o)
    \/ \E creds \in Creds : LoginAnswered(o, creds)
    \/ \E list \in Lists : ListAnswered(o, list)
    \/ \E u \in Uuids, host \in Hosts : HostFound(o, u, host)
    \/ \E hosts \in HostMaps : HostsScanned(o, hosts)
    \/ WorkFailed(o) \/ BeginWrite(o) \/ EndWrite(o) \/ Kill(o)

Spec == Init /\ [][Next]_vars

-----------------------------------------------------------------------------
(* Properties *)

\* As long as no two updates overlapped and no process died while writing, the
\* file is exactly what the successful updates add up to: every handler keeps
\* the sections it does not own, whatever the order they ran in.
SerialUpdatesKept ==
  ~raced => (Writers = {} => readable /\ file = committed)

\* Why it holds: until the first overlap every copy held by an update is the
\* current file, and a write that clashes has its rival still under way.
CopiesCurrent ==
  ~raced =>
    /\ file = committed
    /\ \A o \in Holders : ops[o].cfg = committed
    /\ Writers = {} => readable
    /\ \A o \in Writers : ops[o].clash => Writers # {o}

\* The inductive invariant.
StoreInv == TypeOK /\ CopiesCurrent

\* login-cloud.ts: "Authenticate against Meross cloud and persist credentials to
\* config"; resolve-host.ts: "... and persist mapping"; discover-hosts.ts: "merge
\* discovered hosts into config".  What a handler reported as done is in the file
\* once no write is under way.
ReportedUpdatesKept ==
  Writers = {} /\ readable => file = committed
=============================================================================
