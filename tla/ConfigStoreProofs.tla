-------------------------- MODULE ConfigStoreProofs --------------------------
(* Theorems about ConfigStore, for any number of concurrent updates.          *)
EXTENDS ConfigStore, TLAPS

USE DEF Kinds

\* {} is a config.
LEMMA EmptyConfigType == EmptyConfig \in MerossConfig
<1>1. EmptyMap \in HostMaps
  BY DEF EmptyMap, HostMaps, MapsOf
<1>. QED BY <1>1 DEF EmptyConfig, MerossConfig

\* A config with a patch applied is a config.
LEMMA PatchedType ==
  ASSUME NEW cfg \in MerossConfig, NEW patch \in MerossConfig
  PROVE  Patched(cfg, patch) \in MerossConfig
<1>. DEFINE h == [u \in DOMAIN cfg.hosts \cup DOMAIN patch.hosts |->
                    IF u \in DOMAIN patch.hosts THEN patch.hosts[u] ELSE cfg.hosts[u]]
<1>1. cfg.hosts \in HostMaps /\ patch.hosts \in HostMaps
  BY DEF MerossConfig
<1>2. /\ DOMAIN cfg.hosts \subseteq Uuids /\ DOMAIN patch.hosts \subseteq Uuids
      /\ \A u \in DOMAIN cfg.hosts : cfg.hosts[u] \in Hosts
      /\ \A u \in DOMAIN patch.hosts : patch.hosts[u] \in Hosts
  BY <1>1 DEF HostMaps, MapsOf
<1>3. h \in HostMaps
  <2>1. DOMAIN cfg.hosts \cup DOMAIN patch.hosts \in SUBSET Uuids
    BY <1>2
  <2>2. h \in [DOMAIN cfg.hosts \cup DOMAIN patch.hosts -> Hosts]
    BY <1>2
  <2>. QED BY <2>1, <2>2 DEF HostMaps, MapsOf
<1>. HIDE DEF h
<1>4. Patched(cfg, patch) =
        [cloud   |-> IF patch.cloud # None THEN patch.cloud ELSE cfg.cloud,
         devices |-> IF patch.devices # None THEN patch.devices ELSE cfg.devices,
         hosts   |-> h,
         network |-> IF patch.network # None THEN patch.network ELSE cfg.network]
  BY DEF Patched, h
<1>. QED BY <1>3, <1>4 DEF MerossConfig

\* What readConfig gives is a config.
LEMMA LoadType == ASSUME TypeOK PROVE LoadMerossConfig \in MerossConfig
BY EmptyConfigType DEF LoadMerossConfig, TypeOK

\* Initially nothing runs.
LEMMA InitInv == Init => StoreInv
<1>. SUFFICES ASSUME Init PROVE StoreInv
  OBVIOUS
<1>1. TypeOK
  <2>1. readable \in BOOLEAN /\ raced \in BOOLEAN
    BY DEF Init
  <2>2. IsMap(ops, Ops, Op)
    BY DEF Init, IsMap, EmptyMap
  <2>3. file \in MerossConfig /\ committed \in MerossConfig /\ kills \in 0..MaxKills
    BY StoreAssumption DEF Init
  <2>. QED BY <2>1, <2>2, <2>3 DEF TypeOK
<1>. QED BY <1>1 DEF StoreInv, CopiesCurrent, Init, Holders, Writers, EmptyMap

\* Map.set and Map.delete keep the type of ops.
LEMMA OpsType ==
  ASSUME TypeOK, NEW o \in Ops
  PROVE  /\ IsMap(Drop(ops, o), Ops, Op)
         /\ \A op \in Op : IsMap(Put(ops, o, op), Ops, Op)
BY DEF TypeOK, IsMap, Put, Drop

\* A step of an update that holds no copy before or after it, or that keeps the
\* one it has, and that does not touch the file.
LEMMA ContinuesInv ==
  ASSUME StoreInv, NEW o \in Ops, NEW op \in Op, Continues(o, op),
         op.pc \in {"work", "read", "write"},
         op.pc = "write" \/ (op.pc = "work" /\ op.kind \in ReadsFirst) =>
           o \in Holders /\ op.cfg = ops[o].cfg,
         o \notin Writers
  PROVE  StoreInv'
<1>1. /\ ops' = Put(ops, o, op)
      /\ UNCHANGED <<file, readable, kills, committed, raced>>
  BY DEF Continues
<1>2. TypeOK'
  BY <1>1, OpsType DEF StoreInv, TypeOK
<1>3. /\ DOMAIN ops' = DOMAIN ops \cup {o} /\ ops'[o] = op
      /\ \A p \in DOMAIN ops : p # o => ops'[p] = ops[p]
  BY <1>1 DEF Put
<1>4. Writers' = Writers
  BY <1>3 DEF Writers
<1>5. \A p \in Holders' : p \in Holders /\ ops'[p].cfg = ops[p].cfg
  BY <1>3 DEF Holders
<1>6. \A p \in Writers' : ops'[p] = ops[p]
  BY <1>3, <1>4 DEF Writers
<1>7. CopiesCurrent'
  <2>. SUFFICES ASSUME ~raced'
                PROVE  /\ file' = committed'
                       /\ \A p \in Holders' : ops'[p].cfg = committed'
                       /\ Writers' = {} => readable'
                       /\ \A p \in Writers' : ops'[p].clash => Writers' # {p}
    BY DEF CopiesCurrent
  <2>1. CopiesCurrent /\ ~raced
    BY <1>1 DEF StoreInv
  <2>. QED BY <1>1, <1>4, <1>5, <1>6, <2>1 DEF CopiesCurrent
<1>. QED BY <1>2, <1>7 DEF StoreInv

\* A new update, before it has read anything.
LEMMA NewOpType ==
  ASSUME NEW kind \in Kinds, NEW pc \in {"work", "read"}, NEW patch \in MerossConfig
  PROVE  /\ NewOp(kind, pc, patch) \in Op
         /\ NewOp(kind, pc, patch).pc = pc /\ NewOp(kind, pc, patch).kind = kind
BY EmptyConfigType DEF NewOp, Op

\* A request or command that starts holds no copy of the config.
LEMMA StartInv ==
  ASSUME StoreInv, NEW o \in Ops,
         \/ LoginCloud(o) \/ RefreshCloudDevices(o) \/ ResolveHost(o)
         \/ DiscoverHosts(o) \/ DiscoverHostsCli(o)
         \/ \E cidr \in Cidrs : NetworkCidr(o, cidr)
  PROVE  StoreInv'
<1>1. \A cidr \in Cidrs : [EmptyConfig EXCEPT !.network = cidr] \in MerossConfig
  BY EmptyConfigType DEF MerossConfig
<1>2. \E kind \in Kinds, pc \in {"work", "read"}, patch \in MerossConfig :
        /\ o \notin DOMAIN ops
        /\ pc = "work" => kind \notin ReadsFirst
        /\ Continues(o, NewOp(kind, pc, patch))
  BY <1>1, EmptyConfigType DEF ReadsFirst, LoginCloud, RefreshCloudDevices, ResolveHost,
     DiscoverHosts, DiscoverHostsCli, NetworkCidr
<1>3. PICK kind \in Kinds, pc \in {"work", "read"}, patch \in MerossConfig :
        /\ o \notin DOMAIN ops
        /\ pc = "work" => kind \notin ReadsFirst
        /\ Continues(o, NewOp(kind, pc, patch))
  BY <1>2
<1>. DEFINE op == NewOp(kind, pc, patch)
<1>4. op \in Op /\ op.pc = pc /\ op.kind = kind
  BY NewOpType
<1>5. Continues(o, op)
  BY <1>3
<1>. HIDE DEF op
<1>6. o \notin Writers
  BY <1>3 DEF Writers
<1>. QED BY <1>3, <1>4, <1>5, <1>6, ContinuesInv

\* The answer of the cloud or of the scan: an update that has a copy keeps it.
LEMMA WorkDoneInv ==
  ASSUME StoreInv, NEW o \in Ops, NEW kinds, NEW patch \in MerossConfig,
         WorkDone(o, kinds, patch)
  PROVE  StoreInv'
<1>. DEFINE pc == IF ops[o].kind \in ReadsFirst THEN "write" ELSE "read"
            op == [ops[o] EXCEPT !.patch = patch, !.pc = pc]
<1>1. o \in DOMAIN ops /\ ops[o].pc = "work" /\ Continues(o, op)
  BY DEF WorkDone
<1>2. ops[o] \in Op
  BY <1>1 DEF StoreInv, TypeOK, IsMap
<1>3. op \in Op /\ op.pc = pc /\ op.cfg = ops[o].cfg /\ op.kind = ops[o].kind
  BY <1>2 DEF Op
<1>4. o \notin Writers /\ (ops[o].kind \in ReadsFirst => o \in Holders)
  BY <1>1 DEF Writers, Holders
<1>5. op.pc \in {"read", "write"} /\ (op.pc = "write" => ops[o].kind \in ReadsFirst)
  BY <1>3
<1>. HIDE DEF op
<1>. QED BY <1>1, <1>3, <1>4, <1>5, ContinuesInv

\* Every kind of answer.
LEMMA AnswerInv ==
  ASSUME StoreInv, NEW o \in Ops,
         \/ \E creds \in Creds : LoginAnswered(o, creds)
         \/ \E list \in Lists : ListAnswered(o, list)
         \/ \E u \in Uuids, host \in Hosts : HostFound(o, u, host)
         \/ \E hosts \in HostMaps : HostsScanned(o, hosts)
  PROVE  StoreInv'
<1>1. /\ \A creds \in Creds : [EmptyConfig EXCEPT !.cloud = creds] \in MerossConfig
      /\ \A list \in Lists : [EmptyConfig EXCEPT !.devices = list] \in MerossConfig
      /\ \A hosts \in HostMaps : [EmptyConfig EXCEPT !.hosts = hosts] \in MerossConfig
  BY EmptyConfigType DEF MerossConfig
<1>2. \A u \in Uuids, host \in Hosts : Put(EmptyMap, u, host) \in HostMaps
  <2>. TAKE u \in Uuids, host \in Hosts
  <2>1. Put(EmptyMap, u, host) \in [{u} -> Hosts] /\ {u} \in SUBSET Uuids
    BY DEF Put, EmptyMap
  <2>. QED BY <2>1 DEF HostMaps, MapsOf
<1>3. \E kinds \in SUBSET Kinds, patch \in MerossConfig : WorkDone(o, kinds, patch)
  <2>1. CASE \E creds \in Creds : LoginAnswered(o, creds)
    BY <1>1, <2>1 DEF LoginAnswered
  <2>2. CASE \E list \in Lists : ListAnswered(o, list)
    BY <1>1, <2>2 DEF ListAnswered
  <2>3. CASE \E u \in Uuids, host \in Hosts : HostFound(o, u, host)
    BY <1>1, <1>2, <2>3 DEF HostFound
  <2>4. CASE \E hosts \in HostMaps : HostsScanned(o, hosts)
    BY <1>1, <2>4 DEF HostsScanned
  <2>. QED BY <2>1, <2>2, <2>3, <2>4
<1>. QED BY <1>3, WorkDoneInv

\* An update that stops without writing: refused, failed or killed.
LEMMA DropInv ==
  ASSUME StoreInv, NEW o \in Ops, ops' = Drop(ops, o),
         UNCHANGED <<file, readable, committed>>,
         kills' \in 0..MaxKills, raced' \in BOOLEAN,
         ~raced' => ~raced /\ o \notin Writers
  PROVE  StoreInv'
<1>1. TypeOK'
  BY OpsType DEF StoreInv, TypeOK
<1>2. /\ DOMAIN ops' = DOMAIN ops \ {o}
      /\ \A p \in DOMAIN ops' : ops'[p] = ops[p]
  BY DEF Drop
<1>3. CopiesCurrent'
  <2>. SUFFICES ASSUME ~raced'
                PROVE  /\ file' = committed'
                       /\ \A p \in Holders' : ops'[p].cfg = committed'
                       /\ Writers' = {} => readable'
                       /\ \A p \in Writers' : ops'[p].clash => Writers' # {p}
    BY DEF CopiesCurrent
  <2>1. CopiesCurrent /\ ~raced /\ o \notin Writers
    BY DEF StoreInv
  <2>2. Writers' = Writers
    BY <1>2, <2>1 DEF Writers
  <2>3. \A p \in Holders' : p \in Holders /\ ops'[p].cfg = ops[p].cfg
    BY <1>2 DEF Holders
  <2>4. \A p \in Writers' : ops'[p] = ops[p]
    BY <1>2 DEF Writers
  <2>. QED BY <2>1, <2>2, <2>3, <2>4 DEF CopiesCurrent
<1>. QED BY <1>1, <1>3 DEF StoreInv

\* Failing and being killed.
LEMMA StopInv ==
  ASSUME StoreInv, NEW o \in Ops, WorkFailed(o) \/ Kill(o)
  PROVE  StoreInv'
<1>0. kills \in 0..MaxKills /\ raced \in BOOLEAN
  BY DEF StoreInv, TypeOK
<1>1. CASE WorkFailed(o)
  <2>1. ops' = Drop(ops, o) /\ UNCHANGED <<file, readable, committed>> /\ o \notin Writers
    BY <1>1 DEF WorkFailed, Ends, Writers
  <2>2. raced' = raced /\ kills' = kills
    BY <1>1 DEF WorkFailed, Ends
  <2>. QED BY <1>0, <2>1, <2>2, DropInv
<1>2. CASE Kill(o)
  <2>1. ops' = Drop(ops, o) /\ UNCHANGED <<file, readable, committed>>
    BY <1>2 DEF Kill
  <2>2. kills' \in 0..MaxKills
    BY <1>0, <1>2, StoreAssumption DEF Kill
  <2>3. raced' \in BOOLEAN /\ (~raced' => ~raced /\ o \notin Writers)
    BY <1>2 DEF Kill
  <2>. QED BY <2>1, <2>2, <2>3, DropInv
<1>. QED BY <1>1, <1>2

\* An update that reads gets the current file, or the run has raced.
LEMMA ReadConfigInv ==
  ASSUME StoreInv, NEW o \in Ops, ReadConfig(o)
  PROVE  StoreInv'
<1>. DEFINE cfg == LoadMerossConfig
            pc == IF ops[o].kind \in {"refresh", "discoverCli"} THEN "work" ELSE "write"
            op == [ops[o] EXCEPT !.cfg = cfg, !.pc = pc]
<1>1. /\ o \in DOMAIN ops /\ ops[o].pc = "read"
      /\ ops' = Drop(ops, o) \/ ops' = Put(ops, o, op)
      /\ UNCHANGED <<file, readable, kills, committed>>
  BY DEF ReadConfig
<1>2. raced' \in BOOLEAN /\ (~raced' => ~raced /\ readable)
  BY DEF ReadConfig
<1>3. o \notin Writers /\ kills \in 0..MaxKills
  BY <1>1 DEF Writers, StoreInv, TypeOK
<1>4. CASE ops' = Drop(ops, o)
  <2>1. kills' \in 0..MaxKills
    BY <1>1, <1>3
  <2>. QED BY <1>1, <1>2, <1>3, <1>4, <2>1, DropInv
<1>5. CASE ops' = Put(ops, o, op)
  <2>1. ops[o] \in Op /\ cfg \in MerossConfig
    BY <1>1, LoadType DEF StoreInv, TypeOK, IsMap
  <2>2. op \in Op /\ op.pc = pc /\ op.cfg = cfg
    BY <2>1 DEF Op
  <2>3. readable => cfg = file
    BY DEF LoadMerossConfig
  <2>. HIDE DEF op, cfg
  <2>4. /\ DOMAIN ops' = DOMAIN ops /\ ops'[o] = op
        /\ \A p \in DOMAIN ops : p # o => ops'[p] = ops[p]
    BY <1>1, <1>5 DEF Put
  <2>5. TypeOK'
    BY <1>1, <1>2, <1>5, <2>2, OpsType DEF StoreInv, TypeOK
  <2>6. CopiesCurrent'
    <3>. SUFFICES ASSUME ~raced'
                  PROVE  /\ file' = committed'
                         /\ \A p \in Holders' : ops'[p].cfg = committed'
                         /\ Writers' = {} => readable'
                         /\ \A p \in Writers' : ops'[p].clash => Writers' # {p}
      BY DEF CopiesCurrent
    <3>1. CopiesCurrent /\ ~raced /\ readable
      BY <1>2 DEF StoreInv
    <3>2. Writers' = Writers
      BY <1>1, <2>2, <2>4 DEF Writers
    <3>3. \A p \in Writers' : ops'[p] = ops[p]
      BY <1>3, <2>4, <3>2 DEF Writers
    <3>4. \A p \in Holders' : p # o => p \in Holders /\ ops'[p].cfg = ops[p].cfg
      BY <2>4 DEF Holders
    <3>5. ops'[o].cfg = committed
      BY <2>2, <2>3, <2>4, <3>1 DEF CopiesCurrent
    <3>. QED BY <1>1, <3>1, <3>2, <3>3, <3>4, <3>5 DEF CopiesCurrent
  <2>. QED BY <2>5, <2>6 DEF StoreInv
<1>. QED BY <1>1, <1>4, <1>5

\* A write that starts beside another one makes both clash.
LEMMA BeginWriteInv ==
  ASSUME StoreInv, NEW o \in Ops, BeginWrite(o)
  PROVE  StoreInv'
<1>. DEFINE mine == [ops[o] EXCEPT !.pc = "writing", !.clash = (Writers # {})]
            rival(p) == [ops[p] EXCEPT !.clash = TRUE]
<1>1. /\ o \in DOMAIN ops /\ ops[o].pc = "write"
      /\ UNCHANGED <<file, kills, committed, raced>>
      /\ ops' = [p \in DOMAIN ops |-> IF p = o THEN mine
                                     ELSE IF p \in Writers THEN rival(p) ELSE ops[p]]
  BY DEF BeginWrite
<1>2. readable' \in BOOLEAN
  BY DEF BeginWrite
<1>3. \A p \in DOMAIN ops : ops[p] \in Op
  BY DEF StoreInv, TypeOK, IsMap
<1>4. /\ mine \in Op /\ mine.pc = "writing" /\ mine.cfg = ops[o].cfg
      /\ mine.clash => Writers # {}
  BY <1>1, <1>3 DEF Op
<1>5. \A p \in DOMAIN ops : /\ rival(p) \in Op /\ rival(p).pc = ops[p].pc
                            /\ rival(p).cfg = ops[p].cfg /\ rival(p).kind = ops[p].kind
  BY <1>3 DEF Op
<1>. HIDE DEF mine, rival
<1>6. /\ DOMAIN ops' = DOMAIN ops /\ ops'[o] = mine
      /\ \A p \in DOMAIN ops : p # o =>
           /\ ops'[p].pc = ops[p].pc /\ ops'[p].cfg = ops[p].cfg /\ ops'[p].kind = ops[p].kind
           /\ ops'[p] \in Op
  BY <1>1, <1>3, <1>5
<1>7. TypeOK'
  <2>1. IsMap(ops', Ops, Op)
    BY <1>1, <1>4, <1>6 DEF StoreInv, TypeOK, IsMap
  <2>. QED BY <1>1, <1>2, <2>1 DEF StoreInv, TypeOK
<1>8. Writers' = Writers \cup {o} /\ o \notin Writers /\ Holders' = Holders /\ o \in Holders
  BY <1>1, <1>4, <1>6 DEF Writers, Holders
<1>9. CopiesCurrent'
  <2>. SUFFICES ASSUME ~raced'
                PROVE  /\ file' = committed'
                       /\ \A p \in Holders' : ops'[p].cfg = committed'
                       /\ Writers' = {} => readable'
                       /\ \A p \in Writers' : ops'[p].clash => Writers' # {p}
    BY DEF CopiesCurrent
  <2>1. CopiesCurrent /\ ~raced
    BY <1>1 DEF StoreInv
  <2>2. \A p \in Holders' : ops'[p].cfg = committed'
    BY <1>1, <1>4, <1>6, <1>8, <2>1 DEF CopiesCurrent, Holders
  <2>3. \A p \in Writers' : ops'[p].clash => Writers' # {p}
    BY <1>4, <1>6, <1>8
  <2>. QED BY <1>1, <1>8, <2>1, <2>2, <2>3 DEF CopiesCurrent
<1>. QED BY <1>7, <1>9 DEF StoreInv

\* A write that ends while nobody else has a copy adds exactly its patch.
LEMMA EndWriteInv ==
  ASSUME StoreInv, NEW o \in Ops, EndWrite(o)
  PROVE  StoreInv'
<1>1. /\ o \in DOMAIN ops /\ ops[o].pc = "writing"
      /\ file' = Patched(ops[o].cfg, ops[o].patch)
      /\ ops' = Drop(ops, o)
      /\ committed' = Patched(committed, ops[o].patch)
      /\ kills' = kills
  BY DEF EndWrite, Written
<1>2. readable' \in BOOLEAN /\ (~ops[o].clash => readable' = TRUE)
  BY DEF EndWrite
<1>3. raced' \in BOOLEAN /\ (~raced' => ~raced /\ Holders = {o})
  BY DEF EndWrite
<1>4. ops[o] \in Op /\ committed \in MerossConfig
  BY <1>1 DEF StoreInv, TypeOK, IsMap
<1>5. ops[o].cfg \in MerossConfig /\ ops[o].patch \in MerossConfig
  BY <1>4 DEF Op
<1>6. file' \in MerossConfig /\ committed' \in MerossConfig
  BY <1>1, <1>4, <1>5, PatchedType
<1>7. TypeOK'
  BY <1>1, <1>2, <1>3, <1>6, OpsType DEF StoreInv, TypeOK
<1>8. CopiesCurrent'
  <2>. SUFFICES ASSUME ~raced'
                PROVE  /\ file' = committed'
                       /\ \A p \in Holders' : ops'[p].cfg = committed'
                       /\ Writers' = {} => readable'
                       /\ \A p \in Writers' : ops'[p].clash => Writers' # {p}
    BY DEF CopiesCurrent
  <2>1. CopiesCurrent /\ ~raced /\ Holders = {o}
    BY <1>3 DEF StoreInv
  <2>2. DOMAIN ops' = DOMAIN ops \ {o} /\ \A p \in DOMAIN ops' : ops'[p] = ops[p]
    BY <1>1 DEF Drop
  <2>3. Holders' = {}
    BY <2>1, <2>2 DEF Holders
  <2>4. Writers' = {} /\ Writers = {o}
    BY <1>1, <2>1, <2>3 DEF Holders, Writers
  <2>5. ops[o].cfg = committed
    BY <2>1 DEF CopiesCurrent
  <2>6. ~ops[o].clash
    BY <2>1, <2>4 DEF CopiesCurrent
  <2>7. readable'
    BY <1>2, <2>6
  <2>. QED BY <1>1, <2>3, <2>4, <2>5, <2>7
<1>. QED BY <1>7, <1>8 DEF StoreInv

\* Every step keeps the invariant.
LEMMA NextInv ==
  ASSUME StoreInv, [Next]_vars
  PROVE  StoreInv'
<1>1. CASE UNCHANGED vars
  BY <1>1 DEF StoreInv, TypeOK, CopiesCurrent, Holders, Writers, vars
<1>2. CASE Next
  BY <1>2, StartInv, ReadConfigInv, AnswerInv, StopInv, BeginWriteInv, EndWriteInv DEF Next
<1>. QED BY <1>1, <1>2

\* Type correctness: whatever is killed in whatever step, and whichever of the
\* updates overlap, copies and file are configs and every update is in a step of its kind.
THEOREM StoreTypeCorrect == Spec => []TypeOK
<1>1. StoreInv => TypeOK
  BY DEF StoreInv
<1>. QED BY <1>1, InitInv, NextInv, PTL DEF Spec

\* Updates of the config file that do not overlap lose nothing, for any number of
\* handlers and commands and any mixture of them.
THEOREM SerialUpdatesAlwaysKept == Spec => []SerialUpdatesKept
<1>1. StoreInv => SerialUpdatesKept
  BY DEF StoreInv, CopiesCurrent, SerialUpdatesKept
<1>. QED BY <1>1, InitInv, NextInv, PTL DEF Spec

=============================================================================
