----------------------------- MODULE TuiSession -----------------------------
(***************************************************************************)
(* The terminal UI of packages/cli/src/tui.tsx: what its asynchronous      *)
(* functions do to React state and to the config file.  Each of them works *)
(* on the config of the render it was made in, its closure.                *)
(***************************************************************************)
EXTENDS Naturals, Maps

CONSTANTS
  Slots,    \* bound: functions under way
  Uuids, None

\* Old: what the file had; New: what the cloud or a scan answers now.
Versions == {None, "old", "new"}
Config == [cloud : BOOLEAN, devices : Versions, hosts : Versions]
Empty == [cloud |-> FALSE, devices |-> None, hosts |-> None]

VARIABLES
  file,        \* the config file
  phase, cfg, error, devices, hosts,
  cidr,        \* whether the range to scan is set
  selectedUuid, expandedUuid,
  diag,        \* the device whose diagnostics were fetched
  fns,         \* slot -> a function that waits
  spoiled        \* history: a function failed, or another than hydrate changed the config

screen == <<devices, hosts, cidr, selectedUuid, expandedUuid, diag>>
vars == <<file, phase, cfg, error, screen, fns, spoiled>>

Fn(kind, at, closure) == [kind |-> kind, at |-> at, cfg |-> closure]
Free == Slots \ DOMAIN fns

\* useEffect [phase, hydrate]: every setCfg makes a new object, and so a new hydrate;
\* twice: a setCidr after it made one more, if the two were not batched.
HydrateStarts(fs, nextPhase, nextCfg, twice) ==
  IF nextPhase = "hydrating"
  THEN \E o1, o2 \in Slots \ DOMAIN fs :
         /\ o1 = o2 \/ twice
         /\ fns' = PutAll(fs, {o1, o2}, Fn("hydrate", "list", nextCfg))
  ELSE fns' = fs

SetCfg(next, fs) ==
  /\ cfg' = next
  /\ HydrateStarts(fs, phase, next, FALSE)
  /\ UNCHANGED phase

\* useEffect [flat, selectedUuid]: the selection stays within the list.
Select(list) == selectedUuid' \in IF list = None THEN {None} ELSE IF selectedUuid # None THEN {selectedUuid} ELSE Uuids

-----------------------------------------------------------------------------
(* load; loadMerossConfig answers {} where it could fail, so its catch      *)
(* clause is never used.                                                   *)

Load ==
  /\ phase = "boot"
  /\ cfg' = file /\ devices' = file.devices /\ hosts' = file.hosts
  /\ phase' = IF file.cloud THEN "hydrating" ELSE "login"
  /\ HydrateStarts(fns, phase', file, FALSE)
  /\ Select(file.devices)
  /\ UNCHANGED <<file, error, cidr, expandedUuid, diag, spoiled>>

-----------------------------------------------------------------------------
(* doLogin: Enter on "Fetch key", see TuiLogin; not disabled while busy.   *)

DoLogin ==
  /\ phase = "login"
  /\ \E o \in Free : fns' = Put(fns, o, Fn("login", "cloud", cfg))
  /\ error' = FALSE
  /\ UNCHANGED <<file, phase, cfg, screen, spoiled>>

LoginDone(o) ==
  /\ o \in DOMAIN fns /\ fns[o].kind = "login"
  /\ file' = [fns[o].cfg EXCEPT !.cloud = TRUE]
  /\ cfg' = file'
  /\ phase' = "hydrating"
  /\ HydrateStarts(Drop(fns, o), "hydrating", file', FALSE)
  /\ UNCHANGED <<error, screen, spoiled>>

-----------------------------------------------------------------------------
(* refreshDevices and discoverHosts, alone ('r', 's') or both (hydrate)    *)

Key(kind, at) ==
  /\ phase = "inventory"
  /\ \E o \in Free : fns' = Put(fns, o, Fn(kind, at, cfg))
  /\ error' = FALSE /\ spoiled' = TRUE
  /\ UNCHANGED <<file, phase, cfg, screen>>

PressRefresh == Key("refresh", "list")
PressScan == Key("scan", "scan")

At(o, at) == o \in DOMAIN fns /\ fns[o].at = at

\* merossCloudListDevices answered: the closure's config with the list is written;
\* then setCfg, setDevices.
RefreshDone(o) ==
  /\ At(o, "list") /\ fns[o].cfg.cloud
  /\ LET next == [fns[o].cfg EXCEPT !.devices = "new"]
         rest == IF fns[o].kind = "hydrate" THEN Put(fns, o, [fns[o] EXCEPT !.at = "scan"]) ELSE Drop(fns, o)
     IN /\ file' = next
        /\ SetCfg(next, rest)
  /\ devices' = "new"
  /\ Select("new")
  /\ UNCHANGED <<error, hosts, cidr, expandedUuid, diag, spoiled>>

\* A fault: only the hosts are written.
M_Scanned(closure) == [Empty EXCEPT !.hosts = "new"]

Scanned(closure) == [closure EXCEPT !.hosts = "new"]

\* The pool of scan workers is done.  The closure is that of the render before
\* refreshDevices stored the list.  There may be a render between setCfg and the
\* setPhase after it, and then hydrate starts once more, or twice more where this scan
\* is the one that sets the range.
ScanDone(o) ==
  /\ At(o, "scan")
  /\ LET next == Scanned(fns[o].cfg)
     IN /\ file' = next
        /\ cfg' = next
        /\ phase' = IF fns[o].kind = "hydrate" THEN "inventory" ELSE phase
        /\ \E rendered \in {phase, phase'} : HydrateStarts(Drop(fns, o), rendered, next, ~cidr)
  /\ hosts' = "new" /\ cidr' = TRUE
  /\ UNCHANGED <<error, devices, selectedUuid, expandedUuid, diag, spoiled>>

\* A fault: hydrate's error path leaves the phase.
M_FnFails(o) ==
  /\ o \in DOMAIN fns
  /\ error' = TRUE
  /\ fns' = Drop(fns, o)
  /\ UNCHANGED <<file, phase, cfg, screen, spoiled>>

\* The cloud, the LAN or the file fails: the catch clause of the function.
FnFails(o) ==
  /\ o \in DOMAIN fns
  /\ error' = TRUE
  /\ phase' = IF fns[o].kind = "hydrate" THEN "inventory" ELSE phase
  /\ fns' = Drop(fns, o)
  /\ spoiled' = TRUE
  /\ UNCHANGED <<file, cfg, screen>>

-----------------------------------------------------------------------------
(* The inventory *)

\* j, k and the arrows.
MoveSelection ==
  /\ phase = "inventory" /\ devices # None
  /\ selectedUuid' \in Uuids
  /\ UNCHANGED <<file, phase, cfg, error, devices, hosts, cidr, expandedUuid, diag, fns, spoiled>>

Expand ==
  /\ phase = "inventory" /\ selectedUuid # None
  /\ expandedUuid' = IF expandedUuid = selectedUuid THEN None ELSE selectedUuid
  /\ UNCHANGED <<file, phase, cfg, error, devices, hosts, cidr, selectedUuid, diag, fns, spoiled>>

\* doToggle and doDiagnostics need an address.
Controllable == phase = "inventory" /\ selectedUuid # None /\ hosts # None

DoToggle ==
  /\ Controllable
  /\ error' \in BOOLEAN
  /\ UNCHANGED <<file, phase, cfg, screen, fns, spoiled>>

DoDiagnostics ==
  /\ Controllable
  /\ \E o \in Free : fns' = Put(fns, o, [kind |-> "diagnostics", at |-> "device", uuid |-> selectedUuid])
  /\ error' = FALSE
  /\ UNCHANGED <<file, phase, cfg, screen, spoiled>>

DiagnosticsDone(o) ==
  /\ At(o, "device")
  /\ diag' = fns[o].uuid
  /\ phase' = "diagnostics"
  /\ fns' = Drop(fns, o)
  /\ UNCHANGED <<file, cfg, error, devices, hosts, cidr, selectedUuid, expandedUuid, spoiled>>

\* A fault: the data is dropped, the phase stays.
M_Back ==
  /\ phase = "diagnostics"
  /\ diag' = None
  /\ UNCHANGED <<file, phase, cfg, error, devices, hosts, cidr, selectedUuid, expandedUuid, fns,
                 spoiled>>

\* q or Esc
Back ==
  /\ phase = "diagnostics"
  /\ phase' = "inventory" /\ diag' = None
  /\ UNCHANGED <<file, cfg, error, devices, hosts, cidr, selectedUuid, expandedUuid, fns, spoiled>>

\* What was under way ends with the process.
ProcessEnds ==
  /\ phase' = "exited"
  /\ fns' = EmptyMap
  /\ UNCHANGED <<file, cfg, error, screen, spoiled>>

\* q or Esc elsewhere.
Quit == phase \notin {"diagnostics", "exited"} /\ ProcessEnds

\* doToggle or doDiagnostics for a device without an address: they throw before their
\* try clause, nobody handles the rejection, and the runtime ends the process (where it
\* lets that pass, nothing happens).
NoAddress == phase = "inventory" /\ ProcessEnds

Exited == phase = "exited" /\ UNCHANGED vars

Init ==
  /\ file \in [cloud : BOOLEAN, devices : {None, "old"}, hosts : {None, "old"}]
  /\ phase = "boot" /\ cfg = Empty /\ error = FALSE /\ devices = None /\ hosts = None
  /\ cidr = FALSE
  /\ selectedUuid = None /\ expandedUuid = None /\ diag = None
  /\ fns = EmptyMap /\ spoiled = FALSE

Proceed(o) == LoginDone(o) \/ RefreshDone(o) \/ ScanDone(o) \/ DiagnosticsDone(o) \/ FnFails(o)

Next ==
  \/ Load \/ DoLogin \/ PressRefresh \/ PressScan
  \/ MoveSelection \/ Expand \/ DoToggle \/ DoDiagnostics \/ NoAddress \/ Back \/ Quit
  \/ Exited
  \/ \E o \in Slots : Proceed(o)

\* Requests, scans and file accesses end.
Fairness == \A o \in Slots : WF_vars(Proceed(o))

Spec == Init /\ [][Next]_vars /\ Fairness

-----------------------------------------------------------------------------
(* Properties *)

\* Whatever functions overlap with whatever closures, the credentials in the file
\* are not lost.
CredentialsKept == [][file.cloud => file'.cloud]_vars

\* Although every change of the config starts hydrate again, the inventory is
\* reached: no hydration goes on for ever.
HydrationEnds == phase = "hydrating" ~> phase # "hydrating"

\* The diagnostics screen always has the data it was opened for.
DiagnosticsHaveData == phase = "diagnostics" => diag # None

\* "Building inventory: Devices: refresh from cloud, LAN: scan for IPs": a hydration
\* that reports no error leaves the new device list in the config file.
InventoryStored ==
  phase = "inventory" /\ ~spoiled /\ fns = EmptyMap => file.devices = "new" /\ file.hosts = "new"
=============================================================================
