---------------------------- MODULE SessionsProofs ----------------------------
(* Theorems about the way into the program, for every set of devices, of     *)
(* passwords and codes and every number of overlapping functions.            *)
EXTENDS MCSessions, Sequences, TLAPS

-----------------------------------------------------------------------------
(* The browser *)

\* The form is locked while a login is under way, so that the account it names is the one
\* the server has stored when it answers ok, and the one the devices view is given.
WebInv ==
  /\ password = "" \/ password \in Passwords
  /\ request # "none" => view = "auth" /\ phase = "submitting" /\ password \in Passwords
  /\ request = "ok" => config = password \/ replaced
  /\ Web!DevicesBacked
  /\ Web!ErrorIsCurrent

\* Page loads, logins and what becomes of them keep the invariant.
LEMMA WebStep ==
  ASSUME WebInv, Web!Next
  PROVE  WebInv'
<1>. USE DEF WebInv, Web!DevicesBacked, Web!ErrorIsCurrent, Web!auth
<1>1. CASE Web!BootDone
  BY <1>1 DEF Web!BootDone, Web!AuthView
<1>2. ASSUME NEW value,
             (Web!SetPassword(value) /\ value \in Passwords) \/ Web!SetTotp(value) \/ Web!SetRegion(value)
      PROVE  WebInv'
  BY <1>2 DEF Web!SetPassword, Web!SetTotp, Web!SetRegion, Web!Editable
<1>3. CASE Web!Submit
  BY <1>3 DEF Web!Submit, Web!Editable, Web!CanSubmit
<1>4. CASE Web!Reload
  BY <1>4 DEF Web!Reload
<1>5. CASE Web!Logout
  BY <1>5 DEF Web!Logout, Web!AuthView
<1>6. CASE Web!ServerSignsIn
  BY <1>6 DEF Web!ServerSignsIn
<1>7. CASE Web!ServerRefuses
  BY <1>7 DEF Web!ServerRefuses
<1>8. CASE Web!LoginDone
  BY <1>8, NoneAssumption DEF Web!LoginDone
<1>9. CASE Web!LoginError
  BY <1>9 DEF Web!LoginError
<1>. QED BY <1>1, <1>2, <1>3, <1>4, <1>5, <1>6, <1>7, <1>8, <1>9
         DEF Web!Next, Web!User, Web!Server, Web!Answer

-----------------------------------------------------------------------------
(* The functions of the terminal UI *)

\* A function that waits: a login with any config as its closure, a refresh or a scan
\* with one that has credentials, or diagnostics of a device.
Function ==
  [kind : {"login"}, at : {"cloud"}, cfg : Tui!Config]
    \cup [kind : {"hydrate", "refresh", "scan"}, at : {"list", "scan"},
          cfg : {c \in Tui!Config : c.cloud}]
    \cup [kind : {"diagnostics"}, at : {"device"}, uuid : Uuids]

\* Past the login screen the config has credentials, and no function but a login is
\* under way without them; nothing is under way before the config was loaded.
TuiInv ==
  /\ file \in Tui!Config /\ cfg \in Tui!Config
  /\ selectedUuid \in Uuids \cup {None}
  /\ \A o \in DOMAIN fns : fns[o] \in Function
  /\ (\E o \in DOMAIN fns : fns[o].kind # "login") => cfg.cloud
  /\ tuiPhase \in {"hydrating", "inventory", "diagnostics"} => cfg.cloud
  /\ tuiPhase = "boot" => DOMAIN fns = {}
  /\ tuiPhase = "diagnostics" => diag # None

\* Starting hydrate adds at most a function whose closure is the new config.
LEMMA HydrateFns ==
  ASSUME NEW fs, NEW p, NEW c \in Tui!Config, NEW twice, Tui!HydrateStarts(fs, p, c, twice),
         \A o \in DOMAIN fs : fs[o] \in Function, p = "hydrating" => c.cloud
  PROVE  \A o \in DOMAIN fns' :
           /\ fns'[o] \in Function
           /\ fns'[o].kind # "login" => p = "hydrating" \/ (o \in DOMAIN fs /\ fs[o] = fns'[o])
<1>1. CASE p # "hydrating"
  BY <1>1 DEF Tui!HydrateStarts
<1>2. CASE p = "hydrating"
  <2>1. PICK S : fns' = Tui!PutAll(fs, S, Tui!Fn("hydrate", "list", c))
    BY <1>2 DEF Tui!HydrateStarts
  <2>2. Tui!Fn("hydrate", "list", c) \in Function
    BY <1>2 DEF Tui!Fn, Function
  <2>. QED BY <1>2, <2>1, <2>2 DEF Tui!PutAll
<1>. QED BY <1>1, <1>2

\* Giving a function to a free slot.
LEMMA StartedFn ==
  ASSUME NEW o, NEW f \in Function, fns' = Tui!Put(fns, o, f),
         \A x \in DOMAIN fns : fns[x] \in Function
  PROVE  \A x \in DOMAIN fns' : /\ fns'[x] \in Function
                                /\ fns'[x] = f \/ (x \in DOMAIN fns /\ fns'[x] = fns[x])
BY DEF Tui!Put

\* What is left when a function ends.
LEMMA DroppedFn ==
  ASSUME NEW o, \A x \in DOMAIN fns : fns[x] \in Function
  PROVE  \A x \in DOMAIN Tui!Drop(fns, o) :
           x \in DOMAIN fns /\ Tui!Drop(fns, o)[x] = fns[x] /\ Tui!Drop(fns, o)[x] \in Function
BY DEF Tui!Drop

\* The config that the closure of a refresh or a scan makes.
LEMMA ClosureConfig ==
  ASSUME NEW f \in Function
  PROVE  /\ f.at \in {"list", "scan"} => f.cfg \in Tui!Config /\ f.cfg.cloud
         /\ f.at \in {"list", "scan"} <=> f.kind \in {"hydrate", "refresh", "scan"}
         /\ f.kind = "login" => f.cfg \in Tui!Config
         /\ f.at = "device" <=> f.kind = "diagnostics"
         /\ f.at = "device" => f.uuid \in Uuids
         /\ f.kind = "hydrate" => [f EXCEPT !.at = "scan"] \in Function
         /\ f.kind = "hydrate" => [f EXCEPT !.at = "scan"].kind = "hydrate"
BY DEF Function

\* A config keeps its other fields.
LEMMA ConfigFields ==
  ASSUME NEW c \in Tui!Config
  PROVE  /\ [c EXCEPT !.cloud = TRUE] \in Tui!Config /\ [c EXCEPT !.cloud = TRUE].cloud = TRUE
         /\ [c EXCEPT !.devices = "new"] \in Tui!Config /\ [c EXCEPT !.devices = "new"].cloud = c.cloud
         /\ [c EXCEPT !.hosts = "new"] \in Tui!Config /\ [c EXCEPT !.hosts = "new"].cloud = c.cloud
BY DEF Tui!Config, Tui!Versions

\* The selection stays a device or nothing.
LEMMA SelectType ==
  ASSUME NEW list, selectedUuid \in Uuids \cup {None}, Tui!Select(list)
  PROVE  selectedUuid' \in Uuids \cup {None}
BY DEF Tui!Select

\* The config file is read, and hydrate starts on its credentials.
LEMMA LoadStep ==
  ASSUME TuiInv, Tui!Load
  PROVE  TuiInv' /\ file' = file
<1>1. /\ tuiPhase = "boot" /\ cfg' = file /\ file' = file /\ diag' = diag
      /\ tuiPhase' = IF file.cloud THEN "hydrating" ELSE "login"
      /\ Tui!HydrateStarts(fns, tuiPhase', file, FALSE) /\ Tui!Select(file.devices)
  BY DEF Tui!Load
<1>2. DOMAIN fns = {} /\ file \in Tui!Config /\ selectedUuid \in Uuids \cup {None}
  BY <1>1 DEF TuiInv
<1>. DEFINE p == tuiPhase'
<1>3. p = "hydrating" => file.cloud
  BY <1>1
<1>4. \A o \in DOMAIN fns' : fns'[o] \in Function /\ (fns'[o].kind # "login" => p = "hydrating")
  <2>. HIDE DEF p
  <2>1. Tui!HydrateStarts(fns, p, file, FALSE)
    BY <1>1 DEF p
  <2>. QED BY <1>2, <1>3, <2>1, HydrateFns
<1>5. selectedUuid' \in Uuids \cup {None}
  BY <1>1, <1>2, SelectType
<1>. QED BY <1>1, <1>2, <1>3, <1>4, <1>5 DEF TuiInv

\* Keys that start a function.
LEMMA KeyedFn ==
  ASSUME TuiInv, Tui!DoLogin \/ Tui!PressRefresh \/ Tui!PressScan \/ Tui!DoDiagnostics
  PROVE  TuiInv' /\ file' = file
<1>0. cfg \in Tui!Config /\ \A x \in DOMAIN fns : fns[x] \in Function
  BY DEF TuiInv
<1>1. UNCHANGED <<file, tuiPhase, cfg, devices, hosts, selectedUuid, expandedUuid, diag>>
  BY DEF Tui!DoLogin, Tui!PressRefresh, Tui!PressScan, Tui!DoDiagnostics, Tui!Key, Tui!screen
<1>2. /\ tuiPhase # "boot"
      /\ \E o, f : /\ fns' = Tui!Put(fns, o, f) /\ f \in Function
                   /\ f.kind # "login" => cfg.cloud
  <2>1. CASE Tui!DoLogin
    <3>1. tuiPhase # "boot" /\ \E o : fns' = Tui!Put(fns, o, Tui!Fn("login", "cloud", cfg))
      BY <2>1 DEF Tui!DoLogin
    <3>2. /\ Tui!Fn("login", "cloud", cfg) \in Function
          /\ Tui!Fn("login", "cloud", cfg).kind = "login"
      BY <1>0 DEF Function, Tui!Fn
    <3>. QED BY <3>1, <3>2
  <2>2. ASSUME NEW kind \in {"refresh", "scan"}, NEW at \in {"list", "scan"}, Tui!Key(kind, at)
        PROVE  /\ tuiPhase # "boot"
               /\ \E o, f : /\ fns' = Tui!Put(fns, o, f) /\ f \in Function
                            /\ f.kind # "login" => cfg.cloud
    <3>1. tuiPhase = "inventory" /\ \E o : fns' = Tui!Put(fns, o, Tui!Fn(kind, at, cfg))
      BY <2>2 DEF Tui!Key
    <3>2. cfg.cloud
      BY <3>1 DEF TuiInv
    <3>3. Tui!Fn(kind, at, cfg) \in Function
      BY <1>0, <3>2 DEF Function, Tui!Fn
    <3>. QED BY <3>1, <3>2, <3>3
  <2>3. CASE Tui!DoDiagnostics
    <3>. DEFINE f == [kind |-> "diagnostics", at |-> "device", uuid |-> selectedUuid]
    <3>1. /\ tuiPhase = "inventory" /\ selectedUuid # None /\ \E o : fns' = Tui!Put(fns, o, f)
      BY <2>3 DEF Tui!DoDiagnostics, Tui!Controllable
    <3>2. f \in Function /\ cfg.cloud
      BY <3>1 DEF TuiInv, Function
    <3>. QED BY <3>1, <3>2
  <2>. QED BY <2>1, <2>2, <2>3 DEF Tui!PressRefresh, Tui!PressScan
<1>3. PICK o, f : /\ fns' = Tui!Put(fns, o, f) /\ f \in Function
                  /\ f.kind # "login" => cfg.cloud
  BY <1>2
<1>4. \A x \in DOMAIN fns' : /\ fns'[x] \in Function
                             /\ fns'[x] = f \/ (x \in DOMAIN fns /\ fns'[x] = fns[x])
  BY <1>0, <1>3, StartedFn
<1>. QED BY <1>1, <1>2, <1>3, <1>4 DEF TuiInv

\* A login stores credentials on whatever config it began with.
LEMMA LoginDoneStep ==
  ASSUME TuiInv, NEW o, Tui!LoginDone(o)
  PROVE  TuiInv' /\ file'.cloud
<1>. DEFINE c == [fns[o].cfg EXCEPT !.cloud = TRUE]
            fs == Tui!Drop(fns, o)
<1>1. /\ o \in DOMAIN fns /\ fns[o].kind = "login" /\ file' = c /\ cfg' = c
      /\ tuiPhase' = "hydrating" /\ Tui!HydrateStarts(fs, "hydrating", file', FALSE)
      /\ UNCHANGED <<selectedUuid, diag>>
  BY DEF Tui!LoginDone, Tui!screen
<1>2. fns[o].cfg \in Tui!Config
  BY <1>1, ClosureConfig DEF TuiInv
<1>3. c \in Tui!Config /\ c.cloud = TRUE
  BY <1>2, ConfigFields
<1>. HIDE DEF c
<1>4. \A x \in DOMAIN fs : fs[x] \in Function
  BY DroppedFn DEF TuiInv
<1>. HIDE DEF fs
<1>5. Tui!HydrateStarts(fs, "hydrating", c, FALSE)
  BY <1>1
<1>6. \A x \in DOMAIN fns' : fns'[x] \in Function
  BY <1>3, <1>4, <1>5, HydrateFns
<1>. QED BY <1>1, <1>3, <1>6 DEF TuiInv

\* A refresh or a scan writes the config of its closure, which has credentials, with
\* the new list or the new addresses; as part of hydrate it goes on or starts again.
LEMMA InventoryFnStep ==
  ASSUME TuiInv, NEW o, Tui!RefreshDone(o) \/ Tui!ScanDone(o)
  PROVE  TuiInv' /\ file'.cloud
<1>0. \A x \in DOMAIN fns : fns[x] \in Function
  BY DEF TuiInv
<1>1. o \in DOMAIN fns /\ fns[o].at \in {"list", "scan"}
  BY DEF Tui!RefreshDone, Tui!ScanDone, Tui!At
<1>2. fns[o].cfg \in Tui!Config /\ fns[o].cfg.cloud
  BY <1>0, <1>1, ClosureConfig
<1>3. cfg.cloud
  <2>1. fns[o].kind # "login"
    BY <1>0, <1>1, ClosureConfig
  <2>. QED BY <1>1, <2>1 DEF TuiInv
<1>4. tuiPhase # "boot"
  BY <1>1 DEF TuiInv
<1>5. CASE Tui!RefreshDone(o)
  <2>. DEFINE next == [fns[o].cfg EXCEPT !.devices = "new"]
              rest == IF fns[o].kind = "hydrate" THEN Tui!Put(fns, o, [fns[o] EXCEPT !.at = "scan"])
                                                 ELSE Tui!Drop(fns, o)
  <2>1. /\ file' = next /\ cfg' = next /\ Tui!HydrateStarts(rest, tuiPhase, next, FALSE)
        /\ UNCHANGED <<tuiPhase, diag>> /\ Tui!Select("new")
    BY <1>5 DEF Tui!RefreshDone, Tui!SetCfg
  <2>2. next \in Tui!Config /\ next.cloud
    BY <1>2, ConfigFields
  <2>3. \A x \in DOMAIN rest : rest[x] \in Function
    <3>1. CASE fns[o].kind = "hydrate"
      <4>1. [fns[o] EXCEPT !.at = "scan"] \in Function
        BY <1>0, <1>1, <3>1, ClosureConfig
      <4>. QED BY <1>0, <3>1, <4>1 DEF Tui!Put
    <3>2. CASE fns[o].kind # "hydrate"
      BY <1>0, <3>2, DroppedFn
    <3>. QED BY <3>1, <3>2
  <2>. HIDE DEF next, rest
  <2>4. \A x \in DOMAIN fns' : fns'[x] \in Function
    BY <2>1, <2>2, <2>3, HydrateFns
  <2>5. selectedUuid' \in Uuids \cup {None}
    BY <2>1, SelectType DEF TuiInv
  <2>. QED BY <1>4, <2>1, <2>2, <2>4, <2>5 DEF TuiInv
<1>6. CASE Tui!ScanDone(o)
  <2>. DEFINE next == [fns[o].cfg EXCEPT !.hosts = "new"]
              rest == Tui!Drop(fns, o)
  <2>1. /\ file' = next /\ cfg' = next /\ UNCHANGED <<diag, selectedUuid>>
        /\ tuiPhase' = IF fns[o].kind = "hydrate" THEN "inventory" ELSE tuiPhase
        /\ \E rendered \in {tuiPhase, tuiPhase'} : Tui!HydrateStarts(rest, rendered, next, ~cidr)
    BY <1>6 DEF Tui!ScanDone, Tui!Scanned
  <2>2. next \in Tui!Config /\ next.cloud
    BY <1>2, ConfigFields
  <2>3. \A x \in DOMAIN rest : rest[x] \in Function
    BY <1>0, DroppedFn
  <2>. HIDE DEF next, rest
  <2>4. \A x \in DOMAIN fns' : fns'[x] \in Function
    <3>1. PICK rendered : Tui!HydrateStarts(rest, rendered, next, ~cidr)
      BY <2>1
    <3>. QED BY <3>1, <2>2, <2>3, HydrateFns
  <2>. QED BY <1>4, <2>1, <2>2, <2>4 DEF TuiInv
<1>. QED BY <1>5, <1>6

\* A function that fails leaves the file alone.
LEMMA FailedFn ==
  ASSUME TuiInv, NEW o, Tui!FnFails(o) \/ Tui!DiagnosticsDone(o)
  PROVE  TuiInv' /\ file' = file
<1>0. \A x \in DOMAIN fns : fns[x] \in Function
  BY DEF TuiInv
<1>1. /\ o \in DOMAIN fns /\ fns' = Tui!Drop(fns, o) /\ UNCHANGED <<file, cfg, selectedUuid>>
  BY DEF Tui!FnFails, Tui!DiagnosticsDone, Tui!At, Tui!screen
<1>2. \A x \in DOMAIN fns' : x \in DOMAIN fns /\ fns'[x] = fns[x]
  BY <1>0, <1>1, DroppedFn
<1>3. tuiPhase # "boot"
  BY <1>1 DEF TuiInv
<1>4. CASE Tui!FnFails(o)
  <2>1. diag' = diag /\ tuiPhase' = IF fns[o].kind = "hydrate" THEN "inventory" ELSE tuiPhase
    BY <1>4 DEF Tui!FnFails, Tui!screen
  <2>2. fns[o].kind = "hydrate" => cfg.cloud
    BY <1>1 DEF TuiInv
  <2>. QED BY <1>1, <1>2, <1>3, <2>1, <2>2 DEF TuiInv
<1>5. CASE Tui!DiagnosticsDone(o)
  <2>1. diag' = fns[o].uuid /\ tuiPhase' = "diagnostics" /\ fns[o].at = "device"
    BY <1>5 DEF Tui!DiagnosticsDone, Tui!At
  <2>2. fns[o].uuid \in Uuids /\ fns[o].kind # "login"
    BY <1>0, <1>1, <2>1, ClosureConfig
  <2>3. cfg.cloud /\ diag' # None
    BY <1>1, <2>1, <2>2, NoneAssumption DEF TuiInv
  <2>. QED BY <1>1, <1>2, <2>1, <2>3 DEF TuiInv
<1>. QED BY <1>4, <1>5

\* The other keys.
LEMMA OtherKey ==
  ASSUME TuiInv,
         \/ Tui!MoveSelection \/ Tui!Expand \/ Tui!DoToggle \/ Tui!NoAddress \/ Tui!Back
         \/ Tui!Quit \/ Tui!Exited
  PROVE  TuiInv' /\ file' = file
<1>1. CASE Tui!MoveSelection
  BY <1>1 DEF Tui!MoveSelection, TuiInv
<1>2. CASE Tui!Expand
  BY <1>2 DEF Tui!Expand, TuiInv
<1>3. CASE Tui!DoToggle
  BY <1>3 DEF Tui!DoToggle, Tui!screen, TuiInv
<1>4. CASE Tui!Back
  BY <1>4 DEF Tui!Back, TuiInv
<1>5. CASE Tui!Quit \/ Tui!NoAddress
  <2>1. DOMAIN fns' = {} /\ tuiPhase' = "exited" /\ UNCHANGED <<file, cfg, selectedUuid, diag>>
    BY <1>5 DEF Tui!Quit, Tui!NoAddress, Tui!ProcessEnds, Tui!EmptyMap, Tui!screen
  <2>. QED BY <2>1 DEF TuiInv
<1>6. CASE Tui!Exited
  BY <1>6 DEF Tui!Exited, Tui!vars, Tui!screen, TuiInv
<1>. QED BY <1>1, <1>2, <1>3, <1>4, <1>5, <1>6

\* Every step of the terminal UI keeps the invariant and the credentials in the file.
LEMMA TuiStep ==
  ASSUME TuiInv, Tui!Next
  PROVE  TuiInv' /\ (file.cloud => file'.cloud)
BY LoadStep, KeyedFn, LoginDoneStep, InventoryFnStep, FailedFn, OtherKey
   DEF Tui!Next, Tui!Proceed

-----------------------------------------------------------------------------
(* The keyboard of the login screen *)

\* The flag is a flag, and the focus is on a field in use.
KeyInv == loginUseEnv \in BOOLEAN /\ Keyboard!FocusOnUsedField

\* While the environment's values are in use the focus goes round the code and the
\* button, in either direction.
LEMMA FocusRound ==
  ASSUME loginUseEnv, loginFocus \in {"totp", "submit"}
  PROVE  Keyboard!NextFocus \in {"totp", "submit"} /\ Keyboard!PrevFocus \in {"totp", "submit"}
<1>1. Keyboard!Order = <<"totp", "submit">>
  BY DEF Keyboard!Order
<1>2. \E i \in DOMAIN Keyboard!Order : Keyboard!Order[i] = loginFocus
  <2>1. 1 \in DOMAIN Keyboard!Order /\ 2 \in DOMAIN Keyboard!Order
        /\ Keyboard!Order[1] = "totp" /\ Keyboard!Order[2] = "submit"
    BY <1>1
  <2>. QED BY <2>1
<1>3. Keyboard!FocusIndex \in DOMAIN Keyboard!Order
  BY <1>2 DEF Keyboard!FocusIndex
<1>4. Keyboard!FocusIndex \in {1, 2} /\ Len(Keyboard!Order) = 2
  BY <1>1, <1>3
<1>5. \A i \in {1, 2} : (i % 2) + 1 \in {1, 2} /\ ((i + 2 - 2) % 2) + 1 \in {1, 2}
  OBVIOUS
<1>6. \A i \in {1, 2} : Keyboard!Order[i] \in {"totp", "submit"}
  BY <1>1
<1>. QED BY <1>4, <1>5, <1>6 DEF Keyboard!NextFocus, Keyboard!PrevFocus

\* No key moves the focus to a field that is not in use.
LEMMA KeyStep ==
  ASSUME KeyInv, Keyboard!Next
  PROVE  KeyInv'
<1>. USE DEF KeyInv, Keyboard!FocusOnUsedField
<1>1. ASSUME NEW k, Keyboard!Press(k) PROVE KeyInv'
  <2>1. \/ UNCHANGED <<loginUseEnv, loginFocus>>
        \/ Keyboard!ToggleEnv
        \/ loginFocus' = Keyboard!NextFocus /\ UNCHANGED loginUseEnv
        \/ loginFocus' = Keyboard!PrevFocus /\ UNCHANGED loginUseEnv
    BY <1>1 DEF Keyboard!Press
  <2>2. CASE Keyboard!ToggleEnv
    BY <2>2 DEF Keyboard!ToggleEnv
  <2>. QED BY <2>1, <2>2, FocusRound
<1>2. CASE Keyboard!LoginFails
  BY <1>2 DEF Keyboard!LoginFails
<1>3. CASE Keyboard!Exited
  BY <1>3 DEF Keyboard!Exited, Keyboard!vars
<1>. QED BY <1>1, <1>2, <1>3 DEF Keyboard!Next

-----------------------------------------------------------------------------
(* The three together *)

SessionsInv == WebInv /\ TuiInv /\ KeyInv

\* The invariant holds when a program starts.
LEMMA SessionsInit == Init => SessionsInv
<1>. SUFFICES ASSUME Init PROVE SessionsInv
  OBVIOUS
<1>1. Web!Init /\ Tui!Init /\ Keyboard!Init
  BY DEF Init
<1>2. WebInv
  BY <1>1 DEF Web!Init, WebInv, Web!DevicesBacked, Web!ErrorIsCurrent
<1>3. TuiInv
  <2>1. file \in Tui!Config /\ cfg \in Tui!Config /\ DOMAIN fns = {}
    BY <1>1 DEF Tui!Init, Tui!Config, Tui!Versions, Tui!Empty, Tui!EmptyMap
  <2>. QED BY <1>1, <2>1 DEF Tui!Init, TuiInv
<1>4. KeyInv
  BY <1>1 DEF Keyboard!Init, KeyInv, Keyboard!FocusOnUsedField
<1>. QED BY <1>2, <1>3, <1>4 DEF SessionsInv

\* Every step of whichever program runs keeps it, and the credentials in the file.
LEMMA SessionsStep ==
  ASSUME SessionsInv, [Next]_vars
  PROVE  SessionsInv' /\ (file.cloud => file'.cloud)
<1>. USE DEF SessionsInv
<1>1. ASSUME UNCHANGED webVars PROVE WebInv'
  BY <1>1 DEF webVars, WebInv, Web!DevicesBacked, Web!ErrorIsCurrent
<1>2. ASSUME UNCHANGED tuiVars PROVE TuiInv' /\ file' = file
  BY <1>2 DEF tuiVars, TuiInv
<1>3. ASSUME UNCHANGED keyVars PROVE KeyInv'
  BY <1>3 DEF keyVars, KeyInv, Keyboard!FocusOnUsedField
<1>4. CASE Web!Next /\ UNCHANGED <<tuiVars, keyVars>>
  BY <1>2, <1>3, <1>4, WebStep
<1>5. CASE Tui!Next /\ UNCHANGED <<webVars, keyVars>>
  BY <1>1, <1>3, <1>5, TuiStep
<1>6. CASE Keyboard!Next /\ UNCHANGED <<webVars, tuiVars>>
  BY <1>1, <1>2, <1>6, KeyStep
<1>7. CASE UNCHANGED vars
  BY <1>1, <1>2, <1>3, <1>7 DEF vars
<1>. QED BY <1>4, <1>5, <1>6, <1>7 DEF Next

\* A run of any of them never leaves the invariant.
LEMMA SessionsInvariant == Spec => []SessionsInv
<1>1. SessionsInv /\ [Next]_vars => SessionsInv'
  BY SessionsStep
<1>. QED BY <1>1, SessionsInit, PTL DEF Spec

\* The devices view is shown on the credentials the server holds until a login nobody
\* waits for any more replaces them, and an error message speaks of what the form still
\* holds, for any accounts and any number of reloads, submissions and late logins.
THEOREM SessionAlwaysShown == Spec => []SessionShown
<1>1. SessionsInv => SessionShown
  BY DEF SessionsInv, WebInv, SessionShown
<1>. QED BY <1>1, SessionsInvariant, PTL

\* The diagnostics screen has its data and the login focus is on a field in use, for
\* any number of functions under way and any sequence of keys.
THEOREM TerminalAlwaysShown == Spec => []TerminalShown
<1>1. SessionsInv => TerminalShown
  BY DEF SessionsInv, TuiInv, KeyInv, TerminalShown, Tui!DiagnosticsHaveData
<1>. QED BY <1>1, SessionsInvariant, PTL

\* No function of the terminal UI removes the credentials from the config file, with
\* whatever closure it writes the file: every closure that lacks them is a login's.
THEOREM CredentialsAlwaysKept == Spec => CredentialsKept
<1>1. SessionsInv /\ [Next]_vars => [file.cloud => file'.cloud]_(Tui!vars)
  BY SessionsStep
<1>. QED BY <1>1, SessionsInvariant, PTL DEF Spec, CredentialsKept, Tui!CredentialsKept
=============================================================================
