# Merossity in TLA+

Merossity is a local controller for Meross smart plugs, strips and lights: a
Bun API server with a background state poller, a React client fed by
server-sent events (SSE), and a command line with a terminal UI. Devices are
spoken to over HTTP on the LAN; the Meross cloud is only used to log in (which
gives the key that signs LAN messages) and to list the devices.

This directory models the parts of it that keep state, checks them with TLC on
small instances and proves the central properties with TLAPS for every
instance. All paths below are relative to `src/`.

    tlc -workers 2 -config poller_feed.cfg MCStatePoller   # a run
    tlapm StatePollerProofs.tla                            # the proofs of a module

## Inventory

| component | state it keeps | operations | how it interacts |
|---|---|---|---|
| State poller, `packages/core/src/api/state-poller.ts` | last state and power reading of each device, poll schedule (`PollMeta`), `knownHosts`, `inFlight`, `telemetryInFlight`, `resolving`, SSE subscribers | `tick`, `pollDevice`, `pollTelemetry`, `pollNow`, `boostDevice`, `tryResolveHost`, `createStreamResponse` | reads and writes the config file, asks devices, is called by the handlers, feeds the clients |
| Config store, `packages/core/src/meross/config.ts` | `~/.config/merossity/config.json`: credentials, device list, hosts, network | load, save | read-modify-write by five handlers, by the poller and by the command line, from several processes |
| Device handlers, `packages/core/src/api/{toggle-device,set-device-light,get-device-state*,...}.ts` | none | one LAN command each, with a fallback | boost and poll the device afterwards |
| Timer and trigger rules, `packages/core/src/api/*-device-{timerx,triggerx}.ts` | on the device | get, set, patch, delete | read-modify-write over the LAN, then boost and poll |
| Telemetry database, `packages/core/src/api/telemetry-db.ts` | SQLite samples and daily consumption | insert, upsert, history in buckets | written by the poller and the consumption handler |
| Cloud client, `packages/core/src/meross/cloud/http.ts` | none | signed POST, login with regional fallback and redirect, device list | used by the handlers, the CLI and the TUI |
| LAN discovery, `packages/core/src/meross/lan/{discovery,ping-sweep,resolve-ip}.ts` | per scan: a shared index and result | CIDR arithmetic, ping sweep, scan by uuid, ARP lookup | used by the resolvers |
| Devices machine, `apps/web/src/state/devicesMachine.ts` | inventory, hosts, device states, power, optimistic toggle | parallel statechart: inventory, operations, monitor | SSE stream in, API calls out |
| App and auth machines, `apps/web/src/state/{appMachine,authMachine}.ts` | session phase, login form | boot, login, MFA | API calls |
| Views, `apps/web/src/views/` | pending light commands, edited schedules | render, debounce | devices machine, API calls |
| Terminal UI, `packages/cli/src/tui.tsx` | a copy of the config, phase | load, hydrate, scan, toggle | config file, cloud, LAN |
| Development server, `apps/web/src/dev/serve-with-control.ts` | the running server and its control socket | take over a port, restart, stop | other instances, by socket |
| Tooling, `packages/qa`, `packages/new`, `scripts` | - | - | not part of the program |

What is hard here, and what makes each part correct:

* **Poller.** Everything runs on one event loop, so the code between two awaits
  is atomic and everything else interleaves: the tick timer, any number of
  `pollNow` calls with their workers, telemetry, resolutions, streams that open
  and break. A device must not be polled twice at once; a caller that joins
  another's poll must be told how it ended; responses must be complete;
  versions must grow although the wall clock may not; every connected client
  must end up with what the server has.
* **Config store.** Nothing locks the file, several processes write it, and a
  file that cannot be parsed reads as `{}`. No update may erase another.
* **Rules and stored measurements.** A rule is changed by reading it from the
  device and writing it back, a daily total by reading it and storing it; other
  requests come in between, and a request that timed out may have been applied.
  Firmwares wrap the same facts in different ways, and samples carry the time of
  a clock that can be set back.
* **Cloud and LAN.** Domains redirect, refuse or do not answer; a scan's workers
  share an index and a result while devices move; addresses are 32-bit words in
  a language whose bit operations are signed.
* **Web client.** Events are lost with a connection, toggles are shown before
  they are answered, requests of one dialog overlap and their answers come in
  any order, pages are reloaded with a login under way. What is shown must
  converge to what was published, marks must go with their requests.
* **Terminal UI.** Asynchronous functions work on the config of the render they
  were made in.
* **Development server.** Start, takeover, restart and stop of several processes
  interleave at every await, and dead ones leave their socket files behind.

`PROJECT.json` lists the components with their status and, under `hazards`, the
places in the code where these things can go wrong.

## Modules

| module | what it is |
|---|---|
| `Maps` | partial functions, for JavaScript's `Map` and `Record` |
| `StatePoller` | the poller, one action per piece of code between two awaits |
| `DeviceFeed` | the abstract specification of what the poller promises its clients |
| `MCStatePoller` | bounds for TLC |
| `MCPollerLiveness` | the poller under fairness, with only its environment bounded |
| `PollFreshness` | the poller with a history of what devices were during each call |
| `StatePollerProofs` | the inductive invariant of the poller, what follows from it, and the refinement of `DeviceFeed` |
| `ConfigStore` | the config file and everyone who updates it |
| `MCConfigStore`, `ConfigStoreProofs` | its instance for TLC and its proofs |
| `DeviceStream` | the browser's event stream and the monitor region, on a server reduced to what `DeviceFeed` publishes |
| `DeviceOperations` | the operations region on top of it: optimistic toggles, rollback, refresh, diagnostics (extends `DeviceStream`) |
| `InventoryRegion` | the inventory region: device list, hosts, the suggested CIDR, scans and resolves, and the hosts in the server's config |
| `ManageDialog`, `TriggerEditor`, `LightControls` | the dialog of a device: tabs, power history and timers; triggers; brightness, temperature and colour in its panel, mounted and unmounted, and on the card |
| `WebSession` | boot, login form and MFA of the browser, with reloads |
| `TuiSession`, `TuiLogin` | the terminal UI: its asynchronous functions; the keys of its login screen |
| `TimerRules` | the handlers that list, set, patch and delete rules on a device |
| `Payloads` | how the answers of devices are read |
| `PowerHistory`, `ConsumptionDays` | the telemetry database and its queries; daily totals |
| `CloudLogin` | signing in over several regions |
| `LanScan`, `Cidr` | scans, resolves and the merge of found hosts; the address arithmetic |
| `ServeControl` | development servers, their ports and control sockets |
| `MCClient`, `MCDevice`, `MCViews`, `MCSessions`, `MCNetwork` | the instances of these for TLC, see below |
| `ClientProofs`, `DeviceProofs`, `ViewsProofs`, `SessionsProofs`, `NetworkProofs` | the inductive invariant of each of the five and what follows from it |
| `FiniteData` | lemmas about sums over finite sets, ascending lists, powers of two and the bits of a number |

The five `MC` modules after the config store's instantiate several components each.
These share no state, so what one of them does cannot depend on how the others are interleaved with it:
the variable `running` names the one that moves in a behaviour and the others
rest where they began. A property of such a module is the conjunction of the
named properties of its components, which are stated and explained there.

### StatePoller and the code

| code | actions |
|---|---|
| `tick` | `TickSync` (up to the await of `readConfig`), `TickResume` (the rest), `TickNoSync` (a tick that does not wait) |
| `pollDevice` | started by `PollDevices`; `PollReadConfig`, `LanAnswer` (the device reads its state), `PollSuccess`, `PollFailure` (the `catch`, from any of the awaits) |
| `pollTelemetry` | started by `TickSchedule`; `TelemetrySuccess`, `TelemetryFailure`, `TelemetrySkip` |
| `pollNow` | `PollNow` or `ControlDone` (the tail of a control handler), `PollNowResume` (sync done, first workers), `WorkerNext`, `WorkerReturn`, `PollNowReturn` |
| `tryResolveHost` | started by `PollFailure`; `ResolveFound`, `ResolveWrite` (the file), `ResolveDone` (its continuation), `ResolveGiveUp` |
| `createStreamResponse`, `pushToSubscriber` | `CreateStream`, `CancelStream`, the set `gone` of `BroadcastState` and `BroadcastPower` |
| outside | `ClockAdvances`, `ClockSetBack`, `ConfigChanges`, `DeviceChanges` |

Points where the model differs from a line-by-line reading:

* A poll task is named by the caller that started it and its device. That lets
  the model express two tasks for one device, so that `SingleFlight` can fail.
* The end of a task settles its promise and then removes it from `inFlight` one
  microtask later. Both are one step here: a caller that comes in between gets
  the settled promise, which is what it would have got just before.
* `tick` and `pollNow` take the config as it is when they ask for it. A later
  read is a `ConfigChanges` before the call, and a read of a half-written file
  is one that empties the map.
* A device's answer is one element of `Values`, which stands for kind, channels,
  lights and digests together: `hasMaterialStateChange` compares all of these,
  the host and staleness, and never the error text or the source.
* A power reading is `powerW` and one `supply` for voltage and current, which are
  never told apart. The two comparisons stay two: a success is pushed when
  staleness or either part changed and never looks at the error
  (`state-poller.ts:536-541`), a failure when staleness, power or error changed and
  never looks at the supply (573-577).
* `0` stands for `null` in `PollMeta`, which the code only tests for truth.
* `device_stale` and `device_power_stale` repeat the payload of the event before
  them and add nothing to what a client knows. The host in a power reading, which
  neither comparison looks at, the statistics and the `poller_health` broadcast are
  left out.
* Jitter is a choice among all delays it can give.

### DeviceFeed

A versioned map of entries and clients that hold copies: `Publish` gives one
device a new or newer entry and hands it to every client still connected,
`Connect` hands over the whole map, `Disconnect` drops clients. The poller
implements it with `feed` the published states without the source of the poll,
and `clients` what each subscriber has been sent.

### ConfigStore and the code

An update is started by `LoginCloud`, `RefreshCloudDevices`, `ResolveHost` (also
`tryResolveHost`), `DiscoverHosts`, `DiscoverHostsCli` or `NetworkCidr`. It
reads the config (`ReadConfig`) before or after its remote work (`LoginAnswered`,
`ListAnswered`, `HostFound`, `HostsScanned`, `WorkFailed`) exactly where the
code does, keeps the copy, and writes the copy with its own section replaced
(`BeginWrite`, `EndWrite`). `Kill` ends a process anywhere. What an update
writes is given by its *patch*, the config that has only what it found out.

Nothing in the repository says whether `Bun.write` replaces a file atomically,
so `AtomicWrites` is a parameter: when false, the file is unreadable while a
write is under way, and two writes at once may leave it so. `committed` is a
history variable, the sum of the patches of all updates that reported success,
and `raced` records that two updates overlapped or that a process died writing.

### The web client and the code

* `DeviceStream`. `streamEvents` is `OpenStream` (the constructor and the
  reconnect timer), `OnOpen`, `OnError` with `ScheduleReconnect`, and `Receive`
  for every event; the queue `wire` is what a connection has sent and the page
  not yet handled, and goes with the connection. A state is whether the device
  is on and whether the entry is stale. `Delays` is the length of the list of
  reconnect delays.
* `DeviceOperations`. The states of the region and of its invoked request. The
  server may apply a toggle and still answer with an error, or later than the
  stream reports its effect. `overlaid` and `answered` are history: which
  devices a toggle wrote over after the last event, and which toggles the device
  took.
* `InventoryRegion`. Each region is one variable; requests that the machine has
  left are answered to nobody. The view's effect (reload when mounted, scan after
  a refresh) is part of the model, as it is the only one that starts scans. The
  handlers behind the page, and `Others` that change another section, read the
  config and write their copy back in a step of its own, so that one may undo
  what another stored. `SET_CIDR` is left out, as no view sends it.
* `ManageDialog`, `TriggerEditor`. Every button starts a function in a free
  slot, which waits for one or two requests and then sets React state whatever
  was pressed meanwhile. The dialog may be closed and opened again before. The end
  of a save sets the active trigger whatever text is shown by then; `overtaken` is
  history: a save has ended over another text.
* `LightControls`. Panel and card widget of one light; local values, the
  busy mark and the requests of each. The panel is unmounted with its tab, the
  dialog or the address of the light, its commands go on, and the next mount starts
  from the last report with no busy mark. Reports move the panel's controls unless
  they are dragged and the widget's in any case. One scale 0 .. `Top` stands for all
  ranges.
* `WebSession`. `appMachine` and `authMachine`, the form with its fields, and the
  two requests they make. The password stands for the account it opens, and
  credentials for the account they are of. A reload or a broken connection leaves a
  login adrift, which the server finishes and stores, perhaps after a login of
  another account; `replaced` records that.

### The terminal UI and the code

`TuiSession` has a slot per running function, with the config of its closure. The
first range scanned (`setCidr`) makes new callbacks, so the effect hydrates once
more. A toggle or the diagnostics of a device without an address throw before the
`try`, which ends the process.
`TuiLogin` is `useKeyboard` on the login screen: focus, field lengths, and the
commands that are letters or control keys.

### Server side, LAN and cloud

* `TimerRules`. A call is a sequence of LAN requests. The device applies a SET or
  refuses it with a code in its reply, either reply may be lost, and the handler's
  look at the reply is a step of its own, with other calls in between. A rule is its enable flag, its toggle
  action (or `Absent`) and a schedule for all remaining fields.
* `Payloads`. A section of a digest is absent, one object, a list, or nested one
  level deeper; each extraction function is an operator, and the run covers
  every digest of the given size. `Array.sort` is stable, so items with the same
  channel keep their order.
* `PowerHistory`. Samples carry the wall clock's time. Averages are kept as sum
  and count. `ConsumptionDays`: a device's totals grow; an answer may lack days, is
  handled whenever it comes, and its rows are stored one by one, each of which may
  fail. `before` is history: which requests had ended when one was sent.
* `CloudLogin`. What a domain says is arbitrary, decided when it is first asked,
  and stays. A login is one sign-in, a probe one per region. `asked` is history: the
  domains, those of redirects included, that the sign-in under way went on from.
* `LanScan`. Workers share the index `i`; an address is asked, then answered or
  not; a device is its uuid and its MAC at once, and may move. A discovery may have no
  worker at all: a `concurrency` that is no number becomes `NaN`
  (`discover-hosts.ts:22`). `Cidr`: every
  word, prefix and netmask of `Width` bits, with JavaScript's signed `&`, `|` and
  `<<`; the first two are sums over the bits that are set, and the loop over a
  netmask is a recursive function of the number of bits seen.
* `ServeControl`. The start of a process and its restarts are tasks with one step
  between two awaits. A socket file belongs to its creator, answers while that
  process listens on it, and stays when the process dies. A process that shuts down
  goes on with its tasks, may open a port and listen again, until the file is
  removed and it exits. `overlapped` is
  history: the processes in which a restart began before another had ended.

## Runs

| run | expected | properties |
|---|---|---|
| `poller_tasks` | pass | `TypeOK`, `SingleFlight`, `NoLostWakeup`, `OwnerWithinCap`, `ResponseComplete` |
| `poller_feed` | pass | `StaleIffFailing`, `SubscribersInSync`, `UpdatedAtIncreases`, `ImplementsFeed` |
| `poller_power` | pass | `PowerInSync` |
| `poller_live` | pass | `PollNowReturns` |
| `poller_fresh` | violation | `CurrentStateReturned` |
| `config_serial` | pass | `TypeOK`, `SerialUpdatesKept` |
| `config_lost` | violation | `ReportedUpdatesKept` |
| `client` | pass | `StreamSound`, `ShownConverges`, `OptimismOwned`, `AlwaysRetries`, `InventoryKept` |
| `device` | pass | `PayloadsRead`, `DeleteTruthful`, `PowerReported`, `DaysCurrent`, `SerialRulesExact` |
| `views` | pass | `MarksTruthful`, `JsonMatchesActive`, `ControlsFollowReports`, `TimersShown`, `TriggersShown` |
| `sessions` | pass | `SessionShown`, `TerminalShown`, `SubmitAnswered`, `CredentialsKept`, `HydrationEnds` |
| `network` | pass | `SignInSound`, `ScanExact`, `RangesExact`, `SocketsUsable`, `SignInEnds`, `ScanAnswered`, `StartSettles` |

* `poller_tasks`: two devices, one address, the tick timer and one `pollNow`
  call at a time with a concurrency limit of 1. One worker for two devices is
  what makes a worker go on to its second device, join a poll of the timer and
  be joined by it; devices are interchangeable (symmetry).
* `poller_feed`: one device and one stream client, two units of time with
  steps back, two failures (backoff, and a resolution that moves the device).
  Four versions are enough for a change under a clock that was set back twice.
* `poller_power`: one plug with one power, two supplies and two error messages:
  each comparison meets a change in the part it does not look at.
* `poller_live`: two `pollNow` calls that may join each other or the timer.
* `poller_fresh`: a call joins a poll that has its answer already, and returns a
  value the device had only before the call. The tail of `toggle-device.ts`
  polls in just this way after it changed the device.
* `config_serial`: two updates of any kind, non-atomic writes, one death.
* `config_lost`: with atomic writes and no deaths, a resolve answers success and
  a concurrent `POST /api/network/cidr` writes back the hosts it had read before.
* `client`: whatever connections are lost with events in flight, a connected page
  that has read its queue shows what the server published, except for a device
  that a toggle of its own wrote over since; an optimistic state that outlives
  its toggle is one the device took; a scan that ends shows what it found and takes
  no stored host away, unless another handler wrote the config in between.
* `device`: switches and lights are read the same when a firmware nests them, and
  power from either of two keys; a
  patch keeps all it does not name and a list has every rule if no other call
  overlapped; a delete says truly whether it removed the rule
  or only disabled it, whichever SETs the device refuses and whoever wrote the rule
  between them; a history over a range has each sample in it exactly once:
  the counts and the sums of its buckets add up to those of the samples; a stored
  day falls behind a total stored before only if the two requests overlapped.
* `views`: no mark outlives the request it stands for, and those of timer writes,
  trigger deletes and light commands stand for exactly one; the JSON shown is that
  of the trigger it is labelled with unless the user typed in it or a save ended
  over another text; a control of a light shows the last report unless the user
  moved it; a function nobody overtook leaves the device's timers or triggers on
  the screen.
* `sessions`: devices are shown on the credentials the server stored for that login
  until a login nobody waits for replaces them; an
  error belongs to the input on the screen; every submit is answered and every
  hydration ends; the terminal UI never loses credentials it has stored.
* `network`: one sign-in posts a refused password to no further domain, those it is
  redirected to included; a sign-in that fails for its region has asked all
  four; workers leave out no address and a scan says truly where a device is; every
  CIDR gives exactly its hosts; a process at rest serves its port, and listens on the path of that port unless
  two restarts of it overlapped.

**Bounds.** In the poller's runs the constants of time are scaled: one unit is a
few seconds, `FAILURE_BACKOFF_SEQUENCE_MS` is `<<1, 2>>`, and what matters is
kept, namely which interval is longer than which and that the sequence
saturates. The clock starts at `Epoch`, later than one sync period, as
`Date.now()` does. `MaxClock`, `MaxUpdatedAt` and `MaxFailures` cut behaviours
off in `MCStatePoller`; `MaxCalls` bounds the clients in `MCPollerLiveness`;
`MaxKills` the deaths in `ConfigStore`. In the others:

* `client`: one device, two readings, a delay list of two (the second is the last
  and repeats), four events in flight (two under `DeviceOperations`, enough for
  an event that overtakes an answer); in the inventory one device, as each step
  treats an address apart from all others, one range, and one other handler beside
  the page's three: it may read before a scan is stored and write after it.
* `device`: two channels and up to two items per section; two calls on two rule ids;
  three samples at times on both sides of bucket and range limits, the clock set back once; three
  consumption requests over two dates, so that one overtakes two others.
* `views`: two functions at once on two timers (the address of the device stays
  known), or on one timer when the plug's power tab is there; triggers with one rule
  text, since the properties checked do not depend on what a rule says; a light
  with two values for its brightness and one tint, and two commands at
  once, enough for one of a panel that is gone and one of its successor.
* `sessions`: two accounts, two submits and two reloads, so that a login left adrift
  may end after the other's; two hydrations at once, fields of up to
  two characters besides the code of six.
* `network`: four regions of which one may be named by a redirect, and a domain
  outside them; two devices, three addresses, two workers or none and one move; words of
  six bits, so that a sign bit, both ends of a subnet and prefixes 0, 31 and 32
  have their counterparts; two processes, two ports and
  two restarts, which may overlap, also while the process shuts down (of two
  shutdowns of one process at once only the first cleans up).

Deadlock is checked in every run.

**Fairness.** In `poller_live`, weak fairness for the continuation of a tick, of
each poll task, of `pollNow` and of each of its workers: the event loop runs
the continuation of every settled promise, file reads end, and every LAN
request ends by its answer or by the abort timer in `packages/core/src/meross/lan/http.ts`.
Nothing is assumed of clients, of the clock, of what a request ends with, or of
ticks being started. Time only bounds the environment there, so no step of the
poller is disabled by a bound. The same reasons carry the others: `AlwaysRetries`
assumes that the reconnect timer fires, `HydrationEnds` that a started function
proceeds, `SignInEnds` that a post is answered or aborted by its timeout,
`SubmitAnswered` that the boot request and a login are answered and that the
page handles the answer, `ScanAnswered` that the handler and its workers go on,
`StartSettles` that the tasks and the cleanup of a process do, the `close` of its
control server included. Users, reloads,
moving devices, deaths and the answers chosen are never forced.

## Where the code falls short

Two disagreements are runs of their own (`poller_fresh`, `config_lost`). The
following definitions also state what a comment, a document or a message of the
program says, and TLC finds each of them violated when a small configuration of
the module names it as its only property. They are kept beside the properties
that do hold:

| definition | module | what happens |
|---|---|---|
| `TelemetryIndependent` | `StatePoller` | a tick passes over a due telemetry poll while the state poll of the device is in flight (`packages/core/src/api/state-poller.ts:395`), against the comment at line 414 |
| `RefreshShown` | `DeviceOperations` | the poller only broadcasts changes: after a rollback over a newer state, a refresh that finds the published value again sends no event and leaves the view wrong (`apps/web/src/state/devicesMachine.ts:403`), against `docs/devices-machine-statechart.md:48`, "wait for SSE updates" |
| `ControllableDuringScan` | `InventoryRegion` | a failed `GET /api/hosts` counts as an empty map, and no device can be switched while the scan runs (`apps/web/src/state/devicesMachine.ts:340`), against `apps/web/src/views/devices/InventoryView.tsx:103` |
| `DiscoveredAppear` | `InventoryRegion` | a host lookup that asked for the hosts before a scan was stored may end after it and shows the older map (`apps/web/src/state/devicesMachine.ts:351`), and a handler that had read the config before the scan was stored writes it away (`packages/core/src/api/discover-hosts.ts:64`), against `apps/web/src/views/devices/InventoryView.tsx:125` |
| `SetTruthful` | `TimerRules` | a set answers ok for any reply of the device, also for one that refuses the rule (`packages/core/src/api/set-device-timerx.ts:26`); the delete handler looks at that code |
| `OnlyNamedFields` | `TimerRules` | a patch writes the whole rule back, over a change made since it was read (`packages/core/src/api/patch-device-timerx.ts:99`), against line 40 |
| `SavesFullObject` | `TriggerEditor` | the editor fills in a stored trigger as its bare id and Save sends that (`apps/web/src/views/devices/DeviceCard.tsx:951`), against `packages/core/src/api/set-device-triggerx.ts:9`; seen when `Rules` has more than `Bare` |
| `JsonAlwaysMatches`, `MarksComplete` | `TriggerEditor` | the end of a save sets the active id whatever text is shown by then, also after a refresh or a delete replaced it (`apps/web/src/views/devices/DeviceCard.tsx:1044`), against the label at line 978; the first of two saves of one trigger that ends clears the mark of both (line 1049) |
| `LoadingComplete` | `ManageDialog` | the lists that `startFetchForTab` starts overlap, and the first to end clears the mark of all (`apps/web/src/views/devices/DeviceCard.tsx:342`) |
| `OneCommandPerPanel` | `LightControls` | a panel that is unmounted and mounted again is not busy, and its command may be carried out before one of its predecessor (`apps/web/src/views/devices/SmartLightControls.tsx:189`) |
| `NoJump` | `LightControls` | the card's slider has no dragging mark, so a report moves it under the finger (`apps/web/src/views/devices/SmartLightControls.tsx:504`) |
| `AccountShown` | `WebSession` | a login that a reload left behind ends after a second one and stores its own credentials, while the page shows the second account's devices (`packages/core/src/api/login-cloud.ts:59`) |
| `RangeScanned` | `LanScan` | a `concurrency` that is no number becomes `NaN`; the scan has no worker, asks nobody and answers an empty success (`packages/core/src/api/discover-hosts.ts:22`) |
| `InventoryStored` | `TuiSession` | the scan of a hydration spreads the config of its render and writes it back without the device list just stored (`packages/cli/src/tui.tsx:145`), against lines 448 to 450 |
| `LettersAreTyped` | `TuiLogin` | some letters are commands before they are text, so some addresses and passwords cannot be typed (`packages/cli/src/tui.tsx:253`), against line 413 |
| `ProbeReportsDomain` | `CloudLogin` | an entry of `meross:auth-debug` is the result of a sign-in that goes on to other regions, so a domain that answered 1004 is printed as ok (`packages/cli/src/meross.ts:180`), against line 106 |
| `AutoTriesRegions` | `CloudLogin` | another region is tried for status 1004 only; any other failure of the first ends the sign-in (`packages/core/src/meross/cloud/http.ts:269`), against `apps/web/src/views/AuthView.tsx:35` |
| `ScheduleNesting` | `Payloads` | the wrapper of a nested schedule digest counts as the digest and its entries are not read (`packages/core/src/api/shared.ts:285`), against line 263 |
| `ServerControllable` | `ServeControl` | the cleanup of a process that was asked to stop removes the socket file its successor has just created (`apps/web/src/dev/serve-with-control.ts:365`), against `packages/new/templates/web/README.md:25` |
| `RestartInPlace` | `ServeControl` | two restarts at once open two servers, of which one is forgotten, and may leave the control socket on the path of a port that is not the server's (`apps/web/src/dev/serve-with-control.ts:278`), against `apps/web/README.md:47`; `SocketNamesPort` therefore leaves processes in `overlapped` out where it speaks of the path |
| `LatestRecorded` | `PowerHistory` | samples are ordered by the wall clock's time: after it was set back, an older sample wins (`packages/core/src/api/telemetry-db.ts:124`), against `packages/core/src/api/get-telemetry-power-current.ts:6` |

Three more have no sentence to contradict and are what a property leaves out:
consumption answers that overlap may be stored in the wrong order, so that an older
daily total replaces a newer one (`packages/core/src/api/telemetry-db.ts:95`, what
`BehindOnlyByOverlap` allows); a process that was asked to stop goes on with a restart
under way and may open a port and listen until it exits
(`apps/web/src/dev/serve-with-control.ts:270`); and a toggle or the diagnostics of a
device without an address reject where nobody catches it
(`packages/cli/src/tui.tsx:213`), which ends the terminal UI.

## Proofs

`PROJECT.json` lists the theorems. Each holds for every value of the constants
that satisfies the assumptions named below: any sets of devices, addresses,
calls, slots, ids, processes and domains, any intervals, and any length of the
behaviour. Where a module has a bound for TLC (`MaxWire`, `MaxMoves`,
`MaxRestarts`, ...) it is a constant like the others. The way is the same
everywhere: an invariant that every step preserves, proved with one lemma for
each action, and the properties as consequences of it. TLC checked each
inductive invariant on the instance of its run before it was proved.

* `StatePollerProofs`. `PollerInv` is inductive: `TypeOK`, `InFlightExact` (the
  `inFlight` map names exactly the running tasks), `MetaExists` (whatever runs
  for a device has a `PollMeta`), `AddressKnown` (a task past its `readConfig`
  has an address) and `NoLostWakeup`. Neither `SingleFlight` nor `NoLostWakeup`
  is inductive alone: a task may only end its own entry, which is what
  `InFlightExact` says, and a worker that joins a promise found in the map joins
  a task that runs for the same reason. From it: `TypeCorrect`,
  `SingleFlightAlways`, `NoLostWakeupAlways`. `CallInv` is inductive beside it:
  each uuid of a `pollNow` call is in exactly one place (queued, awaited by a
  worker, answered by a state or by an error), a worker is left while some are
  queued, there are no more workers than the limit, and a poll a call has started
  is one of those it awaits. From both: `ResponseAlwaysComplete` and
  `OwnersAlwaysWithinCap`; the cap of an owner needs the workers counted,
  because a worker that joins owns no poll and one that ends may start another.
  Every step is one of four kinds as far as clients can see:
  one entry published with a greater version, nothing but a source changed,
  streams broken, a stream opened with the snapshot (`NextFeed`). From this and
  `PollerInv`: `SubscribersAlwaysInSync`, `UpdatedAtAlwaysIncreases` and
  `PollerImplementsFeed` (initial states and steps of the refinement);
  `PowerAlwaysInSync` along the same cases for readings: a comparison that skips
  the error, or the supply, does no harm only because a reading has an error
  exactly if it is stale (`ErrorIffStale`) and a failure keeps the supply;
  `StaleAlwaysIffFailing` from what each writer of a `PollMeta` leaves alone.
* `ConfigStoreProofs`. `StoreInv` is `TypeOK` and `CopiesCurrent`: until updates
  overlap, every copy held by an update is the current file, and a write that
  clashed with another still has that other under way. From it
  `SerialUpdatesAlwaysKept` and `StoreTypeCorrect`.
* `ClientProofs`. `ClientInv` is `StreamInv` (the wire holds events of the one
  connection in use), `ConvInv`, `OpsInv` and `RegionInv`. What the page *will*
  show is not inductive as it stands: `Converging` says where it will come from,
  namely the last event on the wire that speaks of the device or, if none does,
  the entry shown. `OpsInv` ties a rollback to the toggle under way and to the
  command that left the entry it restores. `RegionInv` speaks of the copies the
  handlers hold: unless one that read before a scan was stored writes, the scan's
  hosts are in the config and in all later copies (`Stored`), and the copy a scan is
  merged with is the config until another writes (`Merging`). From it `StreamAlwaysSound`,
  `ShownAlwaysConverges`, `OptimismAlwaysOwned` and the action property
  `InventoryAlwaysKept`.
* `SessionsProofs`. `SessionsInv` is `WebInv`, `TuiInv` and `KeyInv`. A reload
  loses what the page knows, so `WebInv` speaks of the request too: one that is
  answered ok has stored the credentials of the account in the form, which is locked
  meanwhile, unless a login left adrift has replaced them. `TuiInv` is about closures: a function
  under way whose closure lacks credentials is a login. From it
  `SessionAlwaysShown`, `TerminalAlwaysShown`, `CredentialsAlwaysKept`.
* `ViewsProofs`. `ViewsInv` is `LightInv`, `TriggersInv` and `DialogInv`. The
  marks that are exact need the converse of what they promise: two functions under
  way never share one (`DeletesMarked`, `WritesMarked`), or the first to end would
  take the other's away; a command of an unmounted panel (not in `Own`) has none.
  `AloneExact` and `AloneUpToDate` say that the list given to a function nobody
  overtook is still the device's, `DraggingMine` that a control of the dialog under a
  drag counts as moved by the user. From it `MarksAlwaysTruthful`,
  `JsonAlwaysMatchesActive`, `ControlsAlwaysFollowReports` and, of steps,
  `TimersAlwaysShown` and `TriggersAlwaysShown`.
* `DeviceProofs`. `DeviceInv` is `DaysInv`, `RulesInv`, `HistoryInv` and
  `PayloadInv`.
  * `ViewOK` relates what a call has read to the rules on the device, as long as no
    other call wrote: a patch holds the rule it found with its fields put in, a list
    holds the rules of all ids but those still to be asked for. `DoneOK` says the
    same of what the device has done for a delete whose reply was not read yet.
    From it `DeleteAlwaysTruthful` and `SerialRulesAlwaysExact`.
  * `DaysInv` orders the answers: one to a request sent after another had ended has
    totals as late (`InTurn`), and a row is what the last request to write it
    extracted (`RowsWritten`). From it `DaysAlwaysCurrent`.
  * `HistoryInv` has the samples `Ordered` while the clock has not been set back,
    for the latest one, and `Conserved`: the answer is a partition of the samples
    in the range by their bucket, whose parts are counted and summed. From it
    `PowerAlwaysReported`.
  * `PayloadInv` types the digest and ties the reply to it. What is read of a
    section is a function of its items alone, wherever they are: the wrapper of a
    nested section yields nothing, so the search goes on to its inside. From it
    `PayloadsAlwaysRead`, for sections of any length.
* `NetworkProofs`. `NetworkInv` is `CloudInv`, `ScanInv`, `CidrInv` and
  `ServeInv`.
  * `Trying` carries a sign-in over redirects: its candidate was asked itself or
    has sent the client on, and those asked with those left are the four regions;
    `GoneOn` says that every domain the sign-in has posted to before, redirects
    included, did not know the account or named another domain (`SentOn`), so that
    none of them refused the password; `CredsOK` follows credentials kept by a
    probe and not yet stored. From it `SignInAlwaysSound`.
  * `Pool` and `Asked` say which addresses are behind the shared index and with no
    worker; `Discovering` and `Resolving` that a device at such an address was
    noted, through all stages of a call and with either name a caller gives it
    (`Target`). From it `ScanAlwaysExact`.
  * `CidrInv` only says that an answer is the one computed for the question. The
    work is in the arithmetic, for words of any width, so also of 32 bits: a mask
    is 2^w - 2^h (`MaskIs`), masking takes the remainder by 2^h away and filling
    adds it (`EndsAre`), the two ends of a range lie on the same side of the sign
    bit unless the range is everything (`FirstIs`), which is why comparing signed
    words does no harm (`ListIs`); and `ScanOK` is the loop invariant of
    `netmaskToPrefix`. From it `RangesAlwaysExact`.
  * `Living` says that only processes that run have tasks, and shut down after
    their start only; `Starting`, `Serving` and `Relistening` follow the tasks of a
    process from port to path: from closing the control server until it listens again, the task
    carries the server's port as the path to come. From it `SocketsAlwaysUsable`.

* `FiniteData`. The provers cannot instantiate an induction theorem. What is proved
  by induction here is proved from the library's theorem that `<` is well-founded
  on the naturals: the set of sizes for which the claim fails has no least element
  (`LeastNat`, `SmallestSet`). In this way the sum over a finite set is shown to
  exist, not to depend on the order and to be additive (`SumExists`, `SumRemove`,
  `SumUnion`), a set to be counted and summed class by class (`CountByClass`,
  `SumByClass`) and to have an ascending list with every element in it (`ListExists`,
  `ListCovers`).
  Powers of two are known to the library as numbers of subsets (`PowerOfSubsets`);
  from that come `PowerStep`, `PowerSum`, and that a number below 2^k is the sum of
  the powers of its bits (`LowWord`, `WordOfOnes`).

**Found by proving.** `Usable` ordered the items of a section by channel and left
the order of two items with the same channel open. Then a reading could depend on
where the section was put, as the choice may differ; `Array.sort` is stable, and the
model now says so (`Before`). `HistoryConserves` counted readings, and a query that
put a reading's power into the wrong bucket would have passed: it now adds up the
sums as well.

`SocketNamesPort` said that a process at rest always listens
on the path of its port. `Relistening` could not be made inductive for two
restarts at once: the one that moved the server last need not be the one that
listens last. TLC shows it as soon as a process may restart twice; the run had
one restart. The property now says what holds, the run has two, and the rest is
listed under *Where the code falls short*.

**Assumptions.** `NamesAssumption` and `TimesAssumption` of the poller (special
values differ from ordinary ones, the limits are positive, the backoff sequence
is not empty, the set of devices is finite), `StoreAssumption` of the config
store; in the `MC` modules `NoneAssumption`, `NoneIsNoTotal`, `BlankIsNoId`,
`RulesAssumption` and `CidrBounds` (`null`, an empty field or an absent one is no
ordinary value), `OthersAssumption` (other handlers are not the page's own),
`StreamBounds` (at least one delay; a snapshot of states and readings
fits the wire), `LightAssumption` (values are numbers, a default within the range, a
light may report what a control can set), `LoginAssumption`,
`ScanBounds`, `ServeBounds` (at least one worker, address, port, character),
`TimesAreNat` and `BucketPositive` (times are natural numbers from 0, finitely
many, and buckets are not empty), `PowersAreInt` and `ChannelsAreNat` (powers are
integers and channels natural numbers, `null` is no channel, a window is a number),
`WidthIsWord` (words of two bits or more), and `DomainsAssumption` (redirects and options
name domains of the model, the guess of the time zone is one of the four
regions). TLC evaluates all of them. Two things are part of the models and not
assumptions of a theorem: a device does what its reply code says, and counts its
daily totals upward.

**Only model-checked.** Liveness under fairness, which this prover does not reach
(`PollNowReturns`, `AlwaysRetries`, `SubmitAnswered`, `HydrationEnds`,
`SignInEnds`, `ScanAnswered`, `StartSettles`), and the two runs that expect a
violation. Every invariant and every action property of a passing run is a theorem.

## Not modelled

See the components marked `not_modelled` or `partly` in `PROJECT.json`.

* Inventory grouping and dumps: one pure function over a device list, and output.
* Handlers that only read and answer, routing and response helpers.
* The extraction of the device list from the cloud's answer, signing, encoding.
* The ping sweep before an ARP lookup, which only fills the system's ARP table,
  and the health check of the development server.
* The QA kit, the scaffolder and the build scripts, which are not part of the
  program.
* Layout, wording and logging; opening and migrating the SQLite file.

## Plan

1. A time quotient of the poller (due or not due instead of times), for "a device
   that answers is shown fresh again" and the prompt poll after a boost.
2. The steps of `DeviceStream`'s server as a refinement of `DeviceFeed`, so that the
   page's convergence follows from the poller itself. `DeviceStream` keeps no
   versions; they would come in as a history variable.
