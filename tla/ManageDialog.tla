---------------------------- MODULE ManageDialog ----------------------------
(***************************************************************************)
(* The dialog of apps/web/src/views/devices/DeviceCard.tsx: its tabs, the  *)
(* power history and the timer editor.  Every button starts a function     *)
(* that waits for one or two requests and then sets React state, whatever  *)
(* was pressed meanwhile.  TriggerEditor has the triggers.                 *)
(*                                                                         *)
(* The device's timers change in one step per request here; TimerRules     *)
(* has the handlers.  Of the colour and diagnostics tabs only the events   *)
(* for the devices machine are left, see DeviceOperations.                 *)
(***************************************************************************)
EXTENDS Naturals, Maps

CONSTANTS
  Slots,      \* bound: requests of the dialog under way
  Ids,        \* timer ids
  Values,     \* what a timer says
  Disabled,   \* what a timer says after a delete that only disabled it
  Blank,      \* an empty id
  None,
  IsPlugLike, IsSmartLight

VARIABLES
  ready,          \* the address of the device is known
  timers,         \* the timers on the device
  ops,            \* slot -> a function that awaits a request
  manageOpen, manageTab,
  powerHistory, powerHistoryLoading,
  timerxTimers, timerxLoading, timerxError, timerxPending, timerEditor

device == <<ready, timers>>
dialog == <<manageOpen, manageTab>>
power == <<powerHistory, powerHistoryLoading>>
list == <<timerxTimers, timerxLoading>>
edits == <<timerxError, timerxPending, timerEditor>>
vars == <<device, ops, dialog, power, list, edits>>

AvailableTabs ==
  {"schedules", "diagnostics"} \cup (IF IsSmartLight THEN {"color"} ELSE {}) \cup (IF IsPlugLike THEN {"power"} ELSE {})

\* at: what it awaits, "write" (set, patch or delete), "list" or the "reply" to the
\* list request.  alone: no other write has been under way since it started.
Op(kind, at, id, mode, value, alone) ==
  [kind |-> kind, at |-> at, id |-> id, mode |-> mode, value |-> value, alone |-> alone, reply |-> None]

Overlapped == [o \in DOMAIN ops |-> [ops[o] EXCEPT !.alone = FALSE]]

Start(kind, at, id, mode, value) ==
  \E o \in Slots \ DOMAIN ops :
    ops' = Put(Overlapped, o, Op(kind, at, id, mode, value, {p \in DOMAIN ops : ops[p].kind # "power"} = {}))

-----------------------------------------------------------------------------
(* The dialog *)

RefreshTimerX ==
  /\ Start("list", "list", None, None, None)
  /\ timerxError' = FALSE /\ timerxLoading' = TRUE
  /\ UNCHANGED <<powerHistory, powerHistoryLoading, timerxTimers>>

RefreshPowerHistory ==
  /\ Start("power", "list", None, None, None)
  /\ powerHistoryLoading' = TRUE
  /\ UNCHANGED <<powerHistory, list, timerxError>>

StartFetchForTab(tab) ==
  CASE tab = "schedules" /\ ready -> RefreshTimerX
    [] tab = "power" /\ ready -> RefreshPowerHistory
    [] OTHER -> UNCHANGED <<ops, power, list, timerxError>>

\* openManage with normalizeTab.
OpenManage(tab) ==
  /\ ~manageOpen
  /\ manageOpen' = TRUE /\ manageTab' = tab
  /\ StartFetchForTab(tab)
  /\ UNCHANGED <<device, timerxPending, timerEditor>>

SelectTab(tab) ==
  /\ manageOpen /\ tab # manageTab
  /\ manageTab' = tab
  /\ StartFetchForTab(tab)
  /\ UNCHANGED <<device, manageOpen, timerxPending, timerEditor>>

\* onOpenChange(false); what is under way goes on.
CloseManage ==
  /\ manageOpen
  /\ manageOpen' = FALSE
  /\ timerEditor' = None /\ timerxError' = FALSE
  /\ UNCHANGED <<device, ops, manageTab, power, list, timerxPending>>

InTimers == manageOpen /\ manageTab = "schedules"

RefreshButton ==
  /\ InTimers /\ ready /\ ~timerxLoading
  /\ RefreshTimerX
  /\ UNCHANGED <<device, dialog, timerxPending, timerEditor>>

RefreshHistoryButton ==
  /\ manageOpen /\ manageTab = "power" /\ ready /\ ~powerHistoryLoading
  /\ RefreshPowerHistory
  /\ UNCHANGED <<device, dialog, timerxPending, timerEditor>>

-----------------------------------------------------------------------------
(* The timer editor *)

Edit(editor) ==
  /\ InTimers
  /\ timerEditor' = editor
  /\ UNCHANGED <<device, ops, dialog, power, list, timerxError, timerxPending>>

\* randomTimerId gives an id no timer has.
NewTimer == ready /\ \E id \in Ids \ DOMAIN timers, v \in Values :
              Edit([mode |-> "create", id |-> id, value |-> v])

EditTimer(id) ==
  /\ ready /\ timerxTimers # None /\ id \in DOMAIN timerxTimers
  /\ Edit([mode |-> "edit", id |-> id, value |-> timerxTimers[id]])

CancelEdit == timerEditor # None /\ Edit(None)

\* Typing, into the id as well.
ChangeField ==
  /\ timerEditor # None
  /\ \E id \in Ids \cup {Blank}, v \in Values : Edit([timerEditor EXCEPT !.id = id, !.value = v])

SaveTimer ==
  /\ InTimers /\ timerEditor # None /\ ready
  /\ <<timerEditor.id, "save">> \notin timerxPending
  /\ IF timerEditor.id = Blank
     THEN timerxError' = TRUE /\ UNCHANGED <<ops, timerxPending>>
     ELSE /\ Start("save", "write", timerEditor.id, timerEditor.mode, timerEditor.value)
          /\ timerxError' = FALSE
          /\ timerxPending' = timerxPending \cup {<<timerEditor.id, "save">>}
  /\ UNCHANGED <<device, dialog, power, list, timerEditor>>

DeleteTimer(id) ==
  /\ InTimers /\ ready /\ timerxTimers # None /\ id \in DOMAIN timerxTimers
  /\ <<id, "delete">> \notin timerxPending
  /\ Start("delete", "write", id, None, None)
  /\ timerxError' = FALSE
  /\ timerxPending' = timerxPending \cup {<<id, "delete">>}
  /\ UNCHANGED <<device, dialog, power, list, timerEditor>>

-----------------------------------------------------------------------------
(* The server and the device *)

At(o, at) == o \in DOMAIN ops /\ ops[o].at = at

Awaits(o, at) == ops' = [ops EXCEPT ![o].at = at]

\* What a write may do to the timers: nothing, also when it is reported as done.
Written(o) ==
  LET id == ops[o].id IN
  CASE ops[o].kind = "delete" ->
         {timers, Drop(timers, id)} \cup (IF id \in DOMAIN timers THEN {Put(timers, id, Disabled)} ELSE {})
    [] ops[o].mode = "edit" /\ id \notin DOMAIN timers -> {timers}
    [] OTHER -> {timers, Put(timers, id, ops[o].value)}

\* A fault: the list is requested together with the write.
M_WriteHandled(o) ==
  /\ At(o, "write")
  /\ ops[o].mode = "create" \/ ops[o].id \in DOMAIN timers
  /\ timers' \in Written(o)
  /\ ops' = [ops EXCEPT ![o].at = "reply", ![o].reply = timers]
  /\ UNCHANGED <<ready, dialog, power, list, edits>>

\* A patch or a delete of a timer that is not there is an error.
WriteHandled(o) ==
  /\ At(o, "write")
  /\ ops[o].mode = "create" \/ ops[o].id \in DOMAIN timers
  /\ timers' \in Written(o)
  /\ Awaits(o, "list")
  /\ UNCHANGED <<ready, dialog, power, list, edits>>

ListHandled(o) ==
  /\ At(o, "list")
  /\ ops' = [ops EXCEPT ![o].at = "reply", ![o].reply = timers]
  /\ UNCHANGED <<device, dialog, power, list, edits>>

-----------------------------------------------------------------------------
(* The rest of the functions *)

\* A fault: the mark is taken back only on success.
M_ClearPending(o, done) ==
  timerxPending' = IF done THEN timerxPending \ {<<ops[o].id, ops[o].kind>>} ELSE timerxPending

\* finally { ... }: timerxPending of the button pressed.
ClearPending(o, done) == timerxPending' = timerxPending \ {<<ops[o].id, ops[o].kind>>}

\* The answer to the list request.
ListShown(o) ==
  /\ At(o, "reply") /\ ops[o].kind # "power"
  /\ timerxTimers' = ops[o].reply
  /\ timerxLoading' = IF ops[o].kind = "list" THEN FALSE ELSE timerxLoading
  /\ timerEditor' = IF ops[o].kind = "save" THEN None ELSE timerEditor
  /\ ClearPending(o, TRUE)
  /\ ops' = Drop(ops, o)
  /\ UNCHANGED <<device, dialog, power, timerxError>>

\* A fault: the editor is closed in `finally`.
M_RequestFailed(o) ==
  /\ o \in DOMAIN ops /\ ops[o].kind # "power"
  /\ timers' \in IF ops[o].at = "write" THEN Written(o) ELSE {timers}
  /\ timerxError' = TRUE
  /\ timerxLoading' = IF ops[o].kind = "list" THEN FALSE ELSE timerxLoading
  /\ timerEditor' = IF ops[o].kind = "save" THEN None ELSE timerEditor
  /\ ClearPending(o, FALSE)
  /\ ops' = Drop(ops, o)
  /\ UNCHANGED <<ready, dialog, power, timerxTimers>>

\* A fault: the error path leaves the loading mark.
M_RequestFailedLoading(o) ==
  /\ o \in DOMAIN ops /\ ops[o].kind # "power"
  /\ timers' \in IF ops[o].at = "write" THEN Written(o) ELSE {timers}
  /\ timerxError' = TRUE
  /\ ClearPending(o, FALSE)
  /\ ops' = Drop(ops, o)
  /\ UNCHANGED <<ready, dialog, power, list, timerEditor>>

\* One of the requests failed, whether or not the device did what it was asked.
RequestFailed(o) ==
  /\ o \in DOMAIN ops /\ ops[o].kind # "power"
  /\ timers' \in IF ops[o].at = "write" THEN Written(o) ELSE {timers}
  /\ timerxError' = TRUE
  /\ timerxLoading' = IF ops[o].kind = "list" THEN FALSE ELSE timerxLoading
  /\ ClearPending(o, FALSE)
  /\ ops' = Drop(ops, o)
  /\ UNCHANGED <<ready, dialog, power, timerxTimers, timerEditor>>

HistoryShown(o) ==
  /\ At(o, "reply") /\ ops[o].kind = "power"
  /\ powerHistory' \in {"points", "error"}
  /\ powerHistoryLoading' = FALSE
  /\ ops' = Drop(ops, o)
  /\ UNCHANGED <<device, dialog, list, edits>>

\* The inventory region of the devices machine finds or loses the address.
HostChanges ==
  /\ ready' = ~ready
  /\ UNCHANGED <<timers, ops, dialog, power, list, edits>>

Init ==
  /\ ready = TRUE
  /\ timers \in MapsOf(Ids, Values)
  /\ ops = EmptyMap
  /\ manageOpen = FALSE /\ manageTab = "diagnostics"
  /\ powerHistory = None /\ powerHistoryLoading = FALSE
  /\ timerxTimers = None /\ timerxLoading = FALSE
  /\ timerxError = FALSE /\ timerxPending = {} /\ timerEditor = None

Press ==
  \/ \E tab \in AvailableTabs : OpenManage(tab) \/ SelectTab(tab)
  \/ CloseManage \/ RefreshButton \/ RefreshHistoryButton
  \/ NewTimer \/ CancelEdit \/ ChangeField \/ SaveTimer
  \/ \E id \in Ids : EditTimer(id) \/ DeleteTimer(id)

Proceed(o) ==
  \/ WriteHandled(o) \/ ListHandled(o) \/ ListShown(o) \/ RequestFailed(o) \/ HistoryShown(o)

Next == Press \/ HostChanges \/ \E o \in Slots : Proceed(o)

Spec == Init /\ [][Next]_vars

-----------------------------------------------------------------------------
(* Properties *)

\* A button that says "Saving" or "Deleting" stands for exactly one function under
\* way: no timer is saved twice at once and no mark outlives its function, also
\* when the dialog is closed or the editor's id is changed meanwhile.
PendingExact ==
  LET writes == {o \in DOMAIN ops : ops[o].kind \in {"save", "delete"}} IN
  /\ timerxPending = {<<ops[o].id, ops[o].kind>> : o \in writes}
  /\ \A o, p \in writes : ops[o].id = ops[p].id /\ ops[o].kind = ops[p].kind => o = p

\* A function that was never overtaken by another leaves the device's timers on the
\* screen when it succeeds.
SerialListShown ==
  [][\A o \in DOMAIN ops : o \notin DOMAIN ops' /\ ops[o].alone /\ ~timerxError' /\ ops[o].kind # "power" =>
       timerxTimers' = timers']_vars

\* A failure does not cost the user what was typed.
ErrorKeepsEditor == [][~timerxError /\ timerxError' => timerEditor' = timerEditor]_vars

\* "Refreshing", which disables the button, is backed by a request under way: once all
\* have ended, both lists can be refreshed again.
LoadingBacked ==
  /\ timerxLoading => \E o \in DOMAIN ops : ops[o].kind = "list"
  /\ powerHistoryLoading => \E o \in DOMAIN ops : ops[o].kind = "power"

\* The other way round.  This does not hold: selecting a tab starts a request whether or
\* not one is under way, and the first to end takes back the mark of both.
LoadingComplete ==
  \A o \in DOMAIN ops :
    (ops[o].kind = "list" => timerxLoading) /\ (ops[o].kind = "power" => powerHistoryLoading)
=============================================================================
