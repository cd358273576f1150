--------------------------- MODULE TriggerEditor ---------------------------
(***************************************************************************)
(* The triggers tab of apps/web/src/views/devices/DeviceCard.tsx: the list *)
(* of trigger ids, and one text area with the JSON of the active one.      *)
(* The address of the device is known: all buttons are disabled otherwise. *)
(***************************************************************************)
EXTENDS Naturals, FiniteSets, Maps

CONSTANTS
  Slots,    \* bound: functions of the tab that await a request
  Ids,
  Bare,     \* the rule that has nothing but an id (and enable)
  Rules,    \* complete rules
  None, Garbage   \* no text; a text that is no rule

VARIABLES
  triggers,         \* id -> rule, on the device
  ops,              \* slot -> a function under way
  triggerxDigest,   \* the ids shown
  activeTriggerId,
  triggerJson,      \* None, Garbage or an id and a rule
  triggerxLoading, triggerxPending, triggerxError,
  typed,            \* history: the text was typed, not put there by the program
  overtaken         \* history: a save ended, and the text shown was not the one it saved

text == <<activeTriggerId, triggerJson, typed, overtaken>>
marks == <<triggerxLoading, triggerxPending, triggerxError>>
vars == <<triggers, ops, triggerxDigest, text, marks>>

Json(id, rule) == [id |-> id, rule |-> rule]
Texts == {None, Garbage} \cup [id : Ids, rule : Rules \cup {Bare}]

\* alone: no other function has been under way since it started.
Op(kind, at, id, json, alone) ==
  [kind |-> kind, at |-> at, id |-> id, json |-> json, alone |-> alone, reply |-> None]

Overlapped == [o \in DOMAIN ops |-> [ops[o] EXCEPT !.alone = FALSE]]

Start(kind, at, id, json) ==
  \E o \in Slots \ DOMAIN ops :
    ops' = Put(Overlapped, o, Op(kind, at, id, json, DOMAIN ops = {}))

\* The program writes the text and the name above it.
Show(id, json) ==
  /\ activeTriggerId' = id /\ triggerJson' = json
  /\ typed' = FALSE /\ overtaken' = FALSE

-----------------------------------------------------------------------------
(* Buttons *)

\* refreshTriggerX: by the button, or because the tab of the dialog was selected.
Refresh ==
  /\ Start("list", "list", None, None)
  /\ triggerxError' = FALSE /\ triggerxLoading' = TRUE
  /\ UNCHANGED <<triggers, triggerxDigest, text, triggerxPending>>

SelectTrigger(id) ==
  /\ id \in triggerxDigest
  /\ Show(id, Json(id, Bare))
  /\ UNCHANGED <<triggers, ops, triggerxDigest, marks>>

\* The id is random.
NewTrigger ==
  /\ \E id \in Ids \ DOMAIN triggers : Show(id, Json(id, Bare))
  /\ UNCHANGED <<triggers, ops, triggerxDigest, marks>>

Type ==
  /\ triggerJson' \in Texts
  /\ typed' = TRUE
  /\ UNCHANGED <<triggers, ops, triggerxDigest, activeTriggerId, overtaken, marks>>

\* onOpenChange(false): of this tab only the error is cleared.
CloseManage ==
  /\ triggerxError /\ triggerxError' = FALSE
  /\ UNCHANGED <<triggers, ops, triggerxDigest, text, triggerxLoading, triggerxPending>>

Delete ==
  /\ activeTriggerId # None /\ <<activeTriggerId, "delete">> \notin triggerxPending
  /\ Start("delete", "write", activeTriggerId, None)
  /\ triggerxError' = FALSE
  /\ triggerxPending' = triggerxPending \cup {<<activeTriggerId, "delete">>}
  /\ UNCHANGED <<triggers, triggerxDigest, text, triggerxLoading>>

\* Not disabled while a save is under way.
Save ==
  /\ IF triggerJson \in {None, Garbage}
     THEN triggerxError' = TRUE /\ UNCHANGED <<ops, triggerxPending>>
     ELSE /\ Start("save", "write", triggerJson.id, triggerJson)
          /\ triggerxError' = FALSE
          /\ triggerxPending' = triggerxPending \cup {<<triggerJson.id, "save">>}
  /\ UNCHANGED <<triggers, triggerxDigest, text, triggerxLoading>>

-----------------------------------------------------------------------------
(* Requests and the rest of the functions *)

At(o, at) == o \in DOMAIN ops /\ ops[o].at = at

\* set writes the object as it is, or the device refuses it; delete removes the
\* trigger, or disables it and writes back the rule, or {id} if it has none.
Written(o) ==
  LET id == ops[o].id IN
  IF ops[o].kind = "save"
  THEN {triggers, Put(triggers, id, ops[o].json.rule)}
  ELSE {Drop(triggers, id), Put(triggers, id, IF id \in DOMAIN triggers THEN triggers[id] ELSE Bare)}

\* A fault: the list is requested together with the write.
M_WriteHandled(o) ==
  /\ At(o, "write")
  /\ triggers' \in Written(o)
  /\ ops' = [ops EXCEPT ![o].at = "reply", ![o].reply = triggers]
  /\ UNCHANGED <<triggerxDigest, text, marks>>

WriteHandled(o) ==
  /\ At(o, "write")
  /\ triggers' \in Written(o)
  /\ ops' = [ops EXCEPT ![o].at = "list"]
  /\ UNCHANGED <<triggerxDigest, text, marks>>

ListHandled(o) ==
  /\ At(o, "list")
  /\ ops' = [ops EXCEPT ![o].at = "reply", ![o].reply = triggers]
  /\ UNCHANGED <<triggers, triggerxDigest, text, marks>>

\* finally { ... }
Finally(o) ==
  /\ ops' = Drop(ops, o)
  /\ triggerxLoading' = IF ops[o].kind = "list" THEN FALSE ELSE triggerxLoading
  /\ triggerxPending' = triggerxPending \ {<<ops[o].id, ops[o].kind>>}

\* The first id of the digest is selected, over whatever is in the text area; an
\* empty digest leaves the text alone.
ListDone(o) ==
  /\ At(o, "reply") /\ ops[o].kind = "list"
  /\ triggerxDigest' = DOMAIN ops[o].reply
  /\ IF ops[o].reply = EmptyMap
     THEN UNCHANGED text
     ELSE \E first \in DOMAIN ops[o].reply : Show(first, Json(first, ops[o].reply[first]))
  /\ Finally(o)
  /\ UNCHANGED <<triggers, triggerxError>>

\* A fault: the text stays.
M_DeleteDone(o) ==
  /\ At(o, "reply") /\ ops[o].kind = "delete"
  /\ triggerxDigest' = DOMAIN ops[o].reply
  /\ activeTriggerId' = None
  /\ Finally(o)
  /\ UNCHANGED <<triggers, triggerJson, typed, overtaken, triggerxError>>

DeleteDone(o) ==
  /\ At(o, "reply") /\ ops[o].kind = "delete"
  /\ triggerxDigest' = DOMAIN ops[o].reply
  /\ Show(None, None)
  /\ Finally(o)
  /\ UNCHANGED <<triggers, triggerxError>>

\* The id that was saved is put above whatever text is there by now.
SaveDone(o) ==
  /\ At(o, "reply") /\ ops[o].kind = "save"
  /\ triggerxDigest' = DOMAIN ops[o].reply
  /\ activeTriggerId' = ops[o].id
  /\ overtaken' = (overtaken \/ triggerJson # ops[o].json)
  /\ Finally(o)
  /\ UNCHANGED <<triggers, triggerJson, typed, triggerxError>>

\* A fault: Save and Delete take back each other's marks.
M_RequestFailed(o) ==
  /\ o \in DOMAIN ops
  /\ triggers' \in IF ops[o].at = "write" THEN Written(o) \cup {triggers} ELSE {triggers}
  /\ triggerxError' = TRUE
  /\ ops' = Drop(ops, o)
  /\ triggerxLoading' = IF ops[o].kind = "list" THEN FALSE ELSE triggerxLoading
  /\ triggerxPending' = triggerxPending \ {<<ops[o].id, "save">>, <<ops[o].id, "delete">>}
  /\ UNCHANGED <<triggerxDigest, text>>

RequestFailed(o) ==
  /\ o \in DOMAIN ops
  /\ triggers' \in IF ops[o].at = "write" THEN Written(o) \cup {triggers} ELSE {triggers}
  /\ triggerxError' = TRUE
  /\ Finally(o)
  /\ UNCHANGED <<triggerxDigest, text>>

Init ==
  /\ triggers \in MapsOf(Ids, Rules)
  /\ ops = EmptyMap /\ triggerxDigest = {}
  /\ activeTriggerId = None /\ triggerJson = None /\ typed = FALSE /\ overtaken = FALSE
  /\ triggerxLoading = FALSE /\ triggerxPending = {} /\ triggerxError = FALSE

Next ==
  \/ Refresh \/ NewTrigger \/ Type \/ CloseManage \/ Delete \/ Save
  \/ \E id \in Ids : SelectTrigger(id)
  \/ \E o \in Slots :
       WriteHandled(o) \/ ListHandled(o) \/ ListDone(o) \/ DeleteDone(o) \/ SaveDone(o) \/ RequestFailed(o)

Spec == Init /\ [][Next]_vars

-----------------------------------------------------------------------------
(* Properties *)

Matching == IF triggerJson = None THEN activeTriggerId = None ELSE triggerJson.id = activeTriggerId

\* The text below "Trigger JSON (id)", which Save sends, is a rule of that trigger,
\* which Delete deletes, unless the user typed in it, or a save has ended whose text
\* was no longer there: several refreshes, deletes and choices in any order do not
\* part them, and neither does the end of a save that was not overtaken.
JsonMatchesActive == typed \/ overtaken \/ Matching

\* The same whatever a save meets when it ends.  This does not hold.
JsonAlwaysMatches == typed \/ Matching

\* Each trigger marked "Deleting" has exactly one delete under way.
DeletePendingExact ==
  LET deletes == {o \in DOMAIN ops : ops[o].kind = "delete"} IN
  /\ {p \in triggerxPending : p[2] = "delete"} = {<<ops[o].id, "delete">> : o \in deletes}
  /\ \A o, p \in deletes : ops[o].id = ops[p].id => o = p

\* Each mark that disables a button or says "Saving" is backed by a function under way.
MarksBacked ==
  /\ triggerxLoading => \E o \in DOMAIN ops : ops[o].kind = "list"
  /\ \A p \in triggerxPending : \E o \in DOMAIN ops : p = <<ops[o].id, ops[o].kind>>

\* The other way round.  This does not hold: the first of two refreshes, or of two saves
\* of one trigger, takes back the mark of both.
MarksComplete ==
  \A o \in DOMAIN ops :
    IF ops[o].kind = "list" THEN triggerxLoading ELSE <<ops[o].id, ops[o].kind>> \in triggerxPending

\* A function that was alone from start to end and succeeds leaves the ids on the screen
\* that the device has, and a refresh also the device's own rule of the trigger it names.
SerialTriggersShown ==
  [][\A o \in DOMAIN ops \ DOMAIN ops' : ops[o].alone /\ ~triggerxError' =>
       /\ triggerxDigest' = DOMAIN triggers'
       /\ ops[o].kind = "list" /\ triggers' # EmptyMap =>
            activeTriggerId' \in DOMAIN triggers' /\ triggerJson' = Json(activeTriggerId', triggers'[activeTriggerId'])]_vars

\* set-device-triggerx.ts: the rule is updated "by sending a full trigger object":
\* what the program itself put into the text and Save sends is complete.
SavesFullObject ==
  [][Cardinality(DOMAIN ops') > Cardinality(DOMAIN ops) /\ ~typed =>
       \A o \in DOMAIN ops' \ DOMAIN ops :
         ops'[o].kind = "save" /\ ops'[o].id \in DOMAIN triggers /\ triggers[ops'[o].id] # Bare =>
           ops'[o].json.rule # Bare]_vars
=============================================================================
