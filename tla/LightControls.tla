---------------------------- MODULE LightControls ----------------------------
(***************************************************************************)
(* The brightness, temperature and colour controls of apps/web/src/views/  *)
(* devices/SmartLightControls.tsx: the panel of the dialog and the widget  *)
(* of the card (of which SmartLightQuickStrip is a copy), mounted for one  *)
(* light, and POST /api/device/light behind them.  A panel is unmounted    *)
(* when its tab or the dialog is closed, or the address of the light is    *)
(* lost; its commands go on.                                               *)
(*                                                                         *)
(* The fields have one scale, 0 .. Top, for 0 .. 100 and 0 .. 0xffffff.    *)
(* Every command turns the light on; no control depends on whether it is.  *)
(***************************************************************************)
EXTENDS Naturals, Maps

CONSTANTS
  Slots,     \* bound: commands under way
  Tints,     \* the fields beside the brightness: temperature and rgb
  Top,       \* greatest valid value
  Default,   \* shown for a field the device does not report
  Missing,   \* such a field, the same ones for the life of a device
  Reports    \* what it may report of the others, also beyond the range of the controls

VARIABLES
  light,      \* the device: field -> value
  reported,   \* the light state the client last received
  draft,      \* mounted panel -> field -> the position of the control
  dragging,   \* controls that are being moved; for the widget's a history, it keeps no mark
  busy,       \* panels that wait for an answer
  sent,       \* slot -> a command under way: its panel and patch, and whether the
              \* panel that sent it is the one mounted now
  mine        \* history: controls the user moved since the last report changed them

vars == <<light, reported, draft, dragging, busy, sent, mine>>

Panels == {"controls", "widget"}
Fields == {"luminance"} \cup Tints
ControlsOf(p) == IF p = "controls" THEN Fields ELSE {"luminance"}
Controls == {c \in Panels \X Fields : c[2] \in ControlsOf(c[1])}
Mounted == DOMAIN draft

Clamp(n) == IF n > Top THEN Top ELSE n

\* deviceLum, deviceTemp, deviceRgb
DeviceValue(v) == IF v = Missing THEN Default ELSE Clamp(v)

\* What the controls of a panel show when it is mounted.
Fresh(p) == [f \in ControlsOf(p) |-> DeviceValue(reported[f])]

-----------------------------------------------------------------------------
(* Mounting *)

\* A new instance: nothing is dragged, and it is not busy whatever is under way.
Mount(p) ==
  /\ p \notin Mounted
  /\ draft' = Put(draft, p, Fresh(p))
  /\ UNCHANGED <<light, reported, dragging, busy, sent, mine>>

\* Its state is gone, its commands are not.
Unmount(p) ==
  /\ p \in Mounted
  /\ draft' = Drop(draft, p)
  /\ dragging' = {c \in dragging : c[1] # p}
  /\ busy' = busy \ {p}
  /\ sent' = [s \in DOMAIN sent |-> [sent[s] EXCEPT !.here = @ /\ sent[s].panel # p]]
  /\ mine' = {c \in mine : c[1] # p}
  /\ UNCHANGED <<light, reported>>

-----------------------------------------------------------------------------
(* Commands *)

\* sendLight: the patch is clamped here and by the handler.
SendLight(p, patch) ==
  /\ p \in Mounted \ busy
  /\ busy' = busy \cup {p}
  /\ \E s \in Slots \ DOMAIN sent :
       sent' = Put(sent, s, [panel |-> p, patch |-> [f \in DOMAIN patch |-> Clamp(patch[f])], here |-> TRUE])

\* Temperature and colour go with the brightness of the slider.
PatchOf(p, f, v) ==
  IF f = "luminance" THEN [luminance |-> v] ELSE [x \in {"luminance", f} |-> IF x = f THEN v ELSE draft[p].luminance]

Move(p, f, v) ==
  /\ p \in Mounted
  /\ draft' = [draft EXCEPT ![p][f] = v]
  /\ mine' = mine \cup {<<p, f>>}

\* onChange; a control is disabled while its panel waits.
Drag(p, f, v) ==
  /\ p \notin busy
  /\ dragging' = dragging \cup {<<p, f>>}
  /\ Move(p, f, v)
  /\ UNCHANGED <<light, reported, busy, sent>>

\* onChangeEnd, by a key or at the end of a drag.
ChangeEnd(p, f, v) ==
  /\ dragging' = dragging \ {<<p, f>>}
  /\ Move(p, f, v)
  /\ SendLight(p, PatchOf(p, f, v))
  /\ UNCHANGED <<light, reported>>

\* The buttons for three temperatures and six colours.
Preset(f, v) ==
  /\ f # "luminance"
  /\ Move("controls", f, v)
  /\ SendLight("controls", PatchOf("controls", f, v))
  /\ UNCHANGED <<light, reported, dragging>>

\* The slider follows when the device reports it.
Dim ==
  /\ SendLight("controls", [luminance |-> 0])
  /\ UNCHANGED <<light, reported, draft, dragging, mine>>

-----------------------------------------------------------------------------
(* The handler and the device *)

\* What the device makes of a patch it accepts.
Accepted(patch) == [f \in Fields |-> IF f \in DOMAIN patch /\ light[f] # Missing THEN patch[f] ELSE light[f]]

\* A fault: the mark is one for all instances of the panel.
M_Settle(s) ==
  /\ busy' = busy \ {sent[s].panel}
  /\ sent' = Drop(sent, s)

\* finally { setBusy(false) }, which does nothing in an instance that was unmounted.
Settle(s) ==
  /\ busy' = IF sent[s].here THEN busy \ {sent[s].panel} ELSE busy
  /\ sent' = Drop(sent, s)

\* A device that refuses says so in an answer nobody looks at.
LightSet(s) ==
  /\ s \in DOMAIN sent
  /\ \/ light' = Accepted(sent[s].patch)
     \/ UNCHANGED light
  /\ Settle(s)
  /\ UNCHANGED <<reported, draft, dragging, mine>>

\* A fault: the error path leaves the panel busy.
M_SendFailed(s) ==
  /\ s \in DOMAIN sent
  /\ sent' = Drop(sent, s)
  /\ UNCHANGED <<light, reported, draft, dragging, busy, mine>>

\* An error, or no answer to a command that was carried out.  The control stays
\* where the user left it.
SendFailed(s) ==
  /\ s \in DOMAIN sent
  /\ \/ light' = Accepted(sent[s].patch)
     \/ UNCHANGED light
  /\ Settle(s)
  /\ UNCHANGED <<reported, draft, dragging, mine>>

\* The vendor's app, a switch, another client.
DeviceChanges ==
  /\ \E f \in Fields, v \in Reports : light[f] # Missing /\ light' = [light EXCEPT ![f] = v]
  /\ UNCHANGED <<reported, draft, dragging, busy, sent, mine>>

\* A fault: one dragging mark for all controls.
M_Follows(p, f, old, new) ==
  /\ DeviceValue(new[f]) # DeviceValue(old[f])
  /\ p = "controls" => \A g \in Fields : <<p, g>> \notin dragging

\* The effects on deviceLum, deviceTemp and deviceHex; the widget's looks at no mark.
Follows(p, f, old, new) ==
  /\ DeviceValue(new[f]) # DeviceValue(old[f])
  /\ p = "controls" => <<p, f>> \notin dragging

\* The stream brings a newer state.
Report ==
  /\ reported # light
  /\ reported' = light
  /\ draft' = [p \in Mounted |-> [f \in ControlsOf(p) |->
       IF Follows(p, f, reported, light) THEN DeviceValue(light[f]) ELSE draft[p][f]]]
  /\ mine' = {c \in mine : ~Follows(c[1], c[2], reported, light)}
  /\ UNCHANGED <<light, dragging, busy, sent>>

Init ==
  /\ light \in [Fields -> Reports \cup {Missing}]
  /\ reported \in {light, [f \in Fields |-> Missing]}
  /\ draft = EmptyMap /\ dragging = {} /\ busy = {} /\ sent = EmptyMap /\ mine = {}

Next ==
  \/ \E c \in Controls, v \in 0 .. Top : Drag(c[1], c[2], v) \/ ChangeEnd(c[1], c[2], v)
  \/ \E f \in Fields, v \in 0 .. Top : Preset(f, v)
  \/ Dim \/ Report \/ DeviceChanges
  \/ \E s \in Slots : LightSet(s) \/ SendFailed(s)
  \/ \E p \in Panels : Mount(p) \/ Unmount(p)

Spec == Init /\ [][Next]_vars

-----------------------------------------------------------------------------
(* Properties *)

\* Each control of a mounted panel shows what was last reported, unless the user
\* moved that very control and no changed report came in since, whichever panel or
\* client sent what, and whatever was shown before the panel was mounted.
ControlsFollowReports ==
  \A c \in Controls : c[1] \in Mounted => c \in mine \/ draft[c[1]][c[2]] = DeviceValue(reported[c[2]])

\* A panel is disabled exactly while the one command it has sent since it was mounted
\* is under way, however that ends and whatever is left of an earlier mount.
BusyExact ==
  LET own == {s \in DOMAIN sent : sent[s].here} IN
  /\ busy = {sent[s].panel : s \in own}
  /\ \A s, t \in own : sent[s].panel = sent[t].panel => s = t

\* No two commands of a panel are under way at once.  This does not hold: a panel
\* that is unmounted and mounted again takes the next command while the last one of
\* its predecessor may still be carried out, after the newer one.
OneCommandPerPanel ==
  \A s, t \in DOMAIN sent : sent[s].panel = sent[t].panel => s = t

\* A report does not move a control that is being moved.  This holds of the dialog's
\* controls and not of the widget's slider.
NoJump == [][Report => \A c \in dragging : draft'[c[1]][c[2]] = draft[c[1]][c[2]]]_vars
=============================================================================
