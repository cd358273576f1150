---------------------------- MODULE ViewsProofs ----------------------------
(* Theorems about the views of a device, for every set of timers, triggers   *)
(* and values and every number of functions under way.                       *)
EXTENDS MCViews, TLAPS

-----------------------------------------------------------------------------
(* The controls of a light *)

\* What a panel may send.
Patch == UNION {[some -> 0 .. Top] : some \in SUBSET Light!Fields}

Command == [panel : Light!Panels, patch : Patch, here : BOOLEAN]

\* What a device says of a field.
Reported == Reports \cup {Missing}

\* A control of the dialog that is being moved is the user's.
DraggingMine == \A c \in dragging : c[1] = "controls" => c \in mine

\* The commands that panels mounted now have sent.
Own == {s \in DOMAIN sent : sent[s].here}

\* A mounted panel has its controls in range, and the commands under way are patches.
LightInv ==
  /\ light \in [Light!Fields -> Reported] /\ reported \in [Light!Fields -> Reported]
  /\ DOMAIN draft \subseteq Light!Panels
  /\ \A p \in DOMAIN draft : draft[p] \in [Light!ControlsOf(p) -> 0 .. Top]
  /\ DOMAIN sent \subseteq Slots
  /\ \A s \in DOMAIN sent : sent[s] \in Command
  /\ dragging \subseteq Light!Controls /\ DraggingMine
  /\ Light!BusyExact
  /\ Light!ControlsFollowReports

\* What is shown of a report is in the range of the controls.
LEMMA DeviceValueInRange ==
  ASSUME NEW v \in Reported
  PROVE  Light!DeviceValue(v) \in 0 .. Top
BY LightAssumption DEF Reported, Light!DeviceValue, Light!Clamp

\* The controls of a panel are fields.
LEMMA PanelControls ==
  /\ Light!Panels = {"controls", "widget"} /\ "luminance" \in Light!Fields
  /\ Light!ControlsOf("controls") = Light!Fields /\ Light!ControlsOf("widget") = {"luminance"}
  /\ \A p \in Light!Panels : Light!ControlsOf(p) \subseteq Light!Fields
  /\ \A c \in Light!Controls : c[1] \in Light!Panels /\ c[2] \in Light!Fields
                               /\ c[2] \in Light!ControlsOf(c[1]) /\ c = <<c[1], c[2]>>
BY DEF Light!Panels, Light!Fields, Light!ControlsOf, Light!Controls

\* A command is clamped to a patch, and is the only one its panel has sent.
LEMMA SendLightTyped ==
  ASSUME LightInv, NEW p \in Light!Panels, NEW some \in SUBSET Light!Fields,
         NEW patch \in [some -> 0 .. Top], Light!SendLight(p, patch)
  PROVE  /\ DOMAIN sent' \subseteq Slots
         /\ \A s \in DOMAIN sent' : sent'[s] \in Command
         /\ Light!BusyExact'
<1>. DEFINE clamped == [f \in DOMAIN patch |-> Light!Clamp(patch[f])]
            cmd == [panel |-> p, patch |-> clamped, here |-> TRUE]
<1>1. p \notin busy /\ busy' = busy \cup {p}
  BY DEF Light!SendLight
<1>2. PICK new \in Slots \ DOMAIN sent : sent' = Light!Put(sent, new, cmd)
  BY DEF Light!SendLight
<1>3. \A v \in 0 .. Top : Light!Clamp(v) \in 0 .. Top
  BY LightAssumption DEF Light!Clamp
<1>4. clamped \in Patch
  <2>1. clamped \in [some -> 0 .. Top]
    BY <1>3
  <2>. QED BY <2>1 DEF Patch
<1>. HIDE DEF clamped
<1>5. cmd \in Command /\ cmd.panel = p /\ cmd.here
  BY <1>4 DEF Command
<1>. HIDE DEF cmd
<1>6. /\ DOMAIN sent' = DOMAIN sent \cup {new} /\ sent'[new] = cmd
      /\ \A s \in DOMAIN sent : sent'[s] = sent[s]
  BY <1>2 DEF Light!Put
<1>7. /\ DOMAIN sent \subseteq Slots /\ \A s \in DOMAIN sent : sent[s] \in Command
      /\ busy = {sent[s].panel : s \in Own}
      /\ \A s, t \in Own : sent[s].panel = sent[t].panel => s = t
  BY DEF LightInv, Light!BusyExact, Own
<1>8. Own' = Own \cup {new}
  BY <1>5, <1>6 DEF Own
<1>9. \A s \in Own : s \in DOMAIN sent /\ s # new /\ sent'[s] = sent[s] /\ sent[s].panel # p
  BY <1>1, <1>6, <1>7 DEF Own
<1>10. Light!BusyExact'
  <2>1. busy' = {sent'[s].panel : s \in Own'}
    BY <1>1, <1>5, <1>6, <1>7, <1>8, <1>9
  <2>2. \A s, t \in Own' : sent'[s].panel = sent'[t].panel => s = t
    BY <1>5, <1>6, <1>7, <1>8, <1>9
  <2>. QED BY <2>1, <2>2 DEF Light!BusyExact, Own
<1>. QED BY <1>5, <1>6, <1>7, <1>10

\* A control is put somewhere by the user.
LEMMA MoveTyped ==
  ASSUME LightInv, NEW p \in Light!Panels, NEW f \in Light!ControlsOf(p), NEW v \in 0 .. Top,
         Light!Move(p, f, v), UNCHANGED reported
  PROVE  /\ DOMAIN draft' \subseteq Light!Panels
         /\ \A q \in DOMAIN draft' : draft'[q] \in [Light!ControlsOf(q) -> 0 .. Top]
         /\ Light!ControlsFollowReports'
<1>1. /\ p \in DOMAIN draft
      /\ draft' = [draft EXCEPT ![p] = [draft[p] EXCEPT ![f] = v]] /\ mine' = mine \cup {<<p, f>>}
  BY DEF Light!Move, Light!Mounted
<1>2. /\ DOMAIN draft \subseteq Light!Panels
      /\ \A q \in DOMAIN draft : draft[q] \in [Light!ControlsOf(q) -> 0 .. Top]
  BY DEF LightInv
<1>3. /\ DOMAIN draft' = DOMAIN draft
      /\ \A q \in DOMAIN draft : draft'[q] \in [Light!ControlsOf(q) -> 0 .. Top]
      /\ \A q \in DOMAIN draft : \A g \in Light!ControlsOf(q) :
           <<q, g>> # <<p, f>> => draft'[q][g] = draft[q][g]
  BY <1>1, <1>2
<1>4. ASSUME NEW c \in Light!Controls, c[1] \in DOMAIN draft
      PROVE  c \in mine' \/ draft'[c[1]][c[2]] = Light!DeviceValue(reported'[c[2]])
  <2>1. c[1] \in Light!Panels /\ c[2] \in Light!ControlsOf(c[1]) /\ c = <<c[1], c[2]>>
    BY PanelControls
  <2>2. c \in mine \/ draft[c[1]][c[2]] = Light!DeviceValue(reported[c[2]])
    BY <1>4 DEF LightInv, Light!ControlsFollowReports, Light!Mounted
  <2>3. CASE <<c[1], c[2]>> = <<p, f>>
    BY <1>1, <2>1, <2>3
  <2>4. CASE <<c[1], c[2]>> # <<p, f>>
    BY <1>1, <1>3, <1>4, <2>1, <2>2, <2>4
  <2>. QED BY <2>3, <2>4
<1>. QED BY <1>2, <1>3, <1>4 DEF Light!ControlsFollowReports, Light!Mounted

\* What a panel sends with a control of its own.
LEMMA PatchTyped ==
  ASSUME LightInv, NEW p \in DOMAIN draft, NEW f \in Light!ControlsOf(p), NEW v \in 0 .. Top
  PROVE  \E some \in SUBSET Light!Fields : Light!PatchOf(p, f, v) \in [some -> 0 .. Top]
<1>1. draft[p] \in [Light!ControlsOf(p) -> 0 .. Top] /\ "luminance" \in Light!ControlsOf(p)
      /\ f \in Light!Fields
  BY PanelControls DEF LightInv
<1>2. CASE f = "luminance"
  <2>1. Light!PatchOf(p, f, v) = [luminance |-> v]
    BY <1>2 DEF Light!PatchOf
  <2>2. [luminance |-> v] \in [{"luminance"} -> 0 .. Top]
    OBVIOUS
  <2>. QED BY <1>1, <1>2, <2>1, <2>2
<1>3. CASE f # "luminance"
  <2>1. Light!PatchOf(p, f, v) = [x \in {"luminance", f} |-> IF x = f THEN v ELSE draft[p].luminance]
    BY <1>3 DEF Light!PatchOf
  <2>2. draft[p].luminance \in 0 .. Top
    BY <1>1
  <2>3. Light!PatchOf(p, f, v) \in [{"luminance", f} -> 0 .. Top]
    BY <2>1, <2>2
  <2>. QED BY <1>1, <2>3, PanelControls
<1>. QED BY <1>2, <1>3

\* Commands of the user.
LEMMA UserStep ==
  ASSUME LightInv,
         \/ \E c \in Light!Controls, v \in 0 .. Top :
              Light!Drag(c[1], c[2], v) \/ Light!ChangeEnd(c[1], c[2], v)
         \/ \E f \in Light!Fields, v \in 0 .. Top : Light!Preset(f, v)
         \/ Light!Dim
  PROVE  LightInv'
<1>0. light \in [Light!Fields -> Reported] /\ reported \in [Light!Fields -> Reported]
      /\ dragging \subseteq Light!Controls /\ DraggingMine
  BY DEF LightInv
<1>1. ASSUME NEW c \in Light!Controls, NEW v \in 0 .. Top, Light!Drag(c[1], c[2], v)
      PROVE  LightInv'
  <2>1. c[1] \in Light!Panels /\ c[2] \in Light!ControlsOf(c[1])
    BY PanelControls
  <2>2. /\ UNCHANGED <<light, reported, busy, sent>> /\ Light!Move(c[1], c[2], v)
        /\ dragging' = dragging \cup {<<c[1], c[2]>>}
    BY <1>1 DEF Light!Drag
  <2>3. /\ DOMAIN draft' \subseteq Light!Panels
        /\ \A q \in DOMAIN draft' : draft'[q] \in [Light!ControlsOf(q) -> 0 .. Top]
        /\ Light!ControlsFollowReports'
    BY <2>1, <2>2, MoveTyped
  <2>4. /\ DOMAIN sent' \subseteq Slots /\ \A s \in DOMAIN sent' : sent'[s] \in Command
        /\ Light!BusyExact'
    BY <2>2 DEF LightInv, Light!BusyExact
  <2>5. dragging' \subseteq Light!Controls /\ DraggingMine'
    BY <1>0, <2>2, PanelControls DEF Light!Move, DraggingMine
  <2>. QED BY <1>0, <2>2, <2>3, <2>4, <2>5 DEF LightInv
<1>2. ASSUME NEW p \in Light!Panels, NEW f \in Light!ControlsOf(p), NEW v \in 0 .. Top,
             Light!Move(p, f, v), Light!SendLight(p, Light!PatchOf(p, f, v)),
             UNCHANGED <<light, reported>>, dragging' \subseteq dragging
      PROVE  LightInv'
  <2>0. p \in DOMAIN draft
    BY <1>2 DEF Light!Move, Light!Mounted
  <2>1. PICK some \in SUBSET Light!Fields : Light!PatchOf(p, f, v) \in [some -> 0 .. Top]
    BY <2>0, PatchTyped
  <2>. DEFINE patch == Light!PatchOf(p, f, v)
  <2>2. patch \in [some -> 0 .. Top] /\ Light!SendLight(p, patch)
    BY <1>2, <2>1
  <2>. HIDE DEF patch
  <2>3. /\ DOMAIN sent' \subseteq Slots /\ \A s \in DOMAIN sent' : sent'[s] \in Command
        /\ Light!BusyExact'
    BY <2>2, SendLightTyped
  <2>4. /\ DOMAIN draft' \subseteq Light!Panels
        /\ \A q \in DOMAIN draft' : draft'[q] \in [Light!ControlsOf(q) -> 0 .. Top]
        /\ Light!ControlsFollowReports'
    BY <1>2, MoveTyped
  <2>5. dragging' \subseteq Light!Controls /\ DraggingMine'
    BY <1>0, <1>2 DEF Light!Move, DraggingMine
  <2>. QED BY <1>0, <1>2, <2>3, <2>4, <2>5 DEF LightInv
<1>3. ASSUME NEW c \in Light!Controls, NEW v \in 0 .. Top, Light!ChangeEnd(c[1], c[2], v)
      PROVE  LightInv'
  <2>1. c[1] \in Light!Panels /\ c[2] \in Light!ControlsOf(c[1])
    BY PanelControls
  <2>2. /\ UNCHANGED <<light, reported>> /\ Light!Move(c[1], c[2], v)
        /\ Light!SendLight(c[1], Light!PatchOf(c[1], c[2], v)) /\ dragging' \subseteq dragging
    BY <1>3 DEF Light!ChangeEnd
  <2>. QED BY <1>2, <2>1, <2>2
<1>4. ASSUME NEW f \in Light!Fields, NEW v \in 0 .. Top, Light!Preset(f, v)
      PROVE  LightInv'
  <2>1. "controls" \in Light!Panels /\ f \in Light!ControlsOf("controls")
    BY PanelControls
  <2>2. /\ UNCHANGED <<light, reported, dragging>> /\ Light!Move("controls", f, v)
        /\ Light!SendLight("controls", Light!PatchOf("controls", f, v))
    BY <1>4 DEF Light!Preset
  <2>. QED BY <1>2, <2>1, <2>2
<1>5. ASSUME Light!Dim PROVE LightInv'
  <2>. DEFINE patch == [luminance |-> 0]
              some == {"luminance"}
  <2>1. patch \in [some -> 0 .. Top] /\ some \in SUBSET Light!Fields /\ "controls" \in Light!Panels
    BY LightAssumption, PanelControls
  <2>2. Light!SendLight("controls", patch) /\ UNCHANGED <<light, reported, draft, dragging, mine>>
    BY <1>5 DEF Light!Dim
  <2>. HIDE DEF patch, some
  <2>3. /\ DOMAIN sent' \subseteq Slots /\ \A s \in DOMAIN sent' : sent'[s] \in Command
        /\ Light!BusyExact'
    BY <2>1, <2>2, SendLightTyped
  <2>. QED BY <2>2, <2>3 DEF LightInv, DraggingMine, Light!ControlsFollowReports, Light!Mounted
<1>. QED BY <1>1, <1>3, <1>4, <1>5

\* A report moves the controls that follow it.
LEMMA ReportStep ==
  ASSUME LightInv, Light!Report
  PROVE  LightInv'
<1>1. /\ reported' = light /\ UNCHANGED <<light, dragging, busy, sent>>
      /\ draft' = [p \in DOMAIN draft |-> [f \in Light!ControlsOf(p) |->
           IF Light!Follows(p, f, reported, light) THEN Light!DeviceValue(light[f]) ELSE draft[p][f]]]
      /\ mine' = {c \in mine : ~Light!Follows(c[1], c[2], reported, light)}
  BY DEF Light!Report, Light!Mounted
<1>2. /\ light \in [Light!Fields -> Reported] /\ reported \in [Light!Fields -> Reported]
      /\ DOMAIN draft \subseteq Light!Panels
      /\ \A p \in DOMAIN draft : draft[p] \in [Light!ControlsOf(p) -> 0 .. Top]
      /\ dragging \subseteq Light!Controls /\ DraggingMine
  BY DEF LightInv
<1>3. /\ DOMAIN draft' = DOMAIN draft
      /\ \A p \in DOMAIN draft : \A f \in Light!ControlsOf(p) :
           draft'[p][f] = IF Light!Follows(p, f, reported, light) THEN Light!DeviceValue(light[f])
                                                                  ELSE draft[p][f]
  BY <1>1
<1>4. ASSUME NEW p \in DOMAIN draft PROVE draft'[p] \in [Light!ControlsOf(p) -> 0 .. Top]
  <2>1. \A f \in Light!ControlsOf(p) : Light!DeviceValue(light[f]) \in 0 .. Top
    BY <1>2, PanelControls, DeviceValueInRange
  <2>2. draft'[p] = [f \in Light!ControlsOf(p) |->
           IF Light!Follows(p, f, reported, light) THEN Light!DeviceValue(light[f]) ELSE draft[p][f]]
    BY <1>1
  <2>. QED BY <1>2, <2>1, <2>2
<1>5. ASSUME NEW c \in Light!Controls, c[1] \in DOMAIN draft
      PROVE  c \in mine' \/ draft'[c[1]][c[2]] = Light!DeviceValue(reported'[c[2]])
  <2>1. c[1] \in Light!Panels /\ c[2] \in Light!ControlsOf(c[1]) /\ c = <<c[1], c[2]>>
    BY PanelControls
  <2>2. c \in mine \/ draft[c[1]][c[2]] = Light!DeviceValue(reported[c[2]])
    BY <1>5 DEF LightInv, Light!ControlsFollowReports, Light!Mounted
  <2>3. CASE Light!Follows(c[1], c[2], reported, light)
    BY <1>1, <1>3, <1>5, <2>1, <2>3
  <2>4. CASE ~Light!Follows(c[1], c[2], reported, light)
    <3>1. draft'[c[1]][c[2]] = draft[c[1]][c[2]] /\ (c \in mine => c \in mine')
      BY <1>1, <1>3, <1>5, <2>1, <2>4
    <3>2. CASE c \in mine
      BY <3>1, <3>2
    <3>3. CASE c \notin mine
      \* A control that is being moved is the user's, so this one's report did not change.
      <4>1. ~(c[1] = "controls" /\ <<c[1], c[2]>> \in dragging)
        BY <1>2, <2>1, <3>3 DEF DraggingMine
      <4>2. Light!DeviceValue(light[c[2]]) = Light!DeviceValue(reported[c[2]])
        BY <2>4, <4>1 DEF Light!Follows
      <4>. QED BY <1>1, <2>2, <3>1, <3>3, <4>2
    <3>. QED BY <3>2, <3>3
  <2>. QED BY <2>3, <2>4
<1>6. Light!ControlsFollowReports'
  BY <1>3, <1>5 DEF Light!ControlsFollowReports, Light!Mounted
<1>7. /\ DOMAIN sent' \subseteq Slots /\ \A s \in DOMAIN sent' : sent'[s] \in Command
      /\ Light!BusyExact'
  BY <1>1 DEF LightInv, Light!BusyExact
<1>8. DraggingMine'
  <2>1. \A c \in dragging : c[1] = "controls" => ~Light!Follows(c[1], c[2], reported, light)
    <3>. SUFFICES ASSUME NEW c \in dragging, c[1] = "controls"
                  PROVE  ~Light!Follows(c[1], c[2], reported, light)
      OBVIOUS
    <3>1. c = <<c[1], c[2]>>
      BY <1>2, PanelControls
    <3>. QED BY <3>1 DEF Light!Follows
  <2>. QED BY <1>1, <1>2, <2>1 DEF DraggingMine
<1>. QED BY <1>1, <1>2, <1>3, <1>4, <1>6, <1>7, <1>8 DEF LightInv

\* A command ends: an own one frees its panel, which has sent no other.
LEMMA SettleStep ==
  ASSUME LightInv, NEW s \in DOMAIN sent, Light!Settle(s)
  PROVE  /\ DOMAIN sent' \subseteq Slots
         /\ \A t \in DOMAIN sent' : sent'[t] \in Command
         /\ Light!BusyExact'
<1>1. /\ busy' = IF sent[s].here THEN busy \ {sent[s].panel} ELSE busy
      /\ DOMAIN sent' = DOMAIN sent \ {s} /\ \A t \in DOMAIN sent' : sent'[t] = sent[t]
  BY DEF Light!Settle, Light!Drop
<1>2. /\ DOMAIN sent \subseteq Slots /\ \A t \in DOMAIN sent : sent[t] \in Command
      /\ busy = {sent[t].panel : t \in Own}
      /\ \A t, u \in Own : sent[t].panel = sent[u].panel => t = u
  BY DEF LightInv, Light!BusyExact, Own
<1>3. Own' = Own \ {s} /\ (\A t \in Own : t # s => sent'[t] = sent[t]) /\ (s \in Own <=> sent[s].here)
  BY <1>1 DEF Own
<1>4. busy' = {sent'[t].panel : t \in Own'}
  <2>1. CASE s \in Own
    BY <1>1, <1>2, <1>3, <2>1
  <2>2. CASE s \notin Own
    BY <1>1, <1>2, <1>3, <2>2
  <2>. QED BY <2>1, <2>2
<1>5. \A t, u \in Own' : sent'[t].panel = sent'[u].panel => t = u
  BY <1>2, <1>3
<1>6. Light!BusyExact'
  BY <1>4, <1>5 DEF Light!BusyExact, Own
<1>. QED BY <1>1, <1>2, <1>6

\* The light answers, or does not, or is changed by somebody else.
LEMMA DeviceStep ==
  ASSUME LightInv,
         Light!DeviceChanges \/ \E s \in Slots : Light!LightSet(s) \/ Light!SendFailed(s)
  PROVE  LightInv'
<1>1. UNCHANGED <<reported, draft, dragging, mine>>
  BY DEF Light!DeviceChanges, Light!LightSet, Light!SendFailed
<1>2. /\ light \in [Light!Fields -> Reported]
      /\ \A s \in DOMAIN sent : sent[s] \in Command
  BY DEF LightInv
<1>3. CASE Light!DeviceChanges
  <2>1. light' \in [Light!Fields -> Reported] /\ UNCHANGED <<busy, sent>>
    BY <1>2, <1>3 DEF Light!DeviceChanges, Reported
  <2>. QED BY <1>1, <2>1 DEF LightInv, DraggingMine, Light!BusyExact, Light!ControlsFollowReports, Light!Mounted
<1>4. ASSUME NEW s \in Slots, Light!LightSet(s) \/ Light!SendFailed(s)
      PROVE  LightInv'
  <2>1. /\ s \in DOMAIN sent /\ Light!Settle(s)
        /\ light' = Light!Accepted(sent[s].patch) \/ UNCHANGED light
    BY <1>4 DEF Light!LightSet, Light!SendFailed
  <2>2. PICK some \in SUBSET Light!Fields : sent[s].patch \in [some -> 0 .. Top]
    BY <1>2, <2>1 DEF Command, Patch
  <2>3. 0 .. Top \subseteq Reported
    BY LightAssumption DEF Reported
  <2>4. Light!Accepted(sent[s].patch) \in [Light!Fields -> Reported]
    BY <1>2, <2>2, <2>3 DEF Light!Accepted
  <2>5. /\ DOMAIN sent' \subseteq Slots /\ \A t \in DOMAIN sent' : sent'[t] \in Command
        /\ Light!BusyExact'
    BY <2>1, SettleStep
  <2>6. light' \in [Light!Fields -> Reported]
    BY <1>2, <2>1, <2>4
  <2>. QED BY <1>1, <2>5, <2>6 DEF LightInv, DraggingMine, Light!ControlsFollowReports, Light!Mounted
<1>. QED BY <1>3, <1>4

\* A panel is mounted with what was reported.
LEMMA MountStep ==
  ASSUME LightInv, NEW p \in Light!Panels, Light!Mount(p)
  PROVE  LightInv'
<1>1. /\ draft' = Light!Put(draft, p, Light!Fresh(p)) /\ p \notin DOMAIN draft
      /\ UNCHANGED <<light, reported, dragging, busy, sent, mine>>
  BY DEF Light!Mount, Light!Mounted
<1>2. /\ reported \in [Light!Fields -> Reported] /\ DOMAIN draft \subseteq Light!Panels
      /\ \A q \in DOMAIN draft : draft[q] \in [Light!ControlsOf(q) -> 0 .. Top]
  BY DEF LightInv
<1>3. /\ Light!Fresh(p) \in [Light!ControlsOf(p) -> 0 .. Top]
      /\ \A f \in Light!ControlsOf(p) : Light!Fresh(p)[f] = Light!DeviceValue(reported[f])
  <2>1. \A f \in Light!ControlsOf(p) : Light!DeviceValue(reported[f]) \in 0 .. Top
    BY <1>2, PanelControls, DeviceValueInRange
  <2>. QED BY <2>1 DEF Light!Fresh
<1>4. /\ DOMAIN draft' = DOMAIN draft \cup {p} /\ draft'[p] = Light!Fresh(p)
      /\ \A q \in DOMAIN draft : draft'[q] = draft[q]
  BY <1>1 DEF Light!Put
<1>5. Light!ControlsFollowReports'
  <2>. SUFFICES ASSUME NEW c \in Light!Controls, c[1] \in DOMAIN draft'
                PROVE  c \in mine' \/ draft'[c[1]][c[2]] = Light!DeviceValue(reported'[c[2]])
    BY DEF Light!ControlsFollowReports, Light!Mounted
  <2>1. CASE c[1] = p
    BY <1>1, <1>3, <1>4, <2>1, PanelControls
  <2>2. CASE c[1] # p
    BY <1>1, <1>4, <2>2 DEF LightInv, Light!ControlsFollowReports, Light!Mounted
  <2>. QED BY <2>1, <2>2
<1>6. \A q \in DOMAIN draft' : draft'[q] \in [Light!ControlsOf(q) -> 0 .. Top]
  BY <1>2, <1>3, <1>4
<1>. QED BY <1>1, <1>2, <1>4, <1>5, <1>6 DEF LightInv, DraggingMine, Light!BusyExact

\* A panel is unmounted: its commands are nobody's then.
LEMMA UnmountStep ==
  ASSUME LightInv, NEW p \in Light!Panels, Light!Unmount(p)
  PROVE  LightInv'
<1>1. /\ draft' = Light!Drop(draft, p) /\ UNCHANGED <<light, reported>>
      /\ dragging' = {c \in dragging : c[1] # p} /\ mine' = {c \in mine : c[1] # p}
      /\ busy' = busy \ {p}
      /\ sent' = [s \in DOMAIN sent |-> [sent[s] EXCEPT !.here = sent[s].here /\ sent[s].panel # p]]
  BY DEF Light!Unmount
<1>2. /\ DOMAIN draft' = DOMAIN draft \ {p} /\ \A q \in DOMAIN draft' : draft'[q] = draft[q]
  BY <1>1 DEF Light!Drop
<1>3. /\ DOMAIN draft \subseteq Light!Panels
      /\ \A q \in DOMAIN draft : draft[q] \in [Light!ControlsOf(q) -> 0 .. Top]
      /\ DOMAIN sent \subseteq Slots /\ \A s \in DOMAIN sent : sent[s] \in Command
      /\ dragging \subseteq Light!Controls /\ DraggingMine
      /\ busy = {sent[s].panel : s \in Own}
      /\ \A s, t \in Own : sent[s].panel = sent[t].panel => s = t
  BY DEF LightInv, Light!BusyExact, Own
<1>4. ASSUME NEW s \in DOMAIN sent
      PROVE  /\ sent'[s] \in Command /\ sent'[s].panel = sent[s].panel
             /\ sent'[s].here <=> sent[s].here /\ sent[s].panel # p
  <2>1. PICK q \in Light!Panels, patch \in Patch, here \in BOOLEAN :
          sent[s] = [panel |-> q, patch |-> patch, here |-> here]
    BY <1>3 DEF Command
  <2>. DEFINE still == here /\ q # p
  <2>2. sent'[s] = [panel |-> q, patch |-> patch, here |-> still]
    BY <1>1, <2>1
  <2>3. still \in BOOLEAN /\ (still <=> sent[s].here /\ sent[s].panel # p)
    BY <2>1
  <2>. HIDE DEF still
  <2>4. sent'[s] \in Command
    BY <2>2, <2>3 DEF Command
  <2>5. sent'[s].panel = sent[s].panel
    BY <2>1, <2>2
  <2>6. sent'[s].here = still
    BY <2>2
  <2>. QED BY <2>3, <2>4, <2>5, <2>6
<1>5. DOMAIN sent' = DOMAIN sent
  BY <1>1
<1>6. /\ \A s \in Own' : s \in Own /\ sent'[s].panel = sent[s].panel /\ sent[s].panel # p
      /\ \A s \in Own : sent[s].panel # p => s \in Own'
  BY <1>4, <1>5 DEF Own
<1>7. busy' = {sent'[s].panel : s \in Own'}
  BY <1>1, <1>3, <1>6
<1>8. \A s, t \in Own' : sent'[s].panel = sent'[t].panel => s = t
  BY <1>3, <1>6
<1>9. Light!BusyExact'
  BY <1>7, <1>8 DEF Light!BusyExact, Own
<1>10. Light!ControlsFollowReports'
  <2>. SUFFICES ASSUME NEW c \in Light!Controls, c[1] \in DOMAIN draft'
                PROVE  c \in mine' \/ draft'[c[1]][c[2]] = Light!DeviceValue(reported'[c[2]])
    BY DEF Light!ControlsFollowReports, Light!Mounted
  <2>1. c[1] \in DOMAIN draft /\ c[1] # p /\ draft'[c[1]] = draft[c[1]]
    BY <1>2
  <2>. QED BY <1>1, <2>1 DEF LightInv, Light!ControlsFollowReports, Light!Mounted
<1>11. dragging' \subseteq Light!Controls /\ DraggingMine'
  BY <1>1, <1>3 DEF DraggingMine
<1>12. light' \in [Light!Fields -> Reported] /\ reported' \in [Light!Fields -> Reported]
  BY <1>1 DEF LightInv
<1>. QED BY <1>2, <1>3, <1>4, <1>5, <1>9, <1>10, <1>11, <1>12 DEF LightInv

\* Every step of the light keeps its invariant.
LEMMA LightStep ==
  ASSUME LightInv, Light!Next
  PROVE  LightInv'
<1>1. CASE Light!Report
  BY <1>1, ReportStep
<1>2. CASE Light!DeviceChanges \/ \E s \in Slots : Light!LightSet(s) \/ Light!SendFailed(s)
  BY <1>2, DeviceStep
<1>3. CASE \E p \in Light!Panels : Light!Mount(p) \/ Light!Unmount(p)
  BY <1>3, MountStep, UnmountStep
<1>4. CASE \/ \E c \in Light!Controls, v \in 0 .. Top :
                Light!Drag(c[1], c[2], v) \/ Light!ChangeEnd(c[1], c[2], v)
           \/ \E f \in Light!Fields, v \in 0 .. Top : Light!Preset(f, v)
           \/ Light!Dim
  BY <1>4, UserStep
<1>. QED BY <1>1, <1>2, <1>3, <1>4 DEF Light!Next

\* The light's invariant depends on the light's variables only.
LEMMA LightKept ==
  ASSUME LightInv, UNCHANGED lightVars
  PROVE  LightInv'
BY DEF LightInv, DraggingMine, lightVars, Light!BusyExact, Light!ControlsFollowReports, Light!Mounted

\* No panel is mounted at first.
LEMMA LightInit ==
  ASSUME Light!Init
  PROVE  LightInv
BY DEF Light!Init, LightInv, DraggingMine, Reported, Light!EmptyMap, Light!BusyExact, Light!ControlsFollowReports, Light!Mounted

-----------------------------------------------------------------------------
(* The triggers tab *)

Rule == [id : Ids, rule : Rules \cup {Bare}]

\* A function under way: a save has the rule it sends, a reply is what was read.
TriggerFn(op) ==
  /\ DOMAIN op = {"kind", "at", "id", "json", "alone", "reply"} /\ op.alone \in BOOLEAN
  /\ op.kind = "save" => op.json \in Rule /\ op.json.id = op.id
  /\ op.at = "write" => op.kind \in {"save", "delete"}
  /\ op.kind \in {"save", "delete"} => op.id \in Ids
  /\ op.at = "reply" => Triggers!IsMap(op.reply, Ids, Rules \cup {Bare})

\* Deletes under way and the marks of the delete buttons, one to one.
DeletesMarked ==
  LET Deletes == {o \in DOMAIN triggerOps : triggerOps[o].kind = "delete"} IN
  /\ triggerxPending \subseteq Ids \X {"save", "delete"}
  /\ \A o \in Deletes : <<triggerOps[o].id, "delete">> \in triggerxPending
  /\ \A id \in Ids : <<id, "delete">> \in triggerxPending => \E o \in Deletes : triggerOps[o].id = id
  /\ \A o, p \in Deletes : triggerOps[o].id = triggerOps[p].id => o = p

\* A function that is alone has none beside it, so what it was given is still the device's.
AloneExact ==
  \A o \in DOMAIN triggerOps : triggerOps[o].alone =>
    /\ \A p \in DOMAIN triggerOps : p = o
    /\ triggerOps[o].at = "reply" => triggerOps[o].reply = triggers

\* The functions under way and their marks.
FnsInv ==
  /\ DOMAIN triggerOps \subseteq Slots
  /\ \A o \in DOMAIN triggerOps : TriggerFn(triggerOps[o])
  /\ DeletesMarked
  /\ AloneExact
  /\ Triggers!MarksBacked

TriggersInv ==
  /\ Triggers!IsMap(triggers, Ids, Rules \cup {Bare})
  /\ activeTriggerId \in Ids \cup {None}
  /\ triggerJson \in Triggers!Texts
  /\ FnsInv
  /\ Triggers!JsonMatchesActive

\* None is no rule.
LEMMA RuleNotNone ==
  ASSUME NEW r \in Rule
  PROVE  r # None
BY NoneAssumption DEF Rule

\* A function starts, and takes part in every other's being alone.  Only a delete of a
\* trigger that is not being deleted adds a mark that says so.
LEMMA TriggerStarts ==
  ASSUME TriggersInv, NEW kind, NEW at, NEW id, NEW json, Triggers!Start(kind, at, id, json),
         TriggerFn(Triggers!Op(kind, at, id, json, FALSE)), at # "reply",
         \/ kind = "list" /\ UNCHANGED triggerxPending
         \/ /\ kind = "save" /\ triggerxPending' = triggerxPending \cup {<<id, "save">>}
            /\ UNCHANGED triggerxLoading
         \/ /\ kind = "delete" /\ <<id, "delete">> \notin triggerxPending
            /\ triggerxPending' = triggerxPending \cup {<<id, "delete">>}
            /\ UNCHANGED triggerxLoading
  PROVE  FnsInv' /\ DOMAIN triggerOps \subseteq DOMAIN triggerOps'
<1>. DEFINE lone == DOMAIN triggerOps = {}
            op == Triggers!Op(kind, at, id, json, lone)
<1>1. op.kind = kind /\ op.id = id /\ op.at = at /\ op.json = json /\ op.alone = lone
      /\ DOMAIN op = {"kind", "at", "id", "json", "alone", "reply"}
  BY DEF Triggers!Op
<1>2. PICK o \in Slots \ DOMAIN triggerOps : triggerOps' = Triggers!Put(Triggers!Overlapped, o, op)
  BY DEF Triggers!Start
<1>3. TriggerFn(op)
  <2>1. lone \in BOOLEAN
    OBVIOUS
  <2>. HIDE DEF lone
  <2>. QED BY <2>1 DEF TriggerFn, Triggers!Op
<1>. HIDE DEF op
<1>4. FnsInv
  BY DEF TriggersInv
<1>5. /\ DOMAIN triggerOps' = DOMAIN triggerOps \cup {o} /\ triggerOps'[o] = op
      /\ \A p \in DOMAIN triggerOps : triggerOps'[p] = [triggerOps[p] EXCEPT !.alone = FALSE]
  BY <1>2 DEF Triggers!Put, Triggers!Overlapped
<1>6. ASSUME NEW p \in DOMAIN triggerOps
      PROVE  /\ TriggerFn(triggerOps'[p]) /\ ~triggerOps'[p].alone
             /\ triggerOps'[p].kind = triggerOps[p].kind /\ triggerOps'[p].id = triggerOps[p].id
  <2>1. TriggerFn(triggerOps[p]) /\ triggerOps'[p] = [triggerOps[p] EXCEPT !.alone = FALSE]
    BY <1>4, <1>5 DEF FnsInv
  <2>. QED BY <2>1 DEF TriggerFn
<1>7. kind \in {"save", "delete"} => id \in Ids
  BY <1>1, <1>3 DEF TriggerFn
<1>8. DeletesMarked'
  <2>1. DeletesMarked
    BY <1>4 DEF FnsInv
  <2>2. CASE kind = "delete"
    BY <1>1, <1>5, <1>6, <1>7, <2>1, <2>2 DEF DeletesMarked
  <2>3. CASE kind # "delete"
    BY <1>1, <1>5, <1>6, <1>7, <2>1, <2>3 DEF DeletesMarked
  <2>. QED BY <2>2, <2>3
<1>9. AloneExact'
  BY <1>1, <1>5, <1>6 DEF AloneExact
<1>10. Triggers!MarksBacked'
  BY <1>1, <1>4, <1>5, <1>6 DEF FnsInv, Triggers!MarksBacked
<1>11. \A p \in DOMAIN triggerOps' : TriggerFn(triggerOps'[p])
  BY <1>3, <1>5, <1>6
<1>12. DOMAIN triggerOps' \subseteq Slots
  BY <1>4, <1>5 DEF FnsInv
<1>. QED BY <1>5, <1>8, <1>9, <1>10, <1>11, <1>12 DEF FnsInv

\* A function ends and takes back its own mark, which no other delete has.
LEMMA TriggerEnds ==
  ASSUME TriggersInv, NEW o \in DOMAIN triggerOps, Triggers!Finally(o)
  PROVE  FnsInv' /\ DOMAIN triggerOps' = DOMAIN triggerOps \ {o}
<1>1. /\ triggerOps' = Triggers!Drop(triggerOps, o)
      /\ triggerxPending' = triggerxPending \ {<<triggerOps[o].id, triggerOps[o].kind>>}
      /\ triggerxLoading' = IF triggerOps[o].kind = "list" THEN FALSE ELSE triggerxLoading
  BY DEF Triggers!Finally
<1>2. /\ DOMAIN triggerOps' = DOMAIN triggerOps \ {o}
      /\ \A p \in DOMAIN triggerOps' : triggerOps'[p] = triggerOps[p]
  BY <1>1 DEF Triggers!Drop
<1>3. FnsInv
  BY DEF TriggersInv
<1>4. DeletesMarked'
  <2>1. DeletesMarked
    BY <1>3 DEF FnsInv
  <2>2. CASE triggerOps[o].kind = "delete"
    BY <1>1, <1>2, <2>1, <2>2 DEF DeletesMarked
  <2>3. CASE triggerOps[o].kind # "delete"
    BY <1>1, <1>2, <2>1, <2>3 DEF DeletesMarked
  <2>. QED BY <2>2, <2>3
<1>5. AloneExact'
  BY <1>2, <1>3 DEF FnsInv, AloneExact
<1>6. Triggers!MarksBacked'
  <2>1. Triggers!MarksBacked
    BY <1>3 DEF FnsInv
  <2>2. triggerxLoading' => \E p \in DOMAIN triggerOps' : triggerOps'[p].kind = "list"
    BY <1>1, <1>2, <2>1 DEF Triggers!MarksBacked
  <2>3. \A m \in triggerxPending' : \E p \in DOMAIN triggerOps' :
          m = <<triggerOps'[p].id, triggerOps'[p].kind>>
    BY <1>1, <1>2, <2>1 DEF Triggers!MarksBacked
  <2>. QED BY <2>2, <2>3 DEF Triggers!MarksBacked
<1>. QED BY <1>2, <1>3, <1>4, <1>5, <1>6 DEF FnsInv

\* A request of a function is carried out.
LEMMA TriggerProceeds ==
  ASSUME TriggersInv, NEW o \in DOMAIN triggerOps, NEW next, triggerOps' = [triggerOps EXCEPT ![o] = next],
         next.kind = triggerOps[o].kind, next.id = triggerOps[o].id, next.alone = triggerOps[o].alone,
         TriggerFn(next), next.at = "reply" => next.reply = triggers',
         UNCHANGED <<triggerxPending, triggerxLoading>>
  PROVE  FnsInv' /\ DOMAIN triggerOps' = DOMAIN triggerOps
<1>1. /\ DOMAIN triggerOps' = DOMAIN triggerOps /\ triggerOps'[o] = next
      /\ \A p \in DOMAIN triggerOps \ {o} : triggerOps'[p] = triggerOps[p]
  OBVIOUS
<1>2. \A p \in DOMAIN triggerOps :
        /\ triggerOps'[p].kind = triggerOps[p].kind /\ triggerOps'[p].id = triggerOps[p].id
        /\ triggerOps'[p].alone = triggerOps[p].alone
  BY <1>1
<1>3. FnsInv
  BY DEF TriggersInv
<1>4. DeletesMarked'
  BY <1>1, <1>2, <1>3 DEF FnsInv, DeletesMarked
<1>5. AloneExact'
  BY <1>1, <1>2, <1>3 DEF FnsInv, AloneExact
<1>6. Triggers!MarksBacked'
  BY <1>1, <1>2, <1>3 DEF FnsInv, Triggers!MarksBacked
<1>. QED BY <1>1, <1>3, <1>4, <1>5, <1>6 DEF FnsInv

\* What a write makes of the triggers are triggers.
LEMMA WrittenTriggers ==
  ASSUME TriggersInv, NEW o \in DOMAIN triggerOps, triggerOps[o].at = "write",
         NEW m \in Triggers!Written(o)
  PROVE  Triggers!IsMap(m, Ids, Rules \cup {Bare})
<1>1. TriggerFn(triggerOps[o]) /\ Triggers!IsMap(triggers, Ids, Rules \cup {Bare})
  BY DEF TriggersInv, FnsInv
<1>2. triggerOps[o].id \in Ids
  BY <1>1 DEF TriggerFn
<1>3. ASSUME NEW r \in Rules \cup {Bare}
      PROVE  Triggers!IsMap(Triggers!Put(triggers, triggerOps[o].id, r), Ids, Rules \cup {Bare})
  BY <1>1, <1>2 DEF Triggers!IsMap, Triggers!Put
<1>4. Triggers!IsMap(Triggers!Drop(triggers, triggerOps[o].id), Ids, Rules \cup {Bare})
  BY <1>1 DEF Triggers!IsMap, Triggers!Drop
<1>5. CASE triggerOps[o].kind = "save"
  <2>1. triggerOps[o].json.rule \in Rules \cup {Bare}
    BY <1>1, <1>5 DEF TriggerFn, Rule
  <2>2. m \in {triggers, Triggers!Put(triggers, triggerOps[o].id, triggerOps[o].json.rule)}
    BY <1>5 DEF Triggers!Written
  <2>. QED BY <1>1, <1>3, <2>1, <2>2
<1>6. CASE triggerOps[o].kind # "save"
  <2>. DEFINE r == IF triggerOps[o].id \in DOMAIN triggers THEN triggers[triggerOps[o].id] ELSE Bare
  <2>1. r \in Rules \cup {Bare}
    BY <1>1 DEF Triggers!IsMap
  <2>2. m \in {Triggers!Drop(triggers, triggerOps[o].id), Triggers!Put(triggers, triggerOps[o].id, r)}
    BY <1>6 DEF Triggers!Written
  <2>. HIDE DEF r
  <2>. QED BY <1>3, <1>4, <2>1, <2>2
<1>. QED BY <1>5, <1>6

\* A step that neither starts nor ends a function keeps the marks.
LEMMA TriggersQuiet ==
  ASSUME TriggersInv, UNCHANGED <<triggers, triggerOps, triggerxPending, triggerxLoading>>
  PROVE  FnsInv'
BY DEF TriggersInv, FnsInv, DeletesMarked, AloneExact, Triggers!MarksBacked

\* The program writes the text of a trigger below its name.
LEMMA ShowMatches ==
  ASSUME NEW id \in Ids, NEW rule \in Rules \cup {Bare}, Triggers!Show(id, Triggers!Json(id, rule))
  PROVE  /\ activeTriggerId' \in Ids \cup {None} /\ triggerJson' \in Triggers!Texts
         /\ Triggers!JsonMatchesActive'
<1>. DEFINE json == Triggers!Json(id, rule)
<1>1. json \in Rule /\ json.id = id
  BY DEF Rule, Triggers!Json
<1>2. activeTriggerId' = id /\ triggerJson' = json
  BY DEF Triggers!Show
<1>. HIDE DEF json
<1>3. json # None
  BY <1>1, RuleNotNone
<1>. QED BY <1>1, <1>2, <1>3 DEF Triggers!JsonMatchesActive, Triggers!Matching, Triggers!Texts, Rule

\* The buttons of the tab, and typing.
LEMMA TriggerButtons ==
  ASSUME TriggersInv,
         \/ Triggers!Refresh \/ Triggers!NewTrigger \/ Triggers!Type \/ Triggers!CloseManage
         \/ Triggers!Delete \/ Triggers!Save \/ \E id \in Ids : Triggers!SelectTrigger(id)
  PROVE  TriggersInv' /\ DOMAIN triggerOps \subseteq DOMAIN triggerOps'
<1>0. /\ Triggers!IsMap(triggers, Ids, Rules \cup {Bare})
      /\ activeTriggerId \in Ids \cup {None} /\ triggerJson \in Triggers!Texts
      /\ Triggers!JsonMatchesActive
  BY DEF TriggersInv
<1>1. CASE Triggers!Refresh
  <2>1. /\ Triggers!Start("list", "list", None, None) /\ UNCHANGED triggerxPending
        /\ UNCHANGED <<triggers, activeTriggerId, triggerJson, typed, overtaken>>
    BY <1>1 DEF Triggers!Refresh, Triggers!text
  <2>2. TriggerFn(Triggers!Op("list", "list", None, None, FALSE))
    BY DEF TriggerFn, Triggers!Op
  <2>3. FnsInv' /\ DOMAIN triggerOps \subseteq DOMAIN triggerOps'
    BY <2>1, <2>2, TriggerStarts
  <2>. QED BY <1>0, <2>1, <2>3 DEF TriggersInv, Triggers!JsonMatchesActive, Triggers!Matching
<1>2. ASSUME NEW id \in Ids, Triggers!Show(id, Triggers!Json(id, Bare)),
             UNCHANGED <<triggers, triggerOps, triggerxPending, triggerxLoading>>
      PROVE  TriggersInv' /\ DOMAIN triggerOps \subseteq DOMAIN triggerOps'
  <2>1. /\ activeTriggerId' \in Ids \cup {None} /\ triggerJson' \in Triggers!Texts
        /\ Triggers!JsonMatchesActive'
    BY <1>2, ShowMatches
  <2>. QED BY <1>0, <1>2, <2>1, TriggersQuiet DEF TriggersInv
<1>3. CASE Triggers!NewTrigger \/ \E id \in Ids : Triggers!SelectTrigger(id)
  BY <1>2, <1>3 DEF Triggers!NewTrigger, Triggers!SelectTrigger, Triggers!marks
<1>4. CASE Triggers!Type
  BY <1>0, <1>4, TriggersQuiet DEF TriggersInv, Triggers!Type, Triggers!marks, Triggers!JsonMatchesActive, Triggers!Matching
<1>5. CASE Triggers!CloseManage
  BY <1>0, <1>5, TriggersQuiet
     DEF TriggersInv, Triggers!CloseManage, Triggers!text, Triggers!JsonMatchesActive, Triggers!Matching
<1>6. CASE Triggers!Delete
  <2>. DEFINE id == activeTriggerId
  <2>1. /\ id \in Ids /\ Triggers!Start("delete", "write", id, None)
        /\ <<id, "delete">> \notin triggerxPending
        /\ triggerxPending' = triggerxPending \cup {<<id, "delete">>} /\ UNCHANGED triggerxLoading
        /\ UNCHANGED <<triggers, activeTriggerId, triggerJson, typed, overtaken>>
    BY <1>0, <1>6 DEF Triggers!Delete, Triggers!text
  <2>. HIDE DEF id
  <2>2. TriggerFn(Triggers!Op("delete", "write", id, None, FALSE))
    BY <2>1 DEF TriggerFn, Triggers!Op
  <2>3. FnsInv' /\ DOMAIN triggerOps \subseteq DOMAIN triggerOps'
    BY <2>1, <2>2, TriggerStarts
  <2>. QED BY <1>0, <2>1, <2>3 DEF TriggersInv, Triggers!JsonMatchesActive, Triggers!Matching
<1>7. CASE Triggers!Save
  <2>1. UNCHANGED <<triggers, activeTriggerId, triggerJson, typed, overtaken>>
    BY <1>7 DEF Triggers!Save, Triggers!text
  <2>2. CASE triggerJson \in {None, Garbage}
    <3>1. UNCHANGED <<triggerOps, triggerxPending, triggerxLoading>>
      BY <1>7, <2>2 DEF Triggers!Save
    <3>. QED BY <1>0, <2>1, <3>1, TriggersQuiet DEF TriggersInv, Triggers!JsonMatchesActive, Triggers!Matching
  <2>3. CASE triggerJson \notin {None, Garbage}
    <3>. DEFINE json == triggerJson
                id == triggerJson.id
    <3>1. /\ Triggers!Start("save", "write", id, json)
          /\ triggerxPending' = triggerxPending \cup {<<id, "save">>} /\ UNCHANGED triggerxLoading
      BY <1>7, <2>3 DEF Triggers!Save
    <3>2. json \in Rule /\ json.id = id /\ id \in Ids
      BY <1>0, <2>3 DEF Triggers!Texts, Rule
    <3>. HIDE DEF json, id
    <3>3. TriggerFn(Triggers!Op("save", "write", id, json, FALSE))
      BY <3>2 DEF TriggerFn, Triggers!Op
    <3>4. FnsInv' /\ DOMAIN triggerOps \subseteq DOMAIN triggerOps'
      BY <3>1, <3>3, TriggerStarts
    <3>. QED BY <1>0, <2>1, <3>4 DEF TriggersInv, Triggers!JsonMatchesActive, Triggers!Matching
  <2>. QED BY <2>2, <2>3
<1>. QED BY <1>1, <1>3, <1>4, <1>5, <1>6, <1>7

\* What SerialTriggersShown says of a step.
SerialTriggersStep ==
  \A o \in DOMAIN triggerOps \ DOMAIN triggerOps' : triggerOps[o].alone /\ ~triggerxError' =>
    /\ triggerxDigest' = DOMAIN triggers'
    /\ triggerOps[o].kind = "list" /\ triggers' # Triggers!EmptyMap =>
         activeTriggerId' \in DOMAIN triggers' /\ triggerJson' = Triggers!Json(activeTriggerId', triggers'[activeTriggerId'])

\* The rest of a function after its requests.
LEMMA TriggerDone ==
  ASSUME TriggersInv, NEW o \in Slots,
         Triggers!ListDone(o) \/ Triggers!DeleteDone(o) \/ Triggers!SaveDone(o) \/ Triggers!RequestFailed(o)
  PROVE  TriggersInv' /\ SerialTriggersStep
<1>0. /\ Triggers!IsMap(triggers, Ids, Rules \cup {Bare})
      /\ activeTriggerId \in Ids \cup {None} /\ triggerJson \in Triggers!Texts
      /\ Triggers!JsonMatchesActive
      /\ \A p \in DOMAIN triggerOps : TriggerFn(triggerOps[p])
      /\ AloneExact
  BY DEF TriggersInv, FnsInv
<1>1. o \in DOMAIN triggerOps /\ Triggers!Finally(o)
  BY DEF Triggers!ListDone, Triggers!DeleteDone, Triggers!SaveDone, Triggers!RequestFailed, Triggers!At
<1>2. FnsInv' /\ DOMAIN triggerOps' = DOMAIN triggerOps \ {o}
  BY <1>1, TriggerEnds
<1>3. ASSUME Triggers!ListDone(o) PROVE TriggersInv'
  <2>1. /\ UNCHANGED triggers /\ triggerOps[o].at = "reply"
        /\ IF triggerOps[o].reply = Triggers!EmptyMap
           THEN UNCHANGED <<activeTriggerId, triggerJson, typed, overtaken>>
           ELSE \E first \in DOMAIN triggerOps[o].reply :
                  Triggers!Show(first, Triggers!Json(first, triggerOps[o].reply[first]))
    BY <1>3 DEF Triggers!ListDone, Triggers!At, Triggers!text
  <2>2. Triggers!IsMap(triggerOps[o].reply, Ids, Rules \cup {Bare})
    BY <1>0, <1>1, <2>1 DEF TriggerFn
  <2>3. CASE triggerOps[o].reply = Triggers!EmptyMap
    BY <1>0, <1>2, <2>1, <2>3 DEF TriggersInv, Triggers!JsonMatchesActive, Triggers!Matching
  <2>4. CASE triggerOps[o].reply # Triggers!EmptyMap
    <3>1. PICK first \in DOMAIN triggerOps[o].reply :
            Triggers!Show(first, Triggers!Json(first, triggerOps[o].reply[first]))
      BY <2>1, <2>4
    <3>2. first \in Ids /\ triggerOps[o].reply[first] \in Rules \cup {Bare}
      BY <2>2 DEF Triggers!IsMap
    <3>3. /\ activeTriggerId' \in Ids \cup {None} /\ triggerJson' \in Triggers!Texts
          /\ Triggers!JsonMatchesActive'
      BY <3>1, <3>2, ShowMatches
    <3>. QED BY <1>0, <1>2, <2>1, <3>3 DEF TriggersInv
  <2>. QED BY <2>3, <2>4
<1>4. ASSUME Triggers!DeleteDone(o) PROVE TriggersInv'
  <2>1. UNCHANGED triggers /\ activeTriggerId' = None /\ triggerJson' = None
    BY <1>4 DEF Triggers!DeleteDone, Triggers!Show
  <2>. QED BY <1>0, <1>2, <2>1 DEF TriggersInv, Triggers!JsonMatchesActive, Triggers!Matching, Triggers!Texts
<1>5. ASSUME Triggers!SaveDone(o) PROVE TriggersInv'
  <2>1. /\ UNCHANGED <<triggers, triggerJson, typed>> /\ triggerOps[o].kind = "save"
        /\ activeTriggerId' = triggerOps[o].id
        /\ overtaken' = (overtaken \/ triggerJson # triggerOps[o].json)
    BY <1>5 DEF Triggers!SaveDone
  <2>2. triggerOps[o].id \in Ids /\ triggerOps[o].json \in Rule
        /\ triggerOps[o].json.id = triggerOps[o].id
    BY <1>0, <1>1, <2>1 DEF TriggerFn
  <2>3. triggerOps[o].json # None
    BY <2>2, RuleNotNone
  <2>4. Triggers!JsonMatchesActive'
    <3>1. CASE triggerJson = triggerOps[o].json
      BY <2>1, <2>2, <2>3, <3>1 DEF Triggers!JsonMatchesActive, Triggers!Matching
    <3>2. CASE triggerJson # triggerOps[o].json
      BY <2>1, <3>2, Zenon DEF Triggers!JsonMatchesActive, Triggers!Matching
    <3>. QED BY <3>1, <3>2
  <2>. QED BY <1>0, <1>2, <2>1, <2>2, <2>4 DEF TriggersInv
<1>6. ASSUME Triggers!RequestFailed(o) PROVE TriggersInv'
  <2>1. /\ UNCHANGED <<activeTriggerId, triggerJson, typed, overtaken>>
        /\ triggers' \in IF triggerOps[o].at = "write" THEN Triggers!Written(o) \cup {triggers} ELSE {triggers}
    BY <1>6 DEF Triggers!RequestFailed, Triggers!text
  <2>2. Triggers!IsMap(triggers', Ids, Rules \cup {Bare})
    BY <1>0, <1>1, <2>1, WrittenTriggers
  <2>. QED BY <1>0, <1>2, <2>1, <2>2 DEF TriggersInv, Triggers!JsonMatchesActive, Triggers!Matching
<1>7. SerialTriggersStep
  <2>. SUFFICES ASSUME triggerOps[o].alone, ~triggerxError'
                PROVE  /\ triggerxDigest' = DOMAIN triggers'
                       /\ triggerOps[o].kind = "list" /\ triggers' # Triggers!EmptyMap =>
                            /\ activeTriggerId' \in DOMAIN triggers'
                            /\ triggerJson' = Triggers!Json(activeTriggerId', triggers'[activeTriggerId'])
    BY <1>1, <1>2 DEF SerialTriggersStep
  <2>1. ~Triggers!RequestFailed(o)
    BY DEF Triggers!RequestFailed
  <2>2. /\ triggerOps[o].at = "reply" /\ UNCHANGED triggers
        /\ triggerxDigest' = DOMAIN triggerOps[o].reply
    BY <2>1 DEF Triggers!ListDone, Triggers!DeleteDone, Triggers!SaveDone, Triggers!At
  <2>3. triggerOps[o].reply = triggers'
    BY <1>0, <1>1, <2>2 DEF AloneExact
  <2>4. ASSUME triggerOps[o].kind = "list", triggers' # Triggers!EmptyMap
        PROVE  /\ activeTriggerId' \in DOMAIN triggers'
               /\ triggerJson' = Triggers!Json(activeTriggerId', triggers'[activeTriggerId'])
    <3>1. Triggers!ListDone(o)
      BY <2>1, <2>4 DEF Triggers!DeleteDone, Triggers!SaveDone
    <3>2. PICK first \in DOMAIN triggers' : Triggers!Show(first, Triggers!Json(first, triggers'[first]))
      BY <2>3, <2>4, <3>1 DEF Triggers!ListDone
    <3>. QED BY <3>2 DEF Triggers!Show
  <2>. QED BY <2>2, <2>3, <2>4
<1>. QED BY <1>3, <1>4, <1>5, <1>6, <1>7

\* The requests of a function.
LEMMA TriggerRequests ==
  ASSUME TriggersInv, NEW o \in Slots, Triggers!WriteHandled(o) \/ Triggers!ListHandled(o)
  PROVE  TriggersInv' /\ DOMAIN triggerOps \subseteq DOMAIN triggerOps'
<1>0. /\ Triggers!IsMap(triggers, Ids, Rules \cup {Bare})
      /\ activeTriggerId \in Ids \cup {None} /\ triggerJson \in Triggers!Texts
      /\ Triggers!JsonMatchesActive
      /\ \A p \in DOMAIN triggerOps : TriggerFn(triggerOps[p])
      /\ AloneExact
  BY DEF TriggersInv, FnsInv
<1>1. o \in DOMAIN triggerOps /\ UNCHANGED <<activeTriggerId, triggerJson, typed, overtaken, triggerxPending, triggerxLoading>>
  BY DEF Triggers!WriteHandled, Triggers!ListHandled, Triggers!At, Triggers!text, Triggers!marks
<1>2. TriggerFn(triggerOps[o])
  BY <1>0, <1>1
<1>3. CASE Triggers!WriteHandled(o)
  <2>. DEFINE next == [triggerOps[o] EXCEPT !.at = "list"]
  <2>1. /\ triggerOps[o].at = "write" /\ triggers' \in Triggers!Written(o)
        /\ triggerOps' = [triggerOps EXCEPT ![o] = next]
    BY <1>3 DEF Triggers!WriteHandled, Triggers!At
  <2>2. next.kind = triggerOps[o].kind /\ next.id = triggerOps[o].id /\ TriggerFn(next)
        /\ next.alone = triggerOps[o].alone /\ next.at = "list"
    BY <1>2 DEF TriggerFn
  <2>. HIDE DEF next
  <2>3. FnsInv' /\ DOMAIN triggerOps' = DOMAIN triggerOps
    BY <1>1, <2>1, <2>2, TriggerProceeds
  <2>4. Triggers!IsMap(triggers', Ids, Rules \cup {Bare})
    BY <1>1, <2>1, WrittenTriggers
  <2>. QED BY <1>0, <1>1, <2>3, <2>4 DEF TriggersInv, Triggers!JsonMatchesActive, Triggers!Matching
<1>4. CASE Triggers!ListHandled(o)
  <2>. DEFINE next == [triggerOps[o] EXCEPT !.at = "reply", !.reply = triggers]
  <2>1. UNCHANGED triggers /\ triggerOps' = [triggerOps EXCEPT ![o] = next]
    BY <1>4 DEF Triggers!ListHandled, Triggers!At
  <2>2. next.kind = triggerOps[o].kind /\ next.id = triggerOps[o].id /\ TriggerFn(next)
        /\ next.alone = triggerOps[o].alone /\ next.reply = triggers'
    BY <1>0, <1>2, <2>1 DEF TriggerFn
  <2>. HIDE DEF next
  <2>3. FnsInv' /\ DOMAIN triggerOps' = DOMAIN triggerOps
    BY <1>1, <2>1, <2>2, TriggerProceeds
  <2>. QED BY <1>0, <1>1, <2>1, <2>3 DEF TriggersInv, Triggers!JsonMatchesActive, Triggers!Matching
<1>. QED BY <1>3, <1>4

\* Every step of the triggers tab keeps its invariant, and is one SerialTriggersShown allows.
LEMMA TriggersStep ==
  ASSUME TriggersInv, Triggers!Next
  PROVE  TriggersInv' /\ SerialTriggersStep
<1>1. CASE \E o \in Slots : \/ Triggers!ListDone(o) \/ Triggers!DeleteDone(o)
                           \/ Triggers!SaveDone(o) \/ Triggers!RequestFailed(o)
  BY <1>1, TriggerDone
<1>2. CASE \/ Triggers!Refresh \/ Triggers!NewTrigger \/ Triggers!Type \/ Triggers!CloseManage
           \/ Triggers!Delete \/ Triggers!Save \/ \E id \in Ids : Triggers!SelectTrigger(id)
           \/ \E o \in Slots : Triggers!WriteHandled(o) \/ Triggers!ListHandled(o)
  <2>1. TriggersInv' /\ DOMAIN triggerOps \subseteq DOMAIN triggerOps'
    BY <1>2, TriggerButtons, TriggerRequests
  <2>. QED BY <2>1 DEF SerialTriggersStep
<1>. QED BY <1>1, <1>2 DEF Triggers!Next

\* It depends on the tab's variables only.
LEMMA TriggersKept ==
  ASSUME TriggersInv, UNCHANGED triggerVars
  PROVE  TriggersInv'
BY DEF TriggersInv, FnsInv, DeletesMarked, AloneExact, triggerVars,
       Triggers!MarksBacked, Triggers!JsonMatchesActive, Triggers!Matching

\* The tab opens without a text.
LEMMA TriggersInit ==
  ASSUME Triggers!Init
  PROVE  TriggersInv
<1>1. Triggers!IsMap(triggers, Ids, Rules \cup {Bare})
  <2>1. PICK some \in SUBSET Ids : triggers \in [some -> Rules]
    BY DEF Triggers!Init, Triggers!MapsOf
  <2>. QED BY <2>1 DEF Triggers!IsMap
<1>. QED BY <1>1
         DEF Triggers!Init, Triggers!EmptyMap, TriggersInv, FnsInv, DeletesMarked, AloneExact,
             Triggers!MarksBacked, Triggers!JsonMatchesActive, Triggers!Matching, Triggers!Texts

\* Each trigger marked "Deleting" has exactly one delete under way.
LEMMA DeletesExact ==
  ASSUME TriggersInv
  PROVE  Triggers!DeletePendingExact
BY DEF TriggersInv, FnsInv, DeletesMarked, Triggers!DeletePendingExact

-----------------------------------------------------------------------------
(* The dialog *)

Writes == {o \in DOMAIN ops : ops[o].kind \in {"save", "delete"}}

\* A function under way; only the writes have a write before them.
DialogFn(op) ==
  /\ DOMAIN op = {"kind", "at", "id", "mode", "value", "alone", "reply"}
  /\ op.at = "write" => op.kind # "power"

\* Saves and deletes under way and the marks of their buttons, one to one.
WritesMarked ==
  /\ timerxPending = {<<ops[o].id, ops[o].kind>> : o \in Writes}
  /\ \A o, p \in Writes : ops[o].id = ops[p].id /\ ops[o].kind = ops[p].kind => o = p

\* A function that is alone has no other write or list beside it, so the list it was
\* given is still the device's.
AloneUpToDate ==
  \A o \in DOMAIN ops : ops[o].alone =>
    /\ \A p \in DOMAIN ops \ {o} : ops[p].kind = "power"
    /\ ops[o].kind # "power" /\ ops[o].at = "reply" => ops[o].reply = timers

DialogInv ==
  /\ DOMAIN ops \subseteq Slots
  /\ \A o \in DOMAIN ops : DialogFn(ops[o])
  /\ WritesMarked
  /\ AloneUpToDate
  /\ Timers!LoadingBacked

\* The steps of the dialog, whatever tabs the device has and whichever ids its timers.
DialogStep ==
  \/ \E tab : Timers!OpenManage(tab) \/ Timers!SelectTab(tab)
  \/ Timers!CloseManage \/ Timers!RefreshButton \/ Timers!RefreshHistoryButton
  \/ \E editor : Timers!Edit(editor)
  \/ Timers!SaveTimer
  \/ \E id : Timers!DeleteTimer(id)
  \/ Timers!HostChanges
  \/ \E o \in Slots : Timers!Proceed(o)

\* They are the steps for a device without power readings.
LEMMA TimersSteps ==
  ASSUME Timers!Next
  PROVE  DialogStep
<1>1. CASE Timers!NewTimer \/ Timers!CancelEdit \/ Timers!ChangeField \/ \E id \in Ids : Timers!EditTimer(id)
  BY <1>1 DEF DialogStep, Timers!NewTimer, Timers!CancelEdit, Timers!ChangeField, Timers!EditTimer
<1>2. CASE ~(Timers!NewTimer \/ Timers!CancelEdit \/ Timers!ChangeField \/ \E id \in Ids : Timers!EditTimer(id))
  BY <1>2 DEF DialogStep, Timers!Next, Timers!Press
<1>. QED BY <1>1, <1>2

\* And those for a plug.
LEMMA PlugSteps ==
  ASSUME Plug!Next
  PROVE  DialogStep
<1>1. ASSUME NEW kind, NEW at, NEW id, NEW mode, NEW value, Plug!Start(kind, at, id, mode, value)
      PROVE  Timers!Start(kind, at, id, mode, value)
  BY <1>1 DEF Plug!Start, Plug!Op, Plug!Overlapped, Plug!Put,
              Timers!Start, Timers!Op, Timers!Overlapped, Timers!Put
<1>2. ASSUME NEW tab, Plug!StartFetchForTab(tab) PROVE Timers!StartFetchForTab(tab)
  <2>1. Plug!RefreshTimerX => Timers!RefreshTimerX
    BY <1>1 DEF Plug!RefreshTimerX, Timers!RefreshTimerX
  <2>2. Plug!RefreshPowerHistory => Timers!RefreshPowerHistory
    BY <1>1 DEF Plug!RefreshPowerHistory, Timers!RefreshPowerHistory, Plug!list, Timers!list
  <2>. QED BY <1>2, <2>1, <2>2
           DEF Plug!StartFetchForTab, Timers!StartFetchForTab, Plug!list, Timers!list, Plug!power, Timers!power
<1>3. ASSUME NEW tab, Plug!OpenManage(tab) \/ Plug!SelectTab(tab) PROVE DialogStep
  <2>1. Timers!OpenManage(tab) \/ Timers!SelectTab(tab)
    BY <1>2, <1>3 DEF Plug!OpenManage, Timers!OpenManage, Plug!SelectTab, Timers!SelectTab,
                      Plug!device, Timers!device
  <2>. QED BY <2>1 DEF DialogStep
<1>4. CASE Plug!CloseManage
  BY <1>4 DEF DialogStep, Plug!CloseManage, Timers!CloseManage, Plug!device, Timers!device,
              Plug!power, Timers!power, Plug!list, Timers!list
<1>5. CASE Plug!RefreshButton
  BY <1>1, <1>5 DEF DialogStep, Plug!RefreshButton, Timers!RefreshButton, Plug!InTimers, Timers!InTimers,
                    Plug!RefreshTimerX, Timers!RefreshTimerX, Plug!device, Timers!device,
                    Plug!dialog, Timers!dialog
<1>6. CASE Plug!RefreshHistoryButton
  BY <1>1, <1>6 DEF DialogStep, Plug!RefreshHistoryButton, Timers!RefreshHistoryButton,
                    Plug!RefreshPowerHistory, Timers!RefreshPowerHistory, Plug!device, Timers!device,
                    Plug!dialog, Timers!dialog, Plug!list, Timers!list
<1>7. ASSUME NEW editor, Plug!Edit(editor) PROVE DialogStep
  BY <1>7 DEF DialogStep, Plug!Edit, Timers!Edit, Plug!InTimers, Timers!InTimers, Plug!device, Timers!device,
              Plug!dialog, Timers!dialog, Plug!power, Timers!power, Plug!list, Timers!list
<1>8. CASE Plug!NewTimer \/ Plug!CancelEdit \/ Plug!ChangeField \/ \E id \in PlugIds : Plug!EditTimer(id)
  BY <1>7, <1>8 DEF Plug!NewTimer, Plug!CancelEdit, Plug!ChangeField, Plug!EditTimer
<1>9. CASE Plug!SaveTimer
  BY <1>1, <1>9 DEF DialogStep, Plug!SaveTimer, Timers!SaveTimer, Plug!InTimers, Timers!InTimers,
                    Plug!device, Timers!device, Plug!dialog, Timers!dialog, Plug!power, Timers!power,
                    Plug!list, Timers!list
<1>10. ASSUME NEW id, Plug!DeleteTimer(id) PROVE DialogStep
  BY <1>1, <1>10 DEF DialogStep, Plug!DeleteTimer, Timers!DeleteTimer, Plug!InTimers, Timers!InTimers,
                     Plug!device, Timers!device, Plug!dialog, Timers!dialog, Plug!power, Timers!power,
                     Plug!list, Timers!list
<1>11. CASE Plug!HostChanges
  BY <1>11 DEF DialogStep, Plug!HostChanges, Timers!HostChanges, Plug!dialog, Timers!dialog,
               Plug!power, Timers!power, Plug!list, Timers!list, Plug!edits, Timers!edits
<1>12. ASSUME NEW o \in Slots, Plug!Proceed(o) PROVE DialogStep
  <2>. USE DEF Plug!At, Timers!At, Plug!device, Timers!device, Plug!dialog, Timers!dialog,
               Plug!power, Timers!power, Plug!list, Timers!list, Plug!edits, Timers!edits,
               Plug!Drop, Timers!Drop, Plug!ClearPending, Timers!ClearPending
  <2>1. Plug!Written(o) = Timers!Written(o)
    BY DEF Plug!Written, Timers!Written, Plug!Put, Timers!Put
  <2>2. Plug!WriteHandled(o) => Timers!WriteHandled(o)
    BY <2>1 DEF Plug!WriteHandled, Timers!WriteHandled, Plug!Awaits, Timers!Awaits
  <2>3. Plug!ListHandled(o) => Timers!ListHandled(o)
    BY DEF Plug!ListHandled, Timers!ListHandled
  <2>4. Plug!ListShown(o) => Timers!ListShown(o)
    BY DEF Plug!ListShown, Timers!ListShown
  <2>5. Plug!RequestFailed(o) => Timers!RequestFailed(o)
    BY <2>1 DEF Plug!RequestFailed, Timers!RequestFailed
  <2>6. Plug!HistoryShown(o) => Timers!HistoryShown(o)
    BY DEF Plug!HistoryShown, Timers!HistoryShown
  <2>7. Timers!Proceed(o)
    BY <1>12, <2>2, <2>3, <2>4, <2>5, <2>6 DEF Plug!Proceed, Timers!Proceed
  <2>. QED BY <2>7 DEF DialogStep
<1>. QED BY <1>3, <1>4, <1>5, <1>6, <1>8, <1>9, <1>10, <1>11, <1>12 DEF Plug!Next, Plug!Press

\* A function starts: it overlaps all the others, and a write adds its mark.
LEMMA DialogStarts ==
  ASSUME DialogInv, NEW kind, NEW at, NEW id, NEW mode, NEW value,
         Timers!Start(kind, at, id, mode, value), UNCHANGED timers,
         at = "list" \/ (at = "write" /\ kind # "power"),
         \/ kind \notin {"save", "delete"} /\ UNCHANGED timerxPending
         \/ /\ kind \in {"save", "delete"} /\ <<id, kind>> \notin timerxPending
            /\ timerxPending' = timerxPending \cup {<<id, kind>>},
         kind = "list" \/ UNCHANGED timerxLoading,
         kind = "power" \/ UNCHANGED powerHistoryLoading
  PROVE  DialogInv'
<1>. DEFINE alone == {p \in DOMAIN ops : ops[p].kind # "power"} = {}
            op == Timers!Op(kind, at, id, mode, value, alone)
<1>1. PICK o \in Slots \ DOMAIN ops : ops' = Timers!Put(Timers!Overlapped, o, op)
  BY DEF Timers!Start
<1>2. /\ DOMAIN op = {"kind", "at", "id", "mode", "value", "alone", "reply"}
      /\ op.kind = kind /\ op.at = at /\ op.id = id /\ op.alone = alone
  BY DEF Timers!Op
<1>3. alone => \A p \in DOMAIN ops : ops[p].kind = "power"
  OBVIOUS
<1>. HIDE DEF op, alone
<1>4. /\ DOMAIN ops' = DOMAIN ops \cup {o} /\ ops'[o] = op
      /\ \A p \in DOMAIN ops : ops'[p] = [ops[p] EXCEPT !.alone = FALSE]
  BY <1>1 DEF Timers!Put, Timers!Overlapped
<1>5. /\ DOMAIN ops \subseteq Slots /\ \A p \in DOMAIN ops : DialogFn(ops[p])
      /\ WritesMarked /\ Timers!LoadingBacked
  BY DEF DialogInv
<1>6. \A p \in DOMAIN ops : /\ DialogFn(ops'[p]) /\ ops'[p].alone = FALSE
                            /\ ops'[p].kind = ops[p].kind /\ ops'[p].id = ops[p].id
  BY <1>4, <1>5 DEF DialogFn
<1>7. DialogFn(op)
  BY <1>2 DEF DialogFn
<1>8. WritesMarked'
  <2>1. CASE kind \in {"save", "delete"}
    <3>1. /\ Writes' = Writes \cup {o}
          /\ \A p \in Writes : ops'[p].id = ops[p].id /\ ops'[p].kind = ops[p].kind /\ p # o
          /\ ops'[o].id = id /\ ops'[o].kind = kind
          /\ timerxPending' = timerxPending \cup {<<id, kind>>} /\ <<id, kind>> \notin timerxPending
      BY <1>2, <1>4, <1>6, <2>1 DEF Writes
    <3>. QED BY <1>5, <3>1 DEF WritesMarked
  <2>2. CASE kind \notin {"save", "delete"}
    <3>1. /\ Writes' = Writes /\ timerxPending' = timerxPending
          /\ \A p \in Writes : ops'[p].id = ops[p].id /\ ops'[p].kind = ops[p].kind
      BY <1>2, <1>4, <1>6, <2>2 DEF Writes
    <3>. QED BY <1>5, <3>1 DEF WritesMarked
  <2>. QED BY <2>1, <2>2
<1>9. AloneUpToDate'
  <2>1. at # "reply"
    OBVIOUS
  <2>2. ops'[o].alone => \A p \in DOMAIN ops' \ {o} : ops'[p].kind = "power"
    BY <1>2, <1>3, <1>4, <1>6
  <2>. QED BY <1>2, <1>4, <1>6, <2>1, <2>2 DEF AloneUpToDate
<1>10. Timers!LoadingBacked'
  <2>1. timerxLoading' => \E p \in DOMAIN ops' : ops'[p].kind = "list"
    <3>1. CASE kind = "list"
      BY <1>2, <1>4, <3>1
    <3>2. CASE kind # "list"
      BY <1>4, <1>5, <1>6, <3>2 DEF Timers!LoadingBacked
    <3>. QED BY <3>1, <3>2
  <2>2. powerHistoryLoading' => \E p \in DOMAIN ops' : ops'[p].kind = "power"
    <3>1. CASE kind = "power"
      BY <1>2, <1>4, <3>1
    <3>2. CASE kind # "power"
      <4>1. UNCHANGED powerHistoryLoading
        BY <3>2
      <4>2. powerHistoryLoading => \E p \in DOMAIN ops : ops[p].kind = "power"
        BY <1>5, Zenon DEF Timers!LoadingBacked
      <4>. QED BY <1>4, <1>6, <4>1, <4>2
    <3>. QED BY <3>1, <3>2
  <2>. QED BY <2>1, <2>2 DEF Timers!LoadingBacked
<1>. QED BY <1>4, <1>5, <1>6, <1>7, <1>8, <1>9, <1>10 DEF DialogInv

\* Nothing of what the invariant is about changes.
LEMMA DialogQuiet ==
  ASSUME DialogInv, UNCHANGED <<timers, ops, timerxPending, timerxLoading, powerHistoryLoading>>
  PROVE  DialogInv'
BY DEF DialogInv, WritesMarked, Writes, AloneUpToDate, Timers!LoadingBacked

\* A function ends: its mark, which no other function has, goes with it.
LEMMA DialogEnds ==
  ASSUME DialogInv, NEW o \in DOMAIN ops, ops' = Timers!Drop(ops, o),
         ops[o].kind # "power" \/ UNCHANGED timers,
         \/ timerxPending' = timerxPending \ {<<ops[o].id, ops[o].kind>>}
         \/ ops[o].kind = "power" /\ UNCHANGED timerxPending,
         timerxLoading' = FALSE \/ (ops[o].kind # "list" /\ UNCHANGED timerxLoading),
         powerHistoryLoading' = FALSE \/ (ops[o].kind # "power" /\ UNCHANGED powerHistoryLoading)
  PROVE  DialogInv'
<1>1. DOMAIN ops' = DOMAIN ops \ {o} /\ \A p \in DOMAIN ops' : ops'[p] = ops[p]
  BY DEF Timers!Drop
<1>2. /\ DOMAIN ops \subseteq Slots /\ \A p \in DOMAIN ops : DialogFn(ops[p])
      /\ WritesMarked /\ AloneUpToDate /\ Timers!LoadingBacked
  BY DEF DialogInv
<1>3. WritesMarked'
  <2>1. Writes' = Writes \ {o} /\ \A p \in Writes' : ops'[p] = ops[p]
    BY <1>1 DEF Writes
  <2>2. CASE o \in Writes
    <3>1. timerxPending' = timerxPending \ {<<ops[o].id, ops[o].kind>>}
      BY <2>2 DEF Writes
    <3>. QED BY <1>2, <2>1, <2>2, <3>1 DEF WritesMarked
  <2>3. CASE o \notin Writes
    <3>1. ops[o].kind \notin {"save", "delete"} /\ \A p \in Writes : ops[p].kind \in {"save", "delete"}
      BY <2>3 DEF Writes
    <3>2. <<ops[o].id, ops[o].kind>> \notin timerxPending
      BY <1>2, <3>1 DEF WritesMarked
    <3>3. timerxPending' = timerxPending /\ Writes' = Writes
      BY <2>1, <2>3, <3>2
    <3>. QED BY <1>2, <2>1, <3>3 DEF WritesMarked
  <2>. QED BY <2>2, <2>3
<1>4. AloneUpToDate'
  <2>1. CASE ops[o].kind = "power"
    BY <1>1, <1>2, <2>1 DEF AloneUpToDate
  <2>2. CASE ops[o].kind # "power"
    \* Beside a function that writes or lists, no other is alone.
    <3>1. \A p \in DOMAIN ops' : ~ops[p].alone
      BY <1>1, <1>2, <2>2 DEF AloneUpToDate
    <3>. QED BY <1>1, <3>1 DEF AloneUpToDate
  <2>. QED BY <2>1, <2>2
<1>5. Timers!LoadingBacked'
  <2>1. timerxLoading' => \E p \in DOMAIN ops' : ops'[p].kind = "list"
    <3>1. CASE timerxLoading' = FALSE
      BY <3>1
    <3>2. CASE ops[o].kind # "list" /\ UNCHANGED timerxLoading
      BY <1>1, <1>2, <3>2 DEF Timers!LoadingBacked
    <3>. QED BY <3>1, <3>2
  <2>2. powerHistoryLoading' => \E p \in DOMAIN ops' : ops'[p].kind = "power"
    <3>1. CASE powerHistoryLoading' = FALSE
      BY <3>1
    <3>2. CASE ops[o].kind # "power" /\ UNCHANGED powerHistoryLoading
      BY <1>1, <1>2, <3>2 DEF Timers!LoadingBacked
    <3>. QED BY <3>1, <3>2
  <2>. QED BY <2>1, <2>2 DEF Timers!LoadingBacked
<1>. QED BY <1>1, <1>2, <1>3, <1>4, <1>5 DEF DialogInv

\* A request of a function is carried out: only a write changes the timers, and only the
\* list is read into a reply.
LEMMA DialogProceeds ==
  ASSUME DialogInv, NEW o \in DOMAIN ops, NEW next, ops' = [ops EXCEPT ![o] = next],
         DialogFn(next), next.kind = ops[o].kind, next.id = ops[o].id, next.alone = ops[o].alone,
         next.at = "list" \/ next.reply = timers',
         ops[o].kind # "power" \/ UNCHANGED timers,
         UNCHANGED <<timerxPending, timerxLoading, powerHistoryLoading>>
  PROVE  DialogInv'
<1>1. /\ DOMAIN ops' = DOMAIN ops /\ ops'[o] = next
      /\ \A p \in DOMAIN ops \ {o} : ops'[p] = ops[p]
  OBVIOUS
<1>2. \A p \in DOMAIN ops : /\ ops'[p].kind = ops[p].kind /\ ops'[p].id = ops[p].id
                            /\ ops'[p].alone = ops[p].alone
  BY <1>1
<1>3. /\ DOMAIN ops \subseteq Slots /\ \A p \in DOMAIN ops : DialogFn(ops[p])
      /\ WritesMarked /\ AloneUpToDate /\ Timers!LoadingBacked
  BY DEF DialogInv
<1>4. WritesMarked'
  <2>1. Writes' = Writes /\ \A p \in Writes : ops'[p].kind = ops[p].kind /\ ops'[p].id = ops[p].id
    BY <1>1, <1>2 DEF Writes
  <2>. QED BY <1>3, <2>1 DEF WritesMarked
<1>5. AloneUpToDate'
  <2>. SUFFICES ASSUME NEW p \in DOMAIN ops, ops[p].alone
       PROVE  /\ \A q \in DOMAIN ops \ {p} : ops'[q].kind = "power"
              /\ ops'[p].kind # "power" /\ ops'[p].at = "reply" => ops'[p].reply = timers'
    BY <1>1, <1>2 DEF AloneUpToDate
  <2>1. /\ \A q \in DOMAIN ops \ {p} : ops[q].kind = "power"
        /\ ops[p].kind # "power" /\ ops[p].at = "reply" => ops[p].reply = timers
    BY <1>3 DEF AloneUpToDate
  <2>2. \A q \in DOMAIN ops \ {p} : ops'[q].kind = "power"
    BY <1>2, <2>1
  <2>3. CASE p = o
    BY <1>1, <2>2, <2>3
  <2>4. CASE p # o
    BY <1>1, <2>1, <2>2, <2>4
  <2>. QED BY <2>3, <2>4
<1>6. Timers!LoadingBacked'
  BY <1>1, <1>2, <1>3 DEF Timers!LoadingBacked
<1>. QED BY <1>1, <1>3, <1>4, <1>5, <1>6 DEF DialogInv

\* What SerialListShown and ErrorKeepsEditor ask of a step.
SerialListStep ==
  \A o \in DOMAIN ops : o \notin DOMAIN ops' /\ ops[o].alone /\ ~timerxError' /\ ops[o].kind # "power" =>
    timerxTimers' = timers'

ErrorStep == ~timerxError /\ timerxError' => timerEditor' = timerEditor

\* A function starts with a clear error, and none ends.
LEMMA StartsQuietly ==
  ASSUME NEW kind, NEW at, NEW id, NEW mode, NEW value, Timers!Start(kind, at, id, mode, value)
  PROVE  DOMAIN ops \subseteq DOMAIN ops'
BY DEF Timers!Start, Timers!Put, Timers!Overlapped

\* The lists are read.
LEMMA RefreshSteps ==
  ASSUME DialogInv, UNCHANGED <<timers, timerxPending, timerEditor>>,
         Timers!RefreshTimerX \/ Timers!RefreshPowerHistory
         \/ UNCHANGED <<ops, powerHistoryLoading, timerxLoading, timerxError>>
  PROVE  DialogInv' /\ SerialListStep /\ ErrorStep
<1>1. CASE Timers!RefreshTimerX
  <2>1. /\ Timers!Start("list", "list", None, None, None) /\ timerxError' = FALSE
        /\ UNCHANGED powerHistoryLoading
    BY <1>1 DEF Timers!RefreshTimerX
  <2>2. DialogInv'
    BY <2>1, DialogStarts
  <2>3. DOMAIN ops \subseteq DOMAIN ops'
    BY <2>1, StartsQuietly
  <2>. QED BY <2>1, <2>2, <2>3 DEF SerialListStep, ErrorStep
<1>2. CASE Timers!RefreshPowerHistory
  <2>1. Timers!Start("power", "list", None, None, None) /\ UNCHANGED timerxLoading
    BY <1>2 DEF Timers!RefreshPowerHistory, Timers!list
  <2>2. DialogInv'
    BY <2>1, DialogStarts
  <2>3. DOMAIN ops \subseteq DOMAIN ops'
    BY <2>1, StartsQuietly
  <2>. QED BY <2>2, <2>3 DEF SerialListStep, ErrorStep
<1>3. CASE UNCHANGED <<ops, powerHistoryLoading, timerxLoading, timerxError>>
  BY <1>3, DialogQuiet DEF SerialListStep, ErrorStep
<1>. QED BY <1>1, <1>2, <1>3

\* Every step of the dialog keeps its invariant, and is serial where it ought to be.
LEMMA DialogStepKeeps ==
  ASSUME DialogInv, DialogStep
  PROVE  DialogInv' /\ SerialListStep /\ ErrorStep
<1>1. ASSUME NEW tab, Timers!OpenManage(tab) \/ Timers!SelectTab(tab)
      PROVE  DialogInv' /\ SerialListStep /\ ErrorStep
  <2>1. UNCHANGED <<timers, timerxPending, timerEditor>> /\ Timers!StartFetchForTab(tab)
    BY <1>1 DEF Timers!OpenManage, Timers!SelectTab, Timers!device
  <2>2. \/ Timers!RefreshTimerX \/ Timers!RefreshPowerHistory
        \/ UNCHANGED <<ops, powerHistoryLoading, timerxLoading, timerxError>>
    BY <2>1 DEF Timers!StartFetchForTab, Timers!power, Timers!list
  <2>. QED BY <2>1, <2>2, RefreshSteps
<1>2. CASE Timers!RefreshButton \/ Timers!RefreshHistoryButton
  <2>1. UNCHANGED <<timers, timerxPending, timerEditor>>
        /\ (Timers!RefreshTimerX \/ Timers!RefreshPowerHistory)
    BY <1>2 DEF Timers!RefreshButton, Timers!RefreshHistoryButton, Timers!device
  <2>. QED BY <2>1, RefreshSteps
<1>3. CASE Timers!CloseManage
  <2>1. UNCHANGED <<timers, ops, timerxPending, timerxLoading, powerHistoryLoading>> /\ timerxError' = FALSE
    BY <1>3 DEF Timers!CloseManage, Timers!device, Timers!power, Timers!list
  <2>. QED BY <2>1, DialogQuiet DEF SerialListStep, ErrorStep
<1>4. CASE Timers!HostChanges \/ \E editor : Timers!Edit(editor)
  <2>1. UNCHANGED <<timers, ops, timerxPending, timerxLoading, powerHistoryLoading, timerxError>>
    BY <1>4 DEF Timers!HostChanges, Timers!Edit, Timers!device, Timers!power, Timers!list, Timers!edits
  <2>. QED BY <2>1, DialogQuiet DEF SerialListStep, ErrorStep
<1>5. CASE Timers!SaveTimer
  <2>1. UNCHANGED <<timers, timerEditor, timerxLoading, powerHistoryLoading>>
    BY <1>5 DEF Timers!SaveTimer, Timers!device, Timers!power, Timers!list
  <2>2. CASE timerEditor.id = Blank
    <3>1. UNCHANGED <<ops, timerxPending>>
      BY <1>5, <2>2 DEF Timers!SaveTimer
    <3>. QED BY <2>1, <3>1, DialogQuiet DEF SerialListStep, ErrorStep
  <2>3. CASE timerEditor.id # Blank
    <3>. DEFINE id == timerEditor.id
                mode == timerEditor.mode
                value == timerEditor.value
    <3>1. /\ Timers!Start("save", "write", id, mode, value) /\ <<id, "save">> \notin timerxPending
          /\ timerxPending' = timerxPending \cup {<<id, "save">>}
      BY <1>5, <2>3 DEF Timers!SaveTimer
    <3>. HIDE DEF id, mode, value
    <3>2. DialogInv'
      BY <2>1, <3>1, DialogStarts
    <3>3. DOMAIN ops \subseteq DOMAIN ops'
      BY <3>1, StartsQuietly
    <3>. QED BY <2>1, <3>2, <3>3 DEF SerialListStep, ErrorStep
  <2>. QED BY <2>2, <2>3
<1>6. ASSUME NEW id, Timers!DeleteTimer(id)
      PROVE  DialogInv' /\ SerialListStep /\ ErrorStep
  <2>1. /\ UNCHANGED <<timers, timerEditor, timerxLoading, powerHistoryLoading>>
        /\ Timers!Start("delete", "write", id, None, None) /\ <<id, "delete">> \notin timerxPending
        /\ timerxPending' = timerxPending \cup {<<id, "delete">>}
    BY <1>6 DEF Timers!DeleteTimer, Timers!device, Timers!power, Timers!list
  <2>2. DialogInv'
    BY <2>1, DialogStarts
  <2>3. DOMAIN ops \subseteq DOMAIN ops'
    BY <2>1, StartsQuietly
  <2>. QED BY <2>1, <2>2, <2>3 DEF SerialListStep, ErrorStep
<1>7. ASSUME NEW o \in Slots, Timers!WriteHandled(o) \/ Timers!ListHandled(o)
      PROVE  DialogInv' /\ SerialListStep /\ ErrorStep
  <2>1. /\ o \in DOMAIN ops
        /\ UNCHANGED <<timerxPending, timerxLoading, powerHistoryLoading, timerxError, timerEditor>>
    BY <1>7 DEF Timers!WriteHandled, Timers!ListHandled, Timers!At, Timers!power, Timers!list, Timers!edits
  <2>2. DialogFn(ops[o])
    BY <2>1 DEF DialogInv
  <2>3. DialogInv' /\ DOMAIN ops' = DOMAIN ops
    <3>1. CASE Timers!WriteHandled(o)
      <4>. DEFINE next == [ops[o] EXCEPT !.at = "list"]
      <4>1. ops' = [ops EXCEPT ![o] = next] /\ ops[o].at = "write"
        BY <3>1 DEF Timers!WriteHandled, Timers!Awaits, Timers!At
      <4>2. /\ DialogFn(next) /\ next.kind = ops[o].kind /\ next.id = ops[o].id
            /\ next.alone = ops[o].alone /\ next.at = "list"
        BY <2>2 DEF DialogFn
      <4>3. ops[o].kind # "power"
        BY <2>2, <4>1 DEF DialogFn
      <4>. HIDE DEF next
      <4>. QED BY <2>1, <4>1, <4>2, <4>3, DialogProceeds
    <3>2. CASE Timers!ListHandled(o)
      <4>. DEFINE next == [ops[o] EXCEPT !.at = "reply", !.reply = timers]
      <4>1. ops' = [ops EXCEPT ![o] = next] /\ UNCHANGED timers
        BY <3>2 DEF Timers!ListHandled, Timers!At, Timers!device
      <4>2. /\ DialogFn(next) /\ next.kind = ops[o].kind /\ next.id = ops[o].id
            /\ next.alone = ops[o].alone /\ next.reply = timers
        BY <2>2 DEF DialogFn
      <4>. HIDE DEF next
      <4>. QED BY <2>1, <4>1, <4>2, DialogProceeds
    <3>. QED BY <1>7, <3>1, <3>2
  <2>. QED BY <2>1, <2>3 DEF SerialListStep, ErrorStep
<1>8. ASSUME NEW o \in Slots, Timers!ListShown(o)
      PROVE  DialogInv' /\ SerialListStep /\ ErrorStep
  <2>1. /\ o \in DOMAIN ops /\ ops[o].at = "reply" /\ ops[o].kind # "power"
        /\ timerxTimers' = ops[o].reply /\ ops' = Timers!Drop(ops, o)
        /\ timerxLoading' = IF ops[o].kind = "list" THEN FALSE ELSE timerxLoading
        /\ timerxPending' = timerxPending \ {<<ops[o].id, ops[o].kind>>}
        /\ UNCHANGED <<timers, powerHistoryLoading, timerxError>>
    BY <1>8 DEF Timers!ListShown, Timers!At, Timers!ClearPending, Timers!device, Timers!power
  <2>2. timerxLoading' = FALSE \/ (ops[o].kind # "list" /\ UNCHANGED timerxLoading)
    BY <2>1
  <2>3. DialogInv'
    BY <2>1, <2>2, DialogEnds
  <2>4. DOMAIN ops \ DOMAIN ops' = {o}
    BY <2>1 DEF Timers!Drop
  <2>5. ops[o].alone => ops[o].reply = timers
    BY <2>1 DEF DialogInv, AloneUpToDate
  <2>. QED BY <2>1, <2>3, <2>4, <2>5 DEF SerialListStep, ErrorStep
<1>9. ASSUME NEW o \in Slots, Timers!RequestFailed(o)
      PROVE  DialogInv' /\ SerialListStep /\ ErrorStep
  <2>1. /\ o \in DOMAIN ops /\ ops[o].kind # "power" /\ timerxError' = TRUE /\ ops' = Timers!Drop(ops, o)
        /\ timerxLoading' = IF ops[o].kind = "list" THEN FALSE ELSE timerxLoading
        /\ timerxPending' = timerxPending \ {<<ops[o].id, ops[o].kind>>}
        /\ UNCHANGED <<powerHistoryLoading, timerEditor>>
    BY <1>9 DEF Timers!RequestFailed, Timers!ClearPending, Timers!power
  <2>2. timerxLoading' = FALSE \/ (ops[o].kind # "list" /\ UNCHANGED timerxLoading)
    BY <2>1
  <2>3. DialogInv'
    BY <2>1, <2>2, DialogEnds
  <2>. QED BY <2>1, <2>3 DEF SerialListStep, ErrorStep
<1>10. ASSUME NEW o \in Slots, Timers!HistoryShown(o)
       PROVE  DialogInv' /\ SerialListStep /\ ErrorStep
  <2>1. /\ o \in DOMAIN ops /\ ops[o].kind = "power" /\ powerHistoryLoading' = FALSE
        /\ ops' = Timers!Drop(ops, o)
        /\ UNCHANGED <<timers, timerxLoading, timerxPending, timerxError, timerEditor>>
    BY <1>10 DEF Timers!HistoryShown, Timers!At, Timers!device, Timers!list, Timers!edits
  <2>2. DialogInv'
    BY <2>1, DialogEnds
  <2>3. DOMAIN ops \ DOMAIN ops' = {o}
    BY <2>1 DEF Timers!Drop
  <2>. QED BY <2>1, <2>2, <2>3 DEF SerialListStep, ErrorStep
<1>. QED BY <1>1, <1>2, <1>3, <1>4, <1>5, <1>6, <1>7, <1>8, <1>9, <1>10 DEF DialogStep, Timers!Proceed

\* The dialog opens with nothing under way.
LEMMA DialogInit ==
  ASSUME Timers!Init \/ Plug!Init
  PROVE  DialogInv
<1>1. ops = Timers!EmptyMap /\ timerxPending = {} /\ timerxLoading = FALSE /\ powerHistoryLoading = FALSE
  BY DEF Timers!Init, Plug!Init, Timers!EmptyMap, Plug!EmptyMap
<1>2. DOMAIN ops = {}
  BY <1>1 DEF Timers!EmptyMap
<1>. QED BY <1>1, <1>2 DEF DialogInv, WritesMarked, Writes, AloneUpToDate, Timers!LoadingBacked

-----------------------------------------------------------------------------
(* All of them *)

ViewsInv == LightInv /\ TriggersInv /\ DialogInv

\* The views open in it.
LEMMA ViewsInit == Init => ViewsInv
BY LightInit, TriggersInit, DialogInit DEF Init, ViewsInv

\* Every step of the views keeps it, and is one the action properties allow.
LEMMA ViewsStep ==
  ASSUME ViewsInv, [Next]_vars
  PROVE  /\ ViewsInv'
         /\ SerialListStep \/ UNCHANGED dialogVars
         /\ ErrorStep \/ UNCHANGED dialogVars
         /\ SerialTriggersStep \/ UNCHANGED triggerVars
<1>0. LightInv /\ TriggersInv /\ DialogInv
  BY DEF ViewsInv
<1>1. ASSUME UNCHANGED dialogVars PROVE DialogInv'
  BY <1>0, <1>1, DialogQuiet DEF dialogVars
<1>2. CASE DialogStep /\ UNCHANGED <<triggerVars, lightVars>>
  <2>1. DialogInv' /\ SerialListStep /\ ErrorStep
    BY <1>0, <1>2, DialogStepKeeps
  <2>. QED BY <1>0, <1>2, <2>1, LightKept, TriggersKept DEF ViewsInv
<1>3. CASE Triggers!Next /\ UNCHANGED <<dialogVars, lightVars>>
  BY <1>0, <1>1, <1>3, LightKept, TriggersStep DEF ViewsInv
<1>4. CASE Light!Next /\ UNCHANGED <<dialogVars, triggerVars>>
  BY <1>0, <1>1, <1>4, LightStep, TriggersKept DEF ViewsInv
<1>5. CASE UNCHANGED vars
  BY <1>0, <1>1, <1>5, LightKept, TriggersKept DEF ViewsInv, vars
<1>. QED BY <1>2, <1>3, <1>4, <1>5, TimersSteps, PlugSteps DEF Next

\* It always holds.
LEMMA ViewsInvariant == Spec => []ViewsInv
<1>1. ViewsInv /\ [Next]_vars => ViewsInv'
  BY ViewsStep
<1>. QED BY <1>1, ViewsInit, PTL DEF Spec

\* No mark (saving, deleting, refreshing, busy) outlives what it stands for, for any
\* number of requests under way and any mounting of the panels; those that say exactly one
\* request is under way are exact.
THEOREM MarksAlwaysTruthful == Spec => []MarksTruthful
<1>1. ViewsInv => MarksTruthful
  BY DeletesExact
     DEF ViewsInv, MarksTruthful, DialogInv, WritesMarked, Writes, LightInv, TriggersInv, FnsInv,
         Timers!PendingExact
<1>. QED BY <1>1, ViewsInvariant, PTL

\* The trigger's text is about the trigger it is labelled with, unless the user typed in
\* it or a save found another text there when it ended.
THEOREM JsonAlwaysMatchesActive == Spec => []JsonMatchesActive
<1>1. ViewsInv => JsonMatchesActive
  BY DEF ViewsInv, JsonMatchesActive, TriggersInv
<1>. QED BY <1>1, ViewsInvariant, PTL

\* A light's control shows the last report unless the user moved it since, also after its
\* panel was closed and opened again.
THEOREM ControlsAlwaysFollowReports == Spec => []ControlsFollowReports
<1>1. ViewsInv => ControlsFollowReports
  BY DEF ViewsInv, ControlsFollowReports, LightInv
<1>. QED BY <1>1, ViewsInvariant, PTL

\* A function of the triggers tab that was alone leaves the device's triggers on the screen.
THEOREM TriggersAlwaysShown == Spec => TriggersShown
<1>1. ViewsInv /\ [Next]_vars => [SerialTriggersStep]_(Triggers!vars)
  BY ViewsStep DEF triggerVars, Triggers!vars, Triggers!text, Triggers!marks
<1>. QED BY <1>1, ViewsInvariant, PTL
         DEF Spec, TriggersShown, Triggers!SerialTriggersShown, SerialTriggersStep

\* A function of the timers tab that nobody overtook leaves the device's timers on the
\* screen, and one that fails leaves what the user typed.
THEOREM TimersAlwaysShown == Spec => TimersShown
<1>1. ViewsInv /\ [Next]_vars => [SerialListStep]_(Timers!vars) /\ [ErrorStep]_(Timers!vars)
  BY ViewsStep DEF dialogVars, Timers!vars, Timers!device, Timers!dialog, Timers!power, Timers!list, Timers!edits
<1>. QED BY <1>1, ViewsInvariant, PTL
         DEF Spec, TimersShown, Timers!SerialListShown, Timers!ErrorKeepsEditor, SerialListStep, ErrorStep
=============================================================================
