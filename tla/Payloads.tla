------------------------------ MODULE Payloads ------------------------------
(***************************************************************************)
(* How the answers of devices are read.  Firmwares put the same facts      *)
(* under different keys, as one object or as a list, some one level deeper *)
(* than others: packages/core/src/api/shared.ts tries its candidates in    *)
(* order, and get-device-state.ts answers from what they gave.             *)
(* A section of a digest has a form and items; an item without a usable    *)
(* channel has channel None.  Of an item only the channel and the switch   *)
(* are kept, of a reading which of its three values are numbers.           *)
(***************************************************************************)
EXTENDS Naturals, Sequences, FiniteSets, FiniteSetsExt

CONSTANTS Channels,
          MaxItems,   \* bound of the model: items in a section
          None

VARIABLES togglex, toggle, light, lamp, timerx,   \* sections of the digest
          electricity, power,   \* payload.electricity, digest.electricity
          asked,    \* the channel POST /api/device/state asks for
          reply     \* its answer

digest == <<togglex, toggle, light, lamp, timerx, electricity, power>>
vars == <<digest, asked, reply>>

Bad == [channel |-> None, onoff |-> 0]
Item == [channel : Channels, onoff : {0, 1}] \cup {Bad}
Some(n) == UNION {[1 .. k -> Item] : k \in 0 .. n}

NoSection == [form |-> "absent", items |-> <<>>]
Section ==
    {NoSection} \cup [form : {"list", "nested"}, items : Some(MaxItems)] \cup [form : {"one"}, items : Some(1) \ {<<>>}]

\* Array.isArray(c) ? c : [c] of a key's own value: the wrapper of a nested
\* section is an object without a channel.
Own(s) == IF s.form = "nested" THEN <<Bad>> ELSE s.items

\* The value one level down.
Inner(s) == IF s.form = "nested" THEN s.items ELSE <<>>

\* Array.sort keeps the order of items with the same channel.
Before(items, k, m) ==
    \/ items[k].channel < items[m].channel
    \/ items[k].channel = items[m].channel /\ k < m

\* Items whose channel is a natural number, by channel.
Usable(items) ==
    LET valid == {k \in DOMAIN items : items[k].channel # None}
        order == CHOOSE p \in [1 .. Cardinality(valid) -> valid] :
                    \A i, j \in 1 .. Cardinality(valid) : i < j => Before(items, p[i], p[j])
    IN  [i \in 1 .. Cardinality(valid) |-> items[order[i]]]

\* A fault: only the first candidate is looked at.
M_FirstUsable(cands) == Usable(cands[1])

\* The first candidate that yields anything.
FirstUsable(cands) ==
    LET full == {k \in DOMAIN cands : Usable(cands[k]) # <<>>}
    IN  IF full = {} THEN <<>> ELSE Usable(cands[Min(full)])

\* digest.toggleX and digest.toggle are alike: toggle stands for both.
ExtractLanToggleX(x, t) == FirstUsable(<<Own(x), Own(t), Inner(x)>>)

ExtractLanLight(l, a) == FirstUsable(<<Own(l), Inner(l), Own(a), Inner(a)>>)

\* The loop returns at the first candidate that is there, usable or not.
ExtractLanScheduleDigest(s) == Usable(Own(s))

\* A reading is one object, or wrapped in another; a missing channel is 0.
NoReading == [form |-> "absent", channel |-> None, values |-> {}]
Readings == {NoReading} \cup [form : {"one", "nested"}, channel : {0, None},
                              values : SUBSET {"voltage", "current", "power"}]
Wrapper == [form |-> "one", channel |-> 0, values |-> {}]

\* A fault: the first candidate that is there decides.
M_ExtractLanElectricity(direct, inDigest) ==
    IF direct # NoReading THEN direct.values ELSE inDigest.values

ExtractLanElectricity(direct, inDigest) ==
    LET Level(e) == IF e.form = "nested" THEN <<Wrapper, e>> ELSE <<e>>
        cands    == Level(direct) \o Level(inDigest)
        readable == {k \in DOMAIN cands : cands[k].channel # None /\ cands[k].values # {}}
    IN  IF readable = {} THEN {} ELSE cands[Min(readable)].values

\* The states of a channel; the handler takes the first.
Find(states, channel) == {k \in DOMAIN states : states[k].channel = channel}

\* A fault: any channel will do.
M_StateReply(toggles, lights, channel) ==
    LET match == toggles \o lights
    IN  IF match = <<>> THEN [ok |-> FALSE] ELSE [ok |-> TRUE, onoff |-> Head(match).onoff]

\* The answer for a channel: a light counts before a switch.
StateReply(toggles, lights, channel) ==
    LET lightMatch  == Find(lights, channel)
        toggleMatch == Find(toggles, channel)
    IN  CASE lightMatch # {} -> [ok |-> TRUE, onoff |-> lights[Min(lightMatch)].onoff]
          [] lightMatch = {} /\ toggleMatch # {} -> [ok |-> TRUE, onoff |-> toggles[Min(toggleMatch)].onoff]
          [] OTHER -> [ok |-> FALSE]

\* One kind of section is varied at a time, with its alternatives.
Init ==
    /\ \/ togglex \in Section /\ toggle \in Section /\ light = NoSection /\ lamp = NoSection
       \/ togglex \in Section /\ toggle = NoSection /\ light \in Section /\ lamp = NoSection
       \/ togglex = NoSection /\ toggle = NoSection /\ light \in Section /\ lamp \in Section
    /\ \/ electricity = NoReading /\ power = NoReading /\ timerx = NoSection
       \/ /\ \A s \in {togglex, toggle, light, lamp} : s = NoSection
          /\ electricity \in Readings /\ power \in Readings
          /\ timerx \in {NoSection} \cup [form : {"list", "nested"}, items : {<<[channel |-> 0, onoff |-> 1]>>}]
    /\ asked \in Channels
    /\ reply = None

\* Appliance.System.All answered; the handler replies.
GetDeviceState ==
    /\ reply = None
    /\ reply' = [state |-> StateReply(ExtractLanToggleX(togglex, toggle),
                                      ExtractLanLight(light, lamp), asked),
                 timerxDigest |-> ExtractLanScheduleDigest(timerx)]
    /\ UNCHANGED <<digest, asked>>

Rest == reply # None /\ UNCHANGED vars

Next == GetDeviceState \/ Rest

Spec == Init /\ [][Next]_vars

-----------------------------------------------------------------------------
Flattened(s) == IF s.form = "nested" THEN [s EXCEPT !.form = "list"] ELSE s

\* extractLanToggleX and extractLanLight read a firmware that nests a section
\* as they read the same section without the nesting, whatever else of the
\* section is unusable.
NestingIrrelevant ==
    /\ ExtractLanLight(light, lamp) = ExtractLanLight(Flattened(light), Flattened(lamp))
    /\ toggle = NoSection => ExtractLanToggleX(togglex, toggle) = ExtractLanToggleX(Flattened(togglex), toggle)

\* A power reading is found under either of the two keys firmwares use: next to a
\* payload or digest entry that is empty or unusable as well as alone.
ReadingFound ==
    \A e \in {electricity, power} :
        (e.channel # None /\ e.values # {}) => ExtractLanElectricity(electricity, power) # {}

\* The state handed to the caller is one the device reported for that very
\* channel, and a channel the device reports under its first key is found.
ReplyReported ==
    LET Said(s) == {s.items[k] : k \in DOMAIN s.items}
    IN  reply # None =>
            /\ reply.state.ok => [channel |-> asked, onoff |-> reply.state.onoff] \in
                               Said(togglex) \cup Said(toggle) \cup Said(light) \cup Said(lamp)
            /\ (\E it \in Said(light) : it.channel = asked) => reply.state.ok

\* What shared.ts says of the timer and trigger digest: "Some firmwares nest
\* digest keys one level down."  A nested digest is read as a flat one.
ScheduleNesting ==
    reply # None => reply.timerxDigest = ExtractLanScheduleDigest(Flattened(timerx))
=============================================================================
