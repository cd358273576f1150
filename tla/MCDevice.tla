------------------------------ MODULE MCDevice ------------------------------
(***************************************************************************)
(* What the server reads from a device, writes to it and keeps of it, in   *)
(* one run: Payloads, TimerRules, PowerHistory and ConsumptionDays.  They  *)
(* share no state; in a behaviour only the component named by running      *)
(* moves, the others rest where they began.                                *)
(***************************************************************************)
EXTENDS Integers, FiniteSets, TLC

CONSTANTS Channels, MaxItems,   \* Payloads
          Calls, Ids, Schedules, Absent, Invalid,   \* TimerRules
          Powers, Times, Buckets, MIN_BUCKET, MAX_RANGE, WINDOW, MaxSamples, MaxBacks,
          Requests, Dates, MaxCount,   \* ConsumptionDays
          None

ASSUME ChannelsAreNat == Channels \subseteq Nat /\ None \notin Channels /\ Channels # {} /\ MaxItems \in Nat
ASSUME RulesAssumption == Absent \notin Schedules /\ Invalid \notin Schedules /\ Absent # Invalid
ASSUME TimesAreNat == Times \subseteq Nat /\ IsFiniteSet(Times) /\ 0 \in Times
ASSUME PowersAreInt == Powers \subseteq Int /\ WINDOW \in Nat
ASSUME NoneIsNoTotal == None \notin [atS : Nat, wh : Nat]
ASSUME BucketPositive == MIN_BUCKET \in Nat \ {0} /\ Buckets \subseteq Nat

VARIABLES running,
          togglex, toggle, light, lamp, timerx, electricity, power, asked, reply,
          rules, call, answer, overtaken, dirty,
          clock, samples, historyReply, backs,
          counted, deviceClock, pc, list, day, writer, stored, before

payloadVars == <<togglex, toggle, light, lamp, timerx, electricity, power, asked, reply>>
ruleVars    == <<rules, call, answer, overtaken, dirty>>
historyVars == <<clock, samples, historyReply, backs>>
dayVars     == <<counted, deviceClock, pc, list, day, writer, stored, before>>
vars == <<running, payloadVars, ruleVars, historyVars, dayVars>>

Payload == INSTANCE Payloads
Rules   == INSTANCE TimerRules
History == INSTANCE PowerHistory WITH reply <- historyReply
Days    == INSTANCE ConsumptionDays WITH clock <- deviceClock, Calls <- Requests

Init ==
    /\ running \in {"payload", "rules", "history", "days"}
    /\ \/ running = "payload"
       \/ /\ togglex = Payload!NoSection /\ toggle = Payload!NoSection /\ light = Payload!NoSection
          /\ lamp = Payload!NoSection /\ timerx = Payload!NoSection
          /\ electricity = Payload!NoReading /\ power = Payload!NoReading
          /\ asked = CHOOSE c \in Channels : TRUE
    /\ Payload!Init
    /\ running = "rules" \/ rules = [k \in Rules!Kinds |-> Rules!EmptyMap]
    /\ Rules!Init
    /\ running = "history" \/ clock = 0
    /\ History!Init
    /\ Days!Init

Next ==
    \/ running = "payload" /\ Payload!Next /\ UNCHANGED <<running, ruleVars, historyVars, dayVars>>
    \/ running = "rules" /\ Rules!Next /\ UNCHANGED <<running, payloadVars, historyVars, dayVars>>
    \/ running = "history" /\ History!Next /\ UNCHANGED <<running, payloadVars, ruleVars, dayVars>>
    \/ running = "days" /\ Days!Next /\ UNCHANGED <<running, payloadVars, ruleVars, historyVars>>

Spec == Init /\ [][Next]_vars

Symmetry == Permutations(Calls) \cup Permutations(Ids)

-----------------------------------------------------------------------------
\* A firmware that nests its switches or lights is read like one that does not, a power
\* reading is found under either key, and the state handed to a caller is one the device
\* reported for that very channel.
PayloadsRead ==
    running = "payload" =>
        Payload!NestingIrrelevant /\ Payload!ReadingFound /\ Payload!ReplyReported

\* A rule is gone after a delete answered "deleted" and disabled after "disabled", until
\* another call writes it, whichever of its requests the device refused.
DeleteTruthful == running = "rules" => Rules!DeleteTruthful

\* A patch nobody overtook leaves all it does not name as it was, and a list during
\* which nobody wrote is complete.
SerialRulesExact == Rules!PatchKeepsRest /\ Rules!ListComplete

\* The history's buckets lose and double no reading, and while the clock is not set
\* back the current reading is as recent as the last one recorded.
PowerReported == running = "history" => History!HistoryConserves /\ History!CurrentIsLast

\* A stored day falls behind a total that was stored for it only where two requests
\* overlapped and the older answer was handled last.
DaysCurrent == running = "days" => Days!BehindOnlyByOverlap
=============================================================================
