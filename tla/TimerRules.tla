----------------------------- MODULE TimerRules -----------------------------
(***************************************************************************)
(* The handlers of packages/core/src/api that list, set, patch and delete  *)
(* the TimerX and TriggerX rules of a device.  The rules live on the       *)
(* device, so a patch or a delete is a GET and one or two SETs over the    *)
(* LAN, with other calls in between.                                       *)
(*                                                                         *)
(* A rule has an enable flag, the action of extend.toggle.onoff (Absent in *)
(* rules without one) and a schedule, which stands for alias, channel,     *)
(* type, week, time, sunOffset and duration.                               *)
(***************************************************************************)
EXTENDS Naturals, Sequences, FiniteSets, Maps

CONSTANTS
  Calls,       \* requests to the server
  Ids,         \* rule ids
  Schedules,
  Absent,      \* a field that is not there
  Invalid      \* a schedule field that is no number

VARIABLES
  rules,    \* kind -> the rules on the device
  call,     \* calls under way
  answer,   \* calls that were answered
  overtaken,\* history: calls whose rule another call has written since the device took
            \* or refused their last SET
  dirty     \* history: lists and patches whose view was changed by another call

vars == <<rules, call, answer, overtaken, dirty>>

Kinds == {"timerx", "triggerx"}
OnOff == {0, 1, Absent}
Rule == [enable : {0, 1}, onoff : OnOff, schedule : Schedules]
Patch == [enable : OnOff, onoff : OnOff, schedule : Schedules \cup {Absent, Invalid}]
NoPatch == [enable |-> Absent, onoff |-> Absent, schedule |-> Absent]

\* A call: the operation, the step it is at, the rule it is about to SET, what the
\* device replied to that SET, and for a list the ids still to be read and the rules
\* read.
Call(op, kind, id, patch, rule) ==
  [op |-> op, kind |-> kind, id |-> id, patch |-> patch, rule |-> rule, at |-> "start",
   reply |-> "none", ids |-> {}, read |-> EmptyMap]

\* An answer; an error says nothing of the rule.
Answer(outcome, c) ==
  [outcome |-> outcome, call |-> IF outcome = "error" THEN Absent ELSE call[c]]

Init ==
  /\ \E some \in SUBSET Ids : \E r \in [some -> Rule] :
       rules = [k \in Kinds |-> IF k = "timerx" THEN r ELSE EmptyMap]
  /\ call = EmptyMap /\ answer = EmptyMap
  /\ overtaken = {} /\ dirty = {}

Finish(c, outcome) ==
  /\ answer' = Put(answer, c, Answer(outcome, c))
  /\ call' = Drop(call, c)

Continue(c, record) == call' = Put(call, c, record) /\ UNCHANGED answer

-----------------------------------------------------------------------------
(* The requests; what the handlers refuse before they turn to the device   *)
(* changes nothing and is left out: a missing uuid, id or rule, an empty   *)
(* patch.                                                                  *)

Begin(c, record) ==
  /\ c \notin DOMAIN call \cup DOMAIN answer
  /\ call' = Put(call, c, record)
  /\ UNCHANGED <<rules, answer, overtaken, dirty>>

List(c, kind) == Begin(c, Call("list", kind, Absent, NoPatch, Absent))

SetRule(c, kind, id) == \E r \in Rule : Begin(c, Call("set", kind, id, NoPatch, r))

PatchRule(c, id) == \E p \in Patch \ {NoPatch} : Begin(c, Call("patch", "timerx", id, p, Absent))

DeleteRule(c, kind, id) == Begin(c, Call("delete", kind, id, NoPatch, Absent))

-----------------------------------------------------------------------------
(* Reads from the device *)

Step(c, op, at) == c \in DOMAIN call /\ call[c].op = op /\ call[c].at = at

\* Every request ends in an exception of its own: a timeout, also of a SET that the
\* device has taken, an HTTP error, no key or no host.
LanError(c) ==
  /\ c \in DOMAIN call
  /\ Finish(c, "error")
  /\ UNCHANGED <<rules, overtaken, dirty>>

\* System.All: the digest has the ids of all rules.
ListDigest(c) ==
  /\ Step(c, "list", "start")
  /\ Continue(c, [call[c] EXCEPT !.at = "rules", !.ids = DOMAIN rules[call[c].kind]])
  /\ UNCHANGED <<rules, overtaken, dirty>>

\* A fault: the last id is not read.
M_ListRule(c) ==
  /\ Step(c, "list", "rules")
  /\ IF Cardinality(call[c].ids) < 2
     THEN Finish(c, "ok")
     ELSE \E id \in call[c].ids :
            Continue(c, [call[c] EXCEPT !.ids = @ \ {id}, !.read = Put(@, id, rules[call[c].kind][id])])
  /\ UNCHANGED <<rules, overtaken, dirty>>

\* One GET per id, one after the other; a rule that is gone meanwhile is left out.
ListRule(c) ==
  /\ Step(c, "list", "rules")
  /\ IF call[c].ids = {}
     THEN Finish(c, "ok")
     ELSE \E id \in call[c].ids :
            Continue(c, [call[c] EXCEPT !.ids = @ \ {id},
                           !.read = IF id \in DOMAIN rules[call[c].kind]
                                    THEN Put(@, id, rules[call[c].kind][id]) ELSE @])
  /\ UNCHANGED <<rules, overtaken, dirty>>

\* The fields are changed one by one; the first that cannot be ends the call.
Patchable(rule, patch) ==
  /\ patch.schedule # Invalid
  /\ patch.onoff # Absent => rule.onoff # Absent

\* A fault: a field the patch does not name is reset.
M_Patched(rule, patch) ==
  [f \in DOMAIN rule |-> IF patch[f] # Absent THEN patch[f] ELSE IF f = "enable" THEN 1 ELSE rule[f]]

Patched(rule, patch) == [f \in DOMAIN rule |-> IF patch[f] = Absent THEN rule[f] ELSE patch[f]]

PatchGet(c) ==
  /\ Step(c, "patch", "start")
  /\ LET id == call[c].id
         rule == rules["timerx"][id]
     IN IF id \in DOMAIN rules["timerx"] /\ Patchable(rule, call[c].patch)
        THEN Continue(c, [call[c] EXCEPT !.at = "set", !.rule = Patched(rule, call[c].patch)])
        ELSE Finish(c, "error")
  /\ UNCHANGED <<rules, overtaken, dirty>>

\* delete: a timer that is not found is an error; for a trigger, {id} will do, and
\* also if the GET failed.
DeleteGet(c) ==
  /\ Step(c, "delete", "start")
  /\ LET here == rules[call[c].kind]
         id == call[c].id
     IN \/ /\ id \in DOMAIN here
           /\ Continue(c, [call[c] EXCEPT !.at = "remove", !.rule = here[id]])
        \/ /\ call[c].kind = "timerx" /\ id \notin DOMAIN here
           /\ Finish(c, "error")
        \/ /\ call[c].kind = "triggerx"
           /\ \E s \in Schedules :   \* the device fills in what {id} leaves out
                Continue(c, [call[c] EXCEPT !.at = "remove",
                               !.rule = [enable |-> 0, onoff |-> Absent, schedule |-> s]])
  /\ UNCHANGED <<rules, overtaken, dirty>>

-----------------------------------------------------------------------------
(* Writes: the device takes or refuses a SET, and the handler reads its reply *)

\* A SET that the device has not seen yet.
Sent(c) ==
  /\ Step(c, "set", "start") \/ Step(c, "patch", "set")
       \/ Step(c, "delete", "remove") \/ Step(c, "delete", "disable")
  /\ call[c].reply = "none"

\* A fault: the second SET of a delete sends the rule as it was read.
M_SentRule(c) == call[c].rule
SentRule(c) == IF call[c].at = "disable" THEN [call[c].rule EXCEPT !.enable = 0] ELSE call[c].rule

\* enable -1 removes the rule.
Result(c) ==
  LET here == rules[call[c].kind]
  IN IF call[c].at = "remove" THEN Drop(here, call[c].id) ELSE Put(here, call[c].id, SentRule(c))

AboutSameRule(c) ==
  {d \in DOMAIN call \ {c} :
     call[d].kind = call[c].kind /\ call[d].id = call[c].id /\ call[d].reply # "none"} \cup
  {d \in DOMAIN answer : /\ answer[d].outcome # "error"
                         /\ answer[d].call.kind = call[c].kind /\ answer[d].call.id = call[c].id}

\* Other lists and patches of the kind now work on an outdated view.
DeviceApplies(c) ==
  /\ Sent(c)
  /\ rules' = [rules EXCEPT ![call[c].kind] = Result(c)]
  /\ Continue(c, [call[c] EXCEPT !.reply = "ok"])
  /\ overtaken' = (overtaken \ {c}) \cup AboutSameRule(c)
  /\ dirty' = dirty \cup {d \in DOMAIN call \ {c} :
                            /\ call[d].op \in {"list", "patch"}
                            /\ call[d].kind = call[c].kind /\ call[d].at # "start"}

\* A reply with an error code.
DeviceRefuses(c) ==
  /\ Sent(c)
  /\ Continue(c, [call[c] EXCEPT !.reply = "code"])
  /\ overtaken' = overtaken \ {c}
  /\ UNCHANGED <<rules, dirty>>

Replied(c, op, at) == Step(c, op, at) /\ call[c].reply # "none"

\* setTimerX, setTriggerX at the end of set and patch: the reply is not looked at.
SetReplied(c) ==
  /\ Replied(c, "set", "start") \/ Replied(c, "patch", "set")
  /\ Finish(c, "ok")
  /\ UNCHANGED <<rules, overtaken, dirty>>

\* A fault: the error code is overlooked, as set and patch do.
M_RemoveReplied(c) ==
  /\ Replied(c, "delete", "remove")
  /\ Finish(c, "deleted")
  /\ UNCHANGED <<rules, overtaken, dirty>>

RemoveReplied(c) ==
  /\ Replied(c, "delete", "remove")
  /\ IF call[c].reply = "ok" THEN Finish(c, "deleted")
     ELSE Continue(c, [call[c] EXCEPT !.at = "disable", !.reply = "none"])
  /\ UNCHANGED <<rules, overtaken, dirty>>

DisableReplied(c) ==
  /\ Replied(c, "delete", "disable")
  /\ Finish(c, IF call[c].reply = "ok" THEN "disabled" ELSE "error")
  /\ UNCHANGED <<rules, overtaken, dirty>>

\* Every request has been answered.
AllDone == DOMAIN answer = Calls /\ UNCHANGED vars

Next ==
  \/ AllDone
  \/ \E c \in Calls :
       \/ \E k \in Kinds : List(c, k)
       \/ \E id \in Ids : PatchRule(c, id) \/ \E k \in Kinds : SetRule(c, k, id) \/ DeleteRule(c, k, id)
       \/ LanError(c) \/ ListDigest(c) \/ ListRule(c) \/ PatchGet(c) \/ DeleteGet(c)
       \/ DeviceApplies(c) \/ DeviceRefuses(c)
       \/ SetReplied(c) \/ RemoveReplied(c) \/ DisableReplied(c)

Spec == Init /\ [][Next]_vars

-----------------------------------------------------------------------------
(* Properties *)

\* The device takes the SET of a call.
Writes(c) ==
  /\ c \in DOMAIN call \cap DOMAIN call'
  /\ call[c].reply = "none" /\ call'[c].reply = "ok"

\* Whatever is answered, a patch that nobody overtook between its GET and its SET
\* leaves the fields it does not name, and all other rules, as they were.
PatchKeepsRest ==
  [][\A c \in DOMAIN call : call[c].op = "patch" /\ c \notin dirty /\ Writes(c) =>
       /\ Drop(rules'["timerx"], call[c].id) = Drop(rules["timerx"], call[c].id)
       /\ \A f \in {"enable", "onoff", "schedule"} : call[c].patch[f] = Absent =>
            rules'["timerx"][call[c].id][f] = rules["timerx"][call[c].id][f]]_vars

\* A delete that answers "deleted" leaves no rule of that id, and one that answers
\* "disabled" a disabled rule, unless another call wrote the rule after the device had
\* decided on the last SET of the delete: a refusal is never taken for a success, with
\* whatever other calls and lost replies come between the GET and the two SETs.
DeleteTruthful ==
  \A c \in DOMAIN answer :
    LET here == rules[answer[c].call.kind]
        id == answer[c].call.id
    IN answer[c].outcome \in {"deleted", "disabled"} /\ c \notin overtaken =>
         /\ answer[c].outcome = "deleted" => id \notin DOMAIN here
         /\ answer[c].outcome = "disabled" => id \in DOMAIN here /\ here[id].enable = 0

\* A list during which nobody wrote is complete when it is answered.
ListComplete ==
  [][\A c \in DOMAIN call :
       call[c].op = "list" /\ c \in DOMAIN answer' /\ answer'[c].outcome = "ok" /\ c \notin dirty =>
         answer'[c].call.read = rules[call[c].kind]]_vars

\* set-device-timerx.ts, patch-device-timerx.ts: "Create/update a TimerX rule", and
\* `updated` in the answer: the device has the rule a call reported as done, until
\* another call writes it.
SetTruthful ==
  \A c \in DOMAIN answer :
    LET here == rules[answer[c].call.kind]
        id == answer[c].call.id
    IN answer[c].outcome = "ok" /\ answer[c].call.op \in {"set", "patch"} /\ c \notin overtaken =>
         id \in DOMAIN here /\ here[id] = answer[c].call.rule

\* patch-device-timerx.ts: "Patch TimerX fields over LAN by mutating the existing
\* rule": a field a patch does not name is not changed by it.
OnlyNamedFields ==
  [][\A c \in DOMAIN call :
       call[c].op = "patch" /\ Writes(c) /\ call[c].id \in DOMAIN rules["timerx"] =>
         \A f \in {"enable", "onoff", "schedule"} : call[c].patch[f] = Absent =>
           rules'["timerx"][call[c].id][f] = rules["timerx"][call[c].id][f]]_vars
=============================================================================
