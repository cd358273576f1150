---------------------------- MODULE DeviceProofs ----------------------------
(* Theorems about the rules of a device, the stored days and the recorded    *)
(* readings, for every set of requests, ids, schedules, dates and times.     *)
EXTENDS MCDevice, Sequences, FiniteData

-----------------------------------------------------------------------------
(* The stored days *)

Entry == [atS : Nat, wh : Nat]

\* A total that is at least as recent as another, and at least as large.
Covers(new, old) == old.atS <= new.atS /\ old.wh <= new.wh

\* The device counts on, and its time with it.
Counting ==
  /\ deviceClock \in Nat
  /\ DOMAIN counted = Dates
  /\ \A d \in Dates : counted[d] \in Entry /\ counted[d].atS <= deviceClock

\* A request has extracted what was counted when it was answered.
Extracted ==
  /\ DOMAIN list = Requests /\ DOMAIN pc = Requests
  /\ \A c \in Requests :
       /\ DOMAIN list[c] \subseteq Dates
       /\ pc[c] \in {"idle", "asked"} => DOMAIN list[c] = {}
       /\ \A d \in DOMAIN list[c] : list[c][d] \in Entry /\ Covers(counted[d], list[c][d])

\* So that one sent after another had ended has the later totals.
InTurn ==
  /\ DOMAIN before = Requests
  /\ \A c \in Requests : \A e \in before[c] :
       /\ e \in Requests /\ pc[e] = "done"
       /\ \A d \in DOMAIN list[c] \cap DOMAIN list[e] : Covers(list[c][d], list[e][d])

\* A row is the entry of the request that has written it last.
RowsWritten ==
  /\ DOMAIN stored = Requests /\ DOMAIN day = Dates /\ DOMAIN writer = Dates
  /\ \A c \in Requests : \A d \in stored[c] :
       /\ d \in DOMAIN list[c]
       /\ writer[d] \in Requests /\ d \in DOMAIN list[writer[d]]
       /\ day[d] = list[writer[d]][d]

DaysInv == Counting /\ Extracted /\ InTurn /\ RowsWritten

\* The row of a day then is as recent as what any request that had ended before its
\* writer was sent has stored.
LEMMA DaysImply ==
  ASSUME DaysInv
  PROVE  Days!BehindOnlyByOverlap
<1>. SUFFICES ASSUME NEW d \in Dates, NEW e \in Requests, d \in stored[e], Days!Behind(day[d], list[e][d])
     PROVE  writer[d] \in Requests \ {e} /\ e \notin before[writer[d]]
  BY DEF Days!BehindOnlyByOverlap
<1>1. /\ writer[d] \in Requests /\ d \in DOMAIN list[writer[d]] /\ d \in DOMAIN list[e]
      /\ day[d] = list[writer[d]][d]
  BY DEF DaysInv, RowsWritten
<1>2. day[d] \in Entry /\ list[e][d] \in Entry
  BY <1>1 DEF DaysInv, Extracted
<1>3. ~ Covers(day[d], list[e][d])
  BY <1>2, NoneIsNoTotal DEF Days!Behind, Covers, Entry
<1>4. writer[d] # e
  BY <1>1, <1>2, <1>3 DEF Covers, Entry
<1>5. e \notin before[writer[d]]
  BY <1>1, <1>3 DEF DaysInv, InTurn
<1>. QED BY <1>1, <1>4, <1>5

\* The device counts on.
LEMMA MeterStep ==
  ASSUME DaysInv, NEW d \in Dates, Days!Meter(d)
  PROVE  DaysInv'
<1>1. /\ deviceClock' = deviceClock + 1
      /\ counted' = [counted EXCEPT ![d] = [atS |-> deviceClock', wh |-> counted[d].wh + 1]]
      /\ UNCHANGED <<pc, list, day, writer, stored, before>>
  BY DEF Days!Meter
<1>2. /\ DOMAIN counted' = Dates /\ counted'[d] = [atS |-> deviceClock', wh |-> counted[d].wh + 1]
      /\ \A x \in Dates \ {d} : counted'[x] = counted[x]
  BY <1>1 DEF DaysInv, Counting
<1>3. Counting' /\ \A x \in Dates : Covers(counted'[x], counted[x])
  BY <1>1, <1>2 DEF DaysInv, Counting, Covers, Entry
<1>4. Extracted'
  <2>1. ASSUME NEW c \in Requests, NEW x \in DOMAIN list[c] PROVE Covers(counted'[x], list[c][x])
    <3>1. x \in Dates /\ list[c][x] \in Entry /\ Covers(counted[x], list[c][x])
      BY DEF DaysInv, Extracted
    <3>2. counted[x] \in Entry /\ counted'[x] \in Entry
      BY <1>3, <3>1 DEF DaysInv, Counting
    <3>. QED BY <1>3, <3>1, <3>2 DEF Covers, Entry
  <2>. QED BY <1>1, <2>1 DEF DaysInv, Extracted
<1>5. InTurn' /\ RowsWritten'
  BY <1>1 DEF DaysInv, InTurn, RowsWritten
<1>. QED BY <1>3, <1>4, <1>5 DEF DaysInv

\* A request is sent: those that have ended by now are before it.
LEMMA AskStep ==
  ASSUME DaysInv, NEW c \in Requests, Days!GetConsumptionX(c)
  PROVE  DaysInv'
<1>1. /\ pc[c] = "idle" /\ pc' = [pc EXCEPT ![c] = "asked"]
      /\ before' = [before EXCEPT ![c] = {e \in Requests : pc[e] = "done"}]
      /\ UNCHANGED <<counted, deviceClock, list, day, writer, stored>>
  BY DEF Days!GetConsumptionX
<1>2. /\ DOMAIN pc' = Requests /\ \A e \in Requests : pc'[e] = IF e = c THEN "asked" ELSE pc[e]
      /\ DOMAIN before' = Requests
      /\ \A e \in Requests : before'[e] = IF e = c THEN {x \in Requests : pc[x] = "done"} ELSE before[e]
  BY <1>1 DEF DaysInv, Extracted, InTurn
<1>3. Counting' /\ RowsWritten'
  BY <1>1 DEF DaysInv, Counting, RowsWritten
<1>4. Extracted'
  BY <1>1, <1>2 DEF DaysInv, Extracted
<1>5. InTurn'
  <2>1. DOMAIN list[c] = {}
    BY <1>1 DEF DaysInv, Extracted
  <2>. QED BY <1>1, <1>2, <2>1 DEF DaysInv, InTurn
<1>. QED BY <1>3, <1>4, <1>5 DEF DaysInv

\* An answer of the device: what is counted by now.
LEMMA AnswerStep ==
  ASSUME DaysInv, NEW c \in Requests, NEW valid \in SUBSET Dates, Days!DeviceAnswers(c, valid)
  PROVE  DaysInv'
<1>. DEFINE entries == [d \in valid |-> counted[d]]
<1>1. /\ pc[c] = "asked" /\ pc' = [pc EXCEPT ![c] = "answered"]
      /\ list' = [list EXCEPT ![c] = entries]
      /\ UNCHANGED <<counted, deviceClock, day, writer, stored, before>>
  BY DEF Days!DeviceAnswers, Days!ExtractConsumptionX
<1>2. DOMAIN entries = valid /\ \A d \in valid : entries[d] = counted[d]
  OBVIOUS
<1>. HIDE DEF entries
<1>3. /\ DOMAIN pc' = Requests /\ \A e \in Requests : pc'[e] = IF e = c THEN "answered" ELSE pc[e]
      /\ DOMAIN list' = Requests /\ list'[c] = entries /\ \A e \in Requests \ {c} : list'[e] = list[e]
  BY <1>1 DEF DaysInv, Extracted
<1>4. Counting'
  BY <1>1 DEF DaysInv, Counting
<1>5. Extracted'
  <2>1. \A d \in valid : entries[d] \in Entry /\ Covers(counted[d], entries[d])
    BY <1>2 DEF DaysInv, Counting, Covers, Entry
  <2>. QED BY <1>1, <1>2, <1>3, <2>1 DEF DaysInv, Extracted
<1>6. InTurn'
  <2>1. ASSUME NEW x \in Requests, NEW e \in before[x]
        PROVE  /\ e \in Requests /\ pc'[e] = "done"
               /\ \A d \in DOMAIN list'[x] \cap DOMAIN list'[e] : Covers(list'[x][d], list'[e][d])
    <3>1. e \in Requests /\ pc[e] = "done" /\ e # c
      BY <1>1 DEF DaysInv, InTurn
    <3>2. pc'[e] = "done" /\ list'[e] = list[e]
      BY <1>3, <3>1
    <3>3. CASE x = c
      BY <1>2, <1>3, <3>1, <3>2, <3>3 DEF DaysInv, Extracted
    <3>4. CASE x # c
      BY <1>3, <3>1, <3>2, <3>4 DEF DaysInv, InTurn
    <3>. QED BY <3>1, <3>2, <3>3, <3>4
  <2>. QED BY <1>1, <2>1 DEF DaysInv, InTurn
<1>7. RowsWritten'
  <2>1. DOMAIN list[c] = {}
    BY <1>1 DEF DaysInv, Extracted
  <2>2. ASSUME NEW x \in Requests, NEW d \in stored[x]
        PROVE  /\ d \in DOMAIN list'[x]
               /\ d \in DOMAIN list'[writer[d]] /\ day[d] = list'[writer[d]][d]
    <3>1. /\ d \in DOMAIN list[x] /\ writer[d] \in Requests /\ d \in DOMAIN list[writer[d]]
          /\ day[d] = list[writer[d]][d]
      BY DEF DaysInv, RowsWritten
    <3>2. x # c /\ writer[d] # c
      BY <2>1, <3>1
    <3>. QED BY <1>3, <3>1, <3>2
  <2>. QED BY <1>1, <2>2 DEF DaysInv, RowsWritten
<1>. QED BY <1>4, <1>5, <1>6, <1>7 DEF DaysInv

\* The rows of a request are stored, all or some of them.
LEMMA ReplyStep ==
  ASSUME DaysInv, NEW c \in Requests, NEW written \in SUBSET DOMAIN list[c], Days!Reply(c, written)
  PROVE  DaysInv'
<1>1. /\ pc' = [pc EXCEPT ![c] = "done"]
      /\ day' = [d \in Dates |-> IF d \in written THEN list[c][d] ELSE day[d]]
      /\ writer' = [d \in Dates |-> IF d \in written THEN c ELSE writer[d]]
      /\ stored' = [stored EXCEPT ![c] = written]
      /\ UNCHANGED <<counted, deviceClock, list, before>>
  BY DEF Days!Reply, Days!Store, Days!UpsertConsumptionDay
<1>2. /\ DOMAIN pc' = Requests /\ \A e \in Requests : pc'[e] = IF e = c THEN "done" ELSE pc[e]
      /\ DOMAIN stored' = Requests /\ \A e \in Requests : stored'[e] = IF e = c THEN written ELSE stored[e]
  BY <1>1 DEF DaysInv, Extracted, RowsWritten
<1>3. Counting'
  BY <1>1 DEF DaysInv, Counting
<1>4. Extracted'
  BY <1>1, <1>2 DEF DaysInv, Extracted
<1>5. InTurn'
  BY <1>1, <1>2 DEF DaysInv, InTurn
<1>6. RowsWritten'
  <2>1. written \subseteq Dates
    BY DEF DaysInv, Extracted
  <2>2. ASSUME NEW x \in Requests, NEW d \in stored'[x]
        PROVE  /\ d \in DOMAIN list[x]
               /\ writer'[d] \in Requests /\ d \in DOMAIN list[writer'[d]] /\ day'[d] = list[writer'[d]][d]
    <3>1. CASE d \in written
      <4>1. d \in Dates /\ writer'[d] = c /\ day'[d] = list[c][d]
        BY <1>1, <2>1, <3>1
      <4>2. d \in DOMAIN list[x]
        BY <1>2, <3>1 DEF DaysInv, RowsWritten
      <4>. QED BY <3>1, <4>1, <4>2
    <3>2. CASE d \notin written
      <4>1. d \in stored[x]
        BY <1>2, <3>2
      <4>2. d \in Dates
        BY <4>1 DEF DaysInv, RowsWritten, Extracted
      <4>3. writer'[d] = writer[d] /\ day'[d] = day[d]
        BY <1>1, <3>2, <4>2
      <4>. QED BY <4>1, <4>3 DEF DaysInv, RowsWritten
    <3>. QED BY <3>1, <3>2
  <2>. QED BY <1>1, <1>2, <2>2 DEF RowsWritten
<1>. QED BY <1>3, <1>4, <1>5, <1>6 DEF DaysInv

\* A request ends without an answer.
LEMMA NoAnswerStep ==
  ASSUME DaysInv, NEW c \in Requests, Days!LanError(c)
  PROVE  DaysInv'
<1>1. /\ pc' = [pc EXCEPT ![c] = "done"]
      /\ UNCHANGED <<counted, deviceClock, list, day, writer, stored, before>>
  BY DEF Days!LanError
<1>2. DOMAIN pc' = Requests /\ \A e \in Requests : pc'[e] = IF e = c THEN "done" ELSE pc[e]
  BY <1>1 DEF DaysInv, Extracted
<1>3. Counting' /\ RowsWritten'
  BY <1>1 DEF DaysInv, Counting, RowsWritten
<1>4. Extracted'
  BY <1>1, <1>2 DEF DaysInv, Extracted
<1>5. InTurn'
  BY <1>1, <1>2 DEF DaysInv, InTurn
<1>. QED BY <1>3, <1>4, <1>5 DEF DaysInv

\* It depends on their variables only.
LEMMA DaysKept ==
  ASSUME DaysInv, UNCHANGED dayVars
  PROVE  DaysInv'
BY DEF dayVars, DaysInv, Counting, Extracted, InTurn, RowsWritten

\* Every step for the stored days.
LEMMA DaysStep ==
  ASSUME DaysInv, Days!Next
  PROVE  DaysInv'
<1>1. CASE Days!AllDone
  BY <1>1, DaysKept DEF Days!AllDone, Days!vars, dayVars
<1>. QED BY <1>1, MeterStep, AskStep, AnswerStep, ReplyStep, NoAnswerStep DEF Days!Next

\* Before the first request nothing is extracted or stored.
LEMMA DaysInit ==
  ASSUME Days!Init
  PROVE  DaysInv
BY DEF Days!Init, Days!NoEntry, DaysInv, Counting, Extracted, InTurn, RowsWritten, Entry

-----------------------------------------------------------------------------
(* The rules of a device *)

\* A call: what it is about to SET is a rule, and the device has replied to it only
\* once it was sent.
CallOK(r) ==
  /\ DOMAIN r = {"op", "kind", "id", "patch", "rule", "at", "reply", "ids", "read"}
  /\ r.kind \in Rules!Kinds
  /\ r.op \in {"set", "patch", "delete"} => r.id \in Ids
  /\ r.op = "patch" => r.kind = "timerx" /\ r.patch \in Rules!Patch
  /\ r.op = "set" \/ r.at \in {"set", "remove", "disable"} => r.rule \in Rules!Rule
  /\ r.at = "start" => r.read = Rules!EmptyMap
  /\ r.reply \in {"none", "ok", "code"}
  /\ r.op # "set" /\ r.at \in {"start", "rules"} => r.reply = "none"

\* What a call has read, of the rules on the device: a patch that has yet to be sent has
\* the rule it found, with its fields put in; a list has the rules of all ids but those
\* still to be read.
ViewOK(r, here) ==
  /\ r.op = "patch" /\ r.at = "set" /\ r.reply = "none" =>
       r.id \in DOMAIN here /\ r.rule = Rules!Patched(here[r.id], r.patch)
  /\ r.op = "list" /\ r.at = "rules" =>
       /\ r.read \in [DOMAIN r.read -> Rules!Rule]
       /\ r.ids \cup DOMAIN r.read = DOMAIN here
       /\ \A id \in DOMAIN r.read : r.read[id] = here[id]

Gone(id, here) == id \notin DOMAIN here
Disabled(id, here) == id \in DOMAIN here /\ here[id].enable = 0

\* What the device has done for a delete whose reply has not been read yet.
DoneOK(r, here) ==
  r.op = "delete" /\ r.reply = "ok" =>
    /\ r.at = "remove" => Gone(r.id, here)
    /\ r.at = "disable" => Disabled(r.id, here)

RulesInv ==
  /\ DOMAIN rules = Rules!Kinds
  /\ \A k \in Rules!Kinds : Rules!IsMap(rules[k], Ids, Rules!Rule)
  /\ DOMAIN call \cap DOMAIN answer = {}
  /\ \A c \in DOMAIN call : CallOK(call[c])
  /\ \A c \in DOMAIN answer : answer[c].outcome # "error" => CallOK(answer[c].call)
  /\ \A c \in DOMAIN call \ dirty : ViewOK(call[c], rules[call[c].kind])
  /\ \A c \in DOMAIN call \ overtaken : DoneOK(call[c], rules[call[c].kind])
  /\ Rules!DeleteTruthful

\* What SerialRulesExact asks of a step.
PatchStep ==
  \A c \in DOMAIN call : call[c].op = "patch" /\ c \notin dirty /\ Rules!Writes(c) =>
    /\ Rules!Drop(rules'["timerx"], call[c].id) = Rules!Drop(rules["timerx"], call[c].id)
    /\ \A f \in {"enable", "onoff", "schedule"} : call[c].patch[f] = Absent =>
         rules'["timerx"][call[c].id][f] = rules["timerx"][call[c].id][f]

ListStep ==
  \A c \in DOMAIN call :
    call[c].op = "list" /\ c \in DOMAIN answer' /\ answer'[c].outcome = "ok" /\ c \notin dirty =>
      answer'[c].call.read = rules[call[c].kind]

Good == RulesInv' /\ PatchStep /\ ListStep

\* A new call, or the next step of one, that leaves the device alone.
LEMMA CallGoesOn ==
  ASSUME RulesInv, NEW c, c \notin DOMAIN answer, NEW r, CallOK(r), r.reply # "ok",
         c \in dirty \/ ViewOK(r, rules[r.kind]),
         call' = Rules!Put(call, c, r), UNCHANGED <<rules, answer, dirty>>,
         overtaken' \in {overtaken, overtaken \ {c}}
  PROVE  Good
<1>1. /\ DOMAIN call' = DOMAIN call \cup {c} /\ call'[c] = r
      /\ \A d \in DOMAIN call \ {c} : call'[d] = call[d]
  BY DEF Rules!Put
<1>2. PatchStep /\ ListStep
  BY <1>1 DEF PatchStep, ListStep, RulesInv, Rules!Writes
<1>3. \A d \in DOMAIN call' : CallOK(call'[d])
  BY <1>1 DEF RulesInv
<1>4. \A d \in DOMAIN call' \ dirty' : ViewOK(call'[d], rules'[call'[d].kind])
  BY <1>1 DEF RulesInv
<1>5. \A d \in DOMAIN call' \ overtaken' : DoneOK(call'[d], rules'[call'[d].kind])
  <2>1. DoneOK(r, rules[r.kind])
    BY DEF DoneOK
  <2>. QED BY <1>1, <2>1 DEF RulesInv
<1>6. DOMAIN call' \cap DOMAIN answer' = {} /\ Rules!DeleteTruthful'
  BY <1>1 DEF RulesInv, Rules!DeleteTruthful
<1>. QED BY <1>2, <1>3, <1>4, <1>5, <1>6 DEF Good, RulesInv

\* A call is answered: a list with the rules on the device, unless somebody wrote, and a
\* delete with what the device did, unless its rule was written since.
LEMMA CallFinished ==
  ASSUME RulesInv, NEW c \in DOMAIN call, NEW outcome, Rules!Finish(c, outcome),
         UNCHANGED <<rules, overtaken, dirty>>,
         call[c].op = "list" /\ outcome = "ok" /\ c \notin dirty => call[c].read = rules[call[c].kind],
         outcome = "deleted" /\ c \notin overtaken => Gone(call[c].id, rules[call[c].kind]),
         outcome = "disabled" /\ c \notin overtaken => Disabled(call[c].id, rules[call[c].kind])
  PROVE  Good
<1>1. /\ answer' = Rules!Put(answer, c, Rules!Answer(outcome, c)) /\ call' = Rules!Drop(call, c)
      /\ DOMAIN call \cap DOMAIN answer = {}
  BY DEF Rules!Finish, RulesInv
<1>2. /\ DOMAIN call' = DOMAIN call \ {c} /\ \A d \in DOMAIN call' : call'[d] = call[d]
      /\ DOMAIN answer' = DOMAIN answer \cup {c}
      /\ \A d \in DOMAIN answer : answer'[d] = answer[d] /\ d # c
      /\ answer'[c].outcome = outcome /\ (outcome # "error" => answer'[c].call = call[c])
  BY <1>1 DEF Rules!Put, Rules!Drop, Rules!Answer
<1>3. PatchStep
  BY <1>2 DEF PatchStep, RulesInv, Rules!Writes
<1>4. ListStep
  BY <1>1, <1>2 DEF ListStep
<1>5. Rules!DeleteTruthful'
  BY <1>2 DEF RulesInv, Rules!DeleteTruthful, Gone, Disabled
<1>6. /\ \A d \in DOMAIN call' : CallOK(call'[d])
      /\ \A d \in DOMAIN answer' : answer'[d].outcome # "error" => CallOK(answer'[d].call)
  BY <1>2 DEF RulesInv
<1>7. /\ \A d \in DOMAIN call' \ dirty' : ViewOK(call'[d], rules'[call'[d].kind])
      /\ \A d \in DOMAIN call' \ overtaken' : DoneOK(call'[d], rules'[call'[d].kind])
  BY <1>2 DEF RulesInv
<1>. QED BY <1>1, <1>2, <1>3, <1>4, <1>5, <1>6, <1>7 DEF Good, RulesInv

\* What is patched is a rule.
LEMMA PatchedRule ==
  ASSUME NEW rule \in Rules!Rule, NEW patch \in Rules!Patch, Rules!Patchable(rule, patch)
  PROVE  Rules!Patched(rule, patch) \in Rules!Rule
BY DEF Rules!Rule, Rules!Patch, Rules!Patchable, Rules!Patched, Rules!OnOff

\* The requests.
LEMMA BeginStep ==
  ASSUME RulesInv, NEW c, NEW op, NEW kind \in Rules!Kinds, NEW id, NEW patch, NEW rule,
         op \in {"set", "patch", "delete"} => id \in Ids,
         op = "patch" => kind = "timerx" /\ patch \in Rules!Patch,
         op = "set" => rule \in Rules!Rule,
         Rules!Begin(c, Rules!Call(op, kind, id, patch, rule))
  PROVE  Good
<1>. DEFINE r == Rules!Call(op, kind, id, patch, rule)
<1>1. CallOK(r) /\ ViewOK(r, rules[r.kind]) /\ r.reply # "ok"
  BY DEF Rules!Call, CallOK, ViewOK
<1>2. /\ c \notin DOMAIN answer /\ call' = Rules!Put(call, c, r)
      /\ UNCHANGED <<rules, answer, overtaken, dirty>>
  BY DEF Rules!Begin
<1>. HIDE DEF r
<1>. QED BY <1>1, <1>2, CallGoesOn

\* A call reads from the device, or is refused by it, and goes on.
LEMMA ContinueStep ==
  ASSUME RulesInv, NEW c \in DOMAIN call, NEW r, CallOK(r), r.reply # "ok",
         c \in dirty \/ ViewOK(r, rules[r.kind]),
         Rules!Continue(c, r), UNCHANGED <<rules, dirty>>,
         overtaken' \in {overtaken, overtaken \ {c}}
  PROVE  Good
<1>1. c \notin DOMAIN answer /\ call' = Rules!Put(call, c, r) /\ UNCHANGED answer
  BY DEF RulesInv, Rules!Continue
<1>. QED BY <1>1, CallGoesOn

\* A list reads the digest, then rule after rule, then answers.
LEMMA ListSteps ==
  ASSUME RulesInv, NEW c, Rules!ListDigest(c) \/ Rules!ListRule(c)
  PROVE  Good
<1>. DEFINE here == rules[call[c].kind]
<1>1. /\ c \in DOMAIN call /\ call[c].op = "list" /\ UNCHANGED <<rules, overtaken, dirty>>
  BY DEF Rules!ListDigest, Rules!ListRule, Rules!Step
<1>2. CallOK(call[c]) /\ Rules!IsMap(here, Ids, Rules!Rule)
      /\ (c \in dirty \/ ViewOK(call[c], here))
  BY <1>1 DEF RulesInv, CallOK
<1>3. CASE Rules!ListDigest(c)
  <2>. DEFINE r == [call[c] EXCEPT !.at = "rules", !.ids = DOMAIN here]
  <2>1. Rules!Continue(c, r) /\ call[c].at = "start"
    BY <1>3 DEF Rules!ListDigest, Rules!Step
  <2>2. CallOK(r) /\ r.op = "list" /\ r.kind = call[c].kind /\ r.ids = DOMAIN here
        /\ r.reply # "ok" /\ r.read = Rules!EmptyMap
    BY <1>1, <1>2, <2>1 DEF CallOK
  <2>3. ViewOK(r, rules[r.kind])
    <3>. HIDE DEF r
    <3>. QED BY <2>2 DEF ViewOK, Rules!EmptyMap
  <2>. HIDE DEF r
  <2>. QED BY <1>1, <2>1, <2>2, <2>3, ContinueStep
<1>4. CASE Rules!ListRule(c) /\ call[c].ids # {}
  <2>1. PICK id \in call[c].ids :
          Rules!Continue(c, [call[c] EXCEPT !.ids = call[c].ids \ {id},
                               !.read = IF id \in DOMAIN here THEN Rules!Put(call[c].read, id, here[id])
                                                              ELSE call[c].read])
    BY <1>4 DEF Rules!ListRule
  <2>. DEFINE read == IF id \in DOMAIN here THEN Rules!Put(call[c].read, id, here[id]) ELSE call[c].read
              r == [call[c] EXCEPT !.ids = call[c].ids \ {id}, !.read = read]
  <2>2. call[c].at = "rules"
    BY <1>4 DEF Rules!ListRule, Rules!Step
  <2>3. /\ CallOK(r) /\ r.op = "list" /\ r.at = "rules" /\ r.kind = call[c].kind
        /\ r.ids = call[c].ids \ {id} /\ r.read = read /\ r.reply # "ok"
    <3>. HIDE DEF read
    <3>. QED BY <1>1, <1>2, <2>2 DEF CallOK
  <2>4. ASSUME c \notin dirty PROVE ViewOK(r, rules[r.kind])
    <3>1. /\ call[c].read \in [DOMAIN call[c].read -> Rules!Rule]
          /\ call[c].ids \cup DOMAIN call[c].read = DOMAIN here
          /\ \A x \in DOMAIN call[c].read : call[c].read[x] = here[x]
      BY <1>1, <1>2, <2>2, <2>4 DEF ViewOK
    <3>2. id \in DOMAIN here /\ here[id] \in Rules!Rule
      BY <1>2, <3>1 DEF Rules!IsMap
    <3>3. /\ read \in [DOMAIN call[c].read \cup {id} -> Rules!Rule]
          /\ DOMAIN read = DOMAIN call[c].read \cup {id}
          /\ \A x \in DOMAIN read : read[x] = here[x]
      BY <3>1, <3>2 DEF Rules!Put
    <3>4. (call[c].ids \ {id}) \cup DOMAIN read = DOMAIN here
      BY <3>1, <3>2, <3>3
    <3>. HIDE DEF r, read
    <3>. QED BY <2>3, <3>3, <3>4 DEF ViewOK
  <2>5. Rules!Continue(c, r)
    BY <2>1
  <2>. HIDE DEF r, read
  <2>. QED BY <1>1, <2>3, <2>4, <2>5, ContinueStep
<1>5. CASE Rules!ListRule(c) /\ call[c].ids = {}
  <2>1. Rules!Finish(c, "ok") /\ call[c].at = "rules"
    BY <1>5 DEF Rules!ListRule, Rules!Step
  <2>2. ASSUME c \notin dirty PROVE call[c].read = here
    <3>1. /\ call[c].read \in [DOMAIN here -> Rules!Rule]
          /\ \A x \in DOMAIN here : call[c].read[x] = here[x]
      BY <1>1, <1>2, <1>5, <2>1, <2>2 DEF ViewOK
    <3>2. here \in [DOMAIN here -> Rules!Rule]
      BY <1>2 DEF Rules!IsMap
    <3>. QED BY <3>1, <3>2
  <2>. QED BY <1>1, <2>1, <2>2, CallFinished
<1>. QED BY <1>3, <1>4, <1>5

\* A patch and a delete read the rule they are about.
LEMMA GetSteps ==
  ASSUME RulesInv, NEW c, Rules!PatchGet(c) \/ Rules!DeleteGet(c)
  PROVE  Good
<1>. DEFINE here == rules[call[c].kind]
            id == call[c].id
<1>1. /\ c \in DOMAIN call /\ UNCHANGED <<rules, overtaken, dirty>> /\ call[c].op \in {"patch", "delete"}
      /\ call[c].at = "start"
  BY DEF Rules!PatchGet, Rules!DeleteGet, Rules!Step
<1>2. CallOK(call[c]) /\ Rules!IsMap(here, Ids, Rules!Rule) /\ call[c].reply = "none"
  BY <1>1 DEF RulesInv, CallOK
<1>3. id \in DOMAIN here => here[id] \in Rules!Rule
  BY <1>2 DEF Rules!IsMap
<1>4. ASSUME Rules!Finish(c, "error") PROVE Good
  BY <1>1, <1>4, CallFinished
<1>5. CASE Rules!PatchGet(c)
  <2>1. /\ call[c].op = "patch" /\ call[c].kind = "timerx" /\ call[c].patch \in Rules!Patch
    BY <1>2, <1>5 DEF Rules!PatchGet, Rules!Step, CallOK
  <2>. DEFINE rule == Rules!Patched(here[id], call[c].patch)
              r == [call[c] EXCEPT !.at = "set", !.rule = rule]
  <2>2. \/ id \in DOMAIN here /\ Rules!Patchable(here[id], call[c].patch) /\ Rules!Continue(c, r)
        \/ Rules!Finish(c, "error")
    BY <1>5, <2>1 DEF Rules!PatchGet
  <2>3. ASSUME id \in DOMAIN here, Rules!Patchable(here[id], call[c].patch), Rules!Continue(c, r)
        PROVE  Good
    <3>1. rule \in Rules!Rule
      BY <1>3, <2>1, <2>3, PatchedRule
    <3>2. CallOK(r) /\ r.op = "patch" /\ r.kind = call[c].kind /\ r.id = id
          /\ r.patch = call[c].patch /\ r.rule = rule /\ r.reply # "ok"
      <4>. HIDE DEF rule
      <4>. QED BY <1>2, <2>1, <3>1 DEF CallOK
    <3>3. ViewOK(r, rules[r.kind])
      <4>. HIDE DEF r
      <4>. QED BY <2>3, <3>2 DEF ViewOK
    <3>. HIDE DEF r, rule
    <3>. QED BY <1>1, <2>3, <3>2, <3>3, ContinueStep
  <2>. HIDE DEF r
  <2>. QED BY <1>4, <2>2, <2>3
<1>6. ASSUME NEW rule \in Rules!Rule, call[c].op = "delete",
             Rules!Continue(c, [call[c] EXCEPT !.at = "remove", !.rule = rule])
      PROVE  Good
  <2>. DEFINE r == [call[c] EXCEPT !.at = "remove", !.rule = rule]
  <2>1. CallOK(r) /\ r.op = "delete" /\ r.reply # "ok"
    BY <1>2, <1>6 DEF CallOK
  <2>2. ViewOK(r, rules[r.kind]) /\ Rules!Continue(c, r)
    BY <1>6, <2>1 DEF ViewOK
  <2>. HIDE DEF r
  <2>. QED BY <1>1, <2>1, <2>2, ContinueStep
<1>7. CASE Rules!DeleteGet(c)
  <2>0. call[c].op = "delete"
    BY <1>7 DEF Rules!DeleteGet, Rules!Step
  <2>1. \/ id \in DOMAIN here /\ Rules!Continue(c, [call[c] EXCEPT !.at = "remove", !.rule = here[id]])
        \/ Rules!Finish(c, "error")
        \/ \E s \in Schedules :
             Rules!Continue(c, [call[c] EXCEPT !.at = "remove",
                                  !.rule = [enable |-> 0, onoff |-> Absent, schedule |-> s]])
    BY <1>7 DEF Rules!DeleteGet
  <2>2. \A s \in Schedules : [enable |-> 0, onoff |-> Absent, schedule |-> s] \in Rules!Rule
    BY DEF Rules!Rule, Rules!OnOff
  <2>. QED BY <1>3, <1>4, <1>6, <2>0, <2>1, <2>2
<1>. QED BY <1>5, <1>7

\* What the device makes of a SET: rules, of which only the one of the call is another,
\* gone after the first SET of a delete, disabled after the second.
LEMMA Results ==
  ASSUME RulesInv, NEW c, Rules!Sent(c)
  PROVE  /\ c \in DOMAIN call /\ call[c].kind \in Rules!Kinds /\ call[c].id \in Ids
         /\ Rules!IsMap(Rules!Result(c), Ids, Rules!Rule)
         /\ \A id \in Ids \ {call[c].id} :
              /\ id \in DOMAIN Rules!Result(c) <=> id \in DOMAIN rules[call[c].kind]
              /\ id \in DOMAIN Rules!Result(c) => Rules!Result(c)[id] = rules[call[c].kind][id]
         /\ call[c].at = "remove" => Gone(call[c].id, Rules!Result(c))
         /\ call[c].at = "disable" => Disabled(call[c].id, Rules!Result(c))
         /\ call[c].at \notin {"remove", "disable"} =>
              call[c].id \in DOMAIN Rules!Result(c) /\ Rules!Result(c)[call[c].id] = call[c].rule
<1>1. /\ c \in DOMAIN call /\ call[c].op \in {"set", "patch", "delete"}
      /\ call[c].op = "set" \/ call[c].at \in {"set", "remove", "disable"}
  BY DEF Rules!Sent, Rules!Step
<1>2. /\ call[c].kind \in Rules!Kinds /\ call[c].id \in Ids /\ call[c].rule \in Rules!Rule
      /\ Rules!IsMap(rules[call[c].kind], Ids, Rules!Rule)
  BY <1>1 DEF RulesInv, CallOK
<1>3. CASE call[c].at = "remove"
  BY <1>1, <1>2, <1>3 DEF Rules!Result, Rules!Drop, Rules!IsMap, Gone
<1>4. CASE call[c].at # "remove"
  <2>. DEFINE rule == Rules!SentRule(c)
  <2>1. /\ rule \in Rules!Rule /\ (call[c].at = "disable" => rule.enable = 0)
        /\ call[c].at # "disable" => rule = call[c].rule
    BY <1>2 DEF Rules!SentRule, Rules!Rule
  <2>2. Rules!Result(c) = Rules!Put(rules[call[c].kind], call[c].id, rule)
    BY <1>4 DEF Rules!Result
  <2>. HIDE DEF rule
  <2>. QED BY <1>1, <1>2, <1>4, <2>1, <2>2 DEF Rules!Put, Rules!IsMap, Disabled
<1>. QED BY <1>3, <1>4

\* The device takes a SET.  Lists and patches of that kind that have read before are
\* marked, and what was said about the rule is no longer the last word.
LEMMA AppliesStep ==
  ASSUME RulesInv, NEW c, Rules!DeviceApplies(c)
  PROVE  Good
<1>. DEFINE k == call[c].kind
            i == call[c].id
            result == Rules!Result(c)
            r == [call[c] EXCEPT !.reply = "ok"]
<1>1. /\ c \in DOMAIN call /\ k \in Rules!Kinds /\ i \in Ids
      /\ Rules!IsMap(result, Ids, Rules!Rule)
      /\ \A id \in Ids \ {i} :
           /\ id \in DOMAIN result <=> id \in DOMAIN rules[k]
           /\ id \in DOMAIN result => result[id] = rules[k][id]
      /\ call[c].at = "remove" => Gone(i, result)
      /\ call[c].at = "disable" => Disabled(i, result)
      /\ call[c].at \notin {"remove", "disable"} => i \in DOMAIN result /\ result[i] = call[c].rule
  BY Results DEF Rules!DeviceApplies
<1>2. /\ rules' = [rules EXCEPT ![k] = result]
      /\ call' = Rules!Put(call, c, r) /\ UNCHANGED answer
      /\ overtaken' = (overtaken \ {c}) \cup Rules!AboutSameRule(c)
      /\ dirty' = dirty \cup {d \in DOMAIN call \ {c} :
                                /\ call[d].op \in {"list", "patch"}
                                /\ call[d].kind = k /\ call[d].at # "start"}
  BY DEF Rules!DeviceApplies, Rules!Continue
<1>. HIDE DEF result
<1>3. /\ DOMAIN rules' = Rules!Kinds /\ rules'[k] = result
      /\ \A j \in Rules!Kinds \ {k} : rules'[j] = rules[j]
  BY <1>1, <1>2 DEF RulesInv
<1>4. CallOK(call[c]) /\ (c \notin dirty => ViewOK(call[c], rules[k])) /\ c \notin DOMAIN answer
  BY <1>1 DEF RulesInv
<1>5. /\ r.op = call[c].op /\ r.at = call[c].at /\ r.kind = k /\ r.id = i /\ r.reply = "ok"
      /\ r.patch = call[c].patch /\ r.rule = call[c].rule /\ r.read = call[c].read
      /\ DOMAIN r = DOMAIN call[c]
  BY <1>4 DEF CallOK
<1>6. /\ call[c].op \in {"set", "patch", "delete"} /\ call[c].reply = "none"
      /\ call[c].op = "patch" => call[c].at = "set"
      /\ call[c].op = "delete" => call[c].at \in {"remove", "disable"}
      /\ call[c].op = "set" \/ call[c].at \in {"set", "remove", "disable"}
  BY DEF Rules!DeviceApplies, Rules!Sent, Rules!Step
<1>7. CallOK(r) /\ ViewOK(r, rules'[k]) /\ DoneOK(r, rules'[k])
  <2>. HIDE DEF r
  <2>. QED BY <1>1, <1>3, <1>4, <1>5, <1>6 DEF CallOK, ViewOK, DoneOK
<1>. HIDE DEF r
<1>8. /\ DOMAIN call' = DOMAIN call /\ call'[c] = r
      /\ \A d \in DOMAIN call \ {c} : call'[d] = call[d]
  BY <1>1, <1>2 DEF Rules!Put
<1>9. \A j \in Rules!Kinds : Rules!IsMap(rules'[j], Ids, Rules!Rule)
  BY <1>1, <1>3 DEF RulesInv
<1>10. \A d \in DOMAIN call' : CallOK(call'[d])
  BY <1>7, <1>8 DEF RulesInv
<1>11. ASSUME NEW d \in DOMAIN call' \ dirty' PROVE ViewOK(call'[d], rules'[call'[d].kind])
  <2>1. CASE d = c
    BY <1>5, <1>7, <1>8, <2>1
  <2>2. CASE d # c
    <3>1. d \in DOMAIN call \ dirty /\ call'[d] = call[d] /\ call[d].kind \in Rules!Kinds
          /\ (call[d].kind # k \/ call[d].at = "start" \/ call[d].op \notin {"list", "patch"})
      BY <1>2, <1>8, <2>2 DEF RulesInv, CallOK
    <3>2. CASE call[d].kind # k
      BY <1>3, <3>1, <3>2 DEF RulesInv
    <3>3. CASE call[d].at = "start" \/ call[d].op \notin {"list", "patch"}
      BY <3>1, <3>3 DEF ViewOK
    <3>. QED BY <3>1, <3>2, <3>3
  <2>. QED BY <2>1, <2>2
<1>12. ASSUME NEW d \in DOMAIN call' \ overtaken' PROVE DoneOK(call'[d], rules'[call'[d].kind])
  <2>1. CASE d = c
    BY <1>5, <1>7, <1>8, <2>1
  <2>2. CASE d # c
    <3>1. /\ d \in DOMAIN call \ overtaken /\ call'[d] = call[d] /\ CallOK(call[d])
          /\ call[d].kind = k /\ call[d].id = i => call[d].reply = "none"
      BY <1>2, <1>8, <2>2 DEF RulesInv, Rules!AboutSameRule
    <3>2. DoneOK(call[d], rules[call[d].kind])
      BY <3>1 DEF RulesInv
    <3>3. CASE call[d].kind # k
      BY <1>3, <3>1, <3>2, <3>3 DEF CallOK
    <3>4. CASE call[d].kind = k /\ call[d].id # i
      BY <1>1, <1>3, <3>1, <3>2, <3>4 DEF CallOK, DoneOK, Gone, Disabled
    <3>5. CASE call[d].reply = "none"
      BY <3>1, <3>5 DEF DoneOK
    <3>. QED BY <3>1, <3>3, <3>4, <3>5
  <2>. QED BY <2>1, <2>2
<1>13. Rules!DeleteTruthful'
  <2>. SUFFICES ASSUME NEW d \in DOMAIN answer, d \notin overtaken',
                       answer[d].outcome \in {"deleted", "disabled"}
       PROVE  /\ answer[d].outcome = "deleted" => answer[d].call.id \notin DOMAIN rules'[answer[d].call.kind]
              /\ answer[d].outcome = "disabled" =>
                   /\ answer[d].call.id \in DOMAIN rules'[answer[d].call.kind]
                   /\ rules'[answer[d].call.kind][answer[d].call.id].enable = 0
    BY <1>2 DEF Rules!DeleteTruthful
  <2>. DEFINE j == answer[d].call.kind
              id == answer[d].call.id
  <2>1. CallOK(answer[d].call)
    BY DEF RulesInv
  <2>2. j \in Rules!Kinds
    BY <2>1 DEF CallOK
  <2>3. ~ (j = k /\ id = i) /\ d \notin overtaken
    BY <1>2, <1>4 DEF Rules!AboutSameRule
  <2>4. /\ answer[d].outcome = "deleted" => id \notin DOMAIN rules[j]
        /\ answer[d].outcome = "disabled" => id \in DOMAIN rules[j] /\ rules[j][id].enable = 0
    BY <2>3 DEF RulesInv, Rules!DeleteTruthful
  <2>5. CASE j # k
    BY <1>3, <2>1, <2>2, <2>4, <2>5
  <2>6. CASE j = k /\ id # i
    <3>1. Rules!IsMap(rules[k], Ids, Rules!Rule)
      BY <1>1 DEF RulesInv
    <3>2. DOMAIN rules[k] \subseteq Ids /\ DOMAIN result \subseteq Ids
      BY <1>1, <3>1 DEF Rules!IsMap
    <3>. QED BY <1>1, <1>3, <2>4, <2>6, <3>2
  <2>. QED BY <2>3, <2>5, <2>6
<1>14. ListStep
  BY <1>2 DEF ListStep, RulesInv
<1>15. PatchStep
  <2>. SUFFICES ASSUME call[c].op = "patch", c \notin dirty
       PROVE  /\ Rules!Drop(rules'["timerx"], i) = Rules!Drop(rules["timerx"], i)
              /\ \A f \in {"enable", "onoff", "schedule"} : call[c].patch[f] = Absent =>
                   rules'["timerx"][i][f] = rules["timerx"][i][f]
    <3>1. \A d \in DOMAIN call : Rules!Writes(d) => d = c
      BY <1>8 DEF Rules!Writes
    <3>. QED BY <3>1 DEF PatchStep
  <2>1. k = "timerx" /\ call[c].patch \in Rules!Patch
    BY <1>4 DEF CallOK
  <2>2. rules'["timerx"] = result
    BY <1>3, <2>1
  <2>3. i \in DOMAIN rules["timerx"] /\ call[c].rule = Rules!Patched(rules["timerx"][i], call[c].patch)
    BY <1>4, <1>6, <2>1 DEF ViewOK
  <2>4. Rules!IsMap(rules["timerx"], Ids, Rules!Rule)
    BY DEF RulesInv, Rules!Kinds
  <2>5. Rules!Drop(result, i) = Rules!Drop(rules["timerx"], i)
    <3>1. DOMAIN result \ {i} = DOMAIN rules["timerx"] \ {i}
      BY <1>1, <2>1, <2>4 DEF Rules!IsMap
    <3>2. \A x \in DOMAIN rules["timerx"] \ {i} : result[x] = rules["timerx"][x]
      BY <1>1, <2>1, <2>4, <3>1 DEF Rules!IsMap
    <3>. QED BY <3>1, <3>2 DEF Rules!Drop
  <2>6. rules["timerx"][i] \in Rules!Rule
    BY <2>3, <2>4 DEF Rules!IsMap
  <2>7. \A f \in {"enable", "onoff", "schedule"} : call[c].patch[f] = Absent =>
          call[c].rule[f] = rules["timerx"][i][f]
    BY <2>3, <2>6 DEF Rules!Patched, Rules!Rule
  <2>. QED BY <1>1, <1>6, <2>2, <2>5, <2>7
<1>. QED BY <1>2, <1>3, <1>8, <1>9, <1>10, <1>11, <1>12, <1>13, <1>14, <1>15 DEF Good, RulesInv

\* The device refuses a SET, or the reply to the first SET of a delete says that it has.
LEMMA RefusedSteps ==
  ASSUME RulesInv, NEW c, NEW r,
         \/ /\ Rules!DeviceRefuses(c) /\ r = [call[c] EXCEPT !.reply = "code"]
         \/ /\ Rules!RemoveReplied(c) /\ call[c].reply # "ok"
            /\ r = [call[c] EXCEPT !.at = "disable", !.reply = "none"]
  PROVE  Good
<1>1. /\ c \in DOMAIN call /\ Rules!Continue(c, r) /\ UNCHANGED <<rules, dirty>>
      /\ overtaken' \in {overtaken, overtaken \ {c}}
      /\ call[c].op \in {"set", "patch", "delete"}
      /\ call[c].op = "set" \/ call[c].at \in {"set", "remove", "disable"}
      /\ call[c].op = "patch" => call[c].at = "set"
      /\ r.op = "patch" => r.reply = "code"
  BY DEF Rules!DeviceRefuses, Rules!RemoveReplied, Rules!Replied, Rules!Sent, Rules!Step, RulesInv, CallOK
<1>2. CallOK(call[c])
  BY <1>1 DEF RulesInv
<1>3. CallOK(r) /\ r.reply # "ok" /\ r.op = call[c].op
  BY <1>1, <1>2 DEF CallOK, Rules!RemoveReplied, Rules!Replied, Rules!Step
<1>4. ViewOK(r, rules[r.kind])
  BY <1>1, <1>3 DEF ViewOK
<1>. QED BY <1>1, <1>3, <1>4, ContinueStep

\* A reply is read, and the call is answered.
LEMMA RepliedSteps ==
  ASSUME RulesInv, NEW c, Rules!SetReplied(c) \/ Rules!RemoveReplied(c) \/ Rules!DisableReplied(c)
  PROVE  Good
<1>1. c \in DOMAIN call /\ UNCHANGED <<rules, overtaken, dirty>>
  BY DEF Rules!SetReplied, Rules!RemoveReplied, Rules!DisableReplied, Rules!Replied, Rules!Step
<1>2. c \notin overtaken => DoneOK(call[c], rules[call[c].kind])
  BY <1>1 DEF RulesInv
<1>3. CASE Rules!SetReplied(c)
  <2>1. Rules!Finish(c, "ok") /\ call[c].op # "list"
    BY <1>3 DEF Rules!SetReplied, Rules!Replied, Rules!Step
  <2>. QED BY <1>1, <2>1, CallFinished
<1>4. CASE Rules!RemoveReplied(c) /\ call[c].reply = "ok"
  <2>1. Rules!Finish(c, "deleted") /\ call[c].op = "delete" /\ call[c].at = "remove"
    BY <1>4 DEF Rules!RemoveReplied, Rules!Replied, Rules!Step
  <2>2. c \notin overtaken => Gone(call[c].id, rules[call[c].kind])
    BY <1>2, <1>4, <2>1 DEF DoneOK
  <2>. QED BY <1>1, <2>1, <2>2, CallFinished
<1>5. CASE Rules!RemoveReplied(c) /\ call[c].reply # "ok"
  BY <1>5, RefusedSteps
<1>6. CASE Rules!DisableReplied(c) /\ call[c].reply = "ok"
  <2>1. Rules!Finish(c, "disabled") /\ call[c].op = "delete" /\ call[c].at = "disable"
    BY <1>6 DEF Rules!DisableReplied, Rules!Replied, Rules!Step
  <2>2. c \notin overtaken => Disabled(call[c].id, rules[call[c].kind])
    BY <1>2, <1>6, <2>1 DEF DoneOK
  <2>. QED BY <1>1, <2>1, <2>2, CallFinished
<1>7. CASE Rules!DisableReplied(c) /\ call[c].reply # "ok"
  <2>1. Rules!Finish(c, "error")
    BY <1>7 DEF Rules!DisableReplied
  <2>. QED BY <1>1, <2>1, CallFinished
<1>. QED BY <1>3, <1>4, <1>5, <1>6, <1>7

\* Every step of the handlers.
LEMMA RulesStep ==
  ASSUME RulesInv, Rules!Next
  PROVE  Good
<1>1. CASE Rules!AllDone
  BY <1>1 DEF Rules!AllDone, Rules!vars, Good, RulesInv, PatchStep, ListStep, Rules!DeleteTruthful, Rules!Writes
<1>2. ASSUME NEW c \in Calls, NEW k \in Rules!Kinds, Rules!List(c, k) PROVE Good
  BY <1>2, BeginStep DEF Rules!List
<1>3. ASSUME NEW c \in Calls, NEW id \in Ids, Rules!PatchRule(c, id) PROVE Good
  <2>1. PICK patch \in Rules!Patch : Rules!Begin(c, Rules!Call("patch", "timerx", id, patch, Absent))
    BY <1>3 DEF Rules!PatchRule
  <2>2. "timerx" \in Rules!Kinds
    BY DEF Rules!Kinds
  <2>. QED BY <2>1, <2>2, BeginStep
<1>4. ASSUME NEW c \in Calls, NEW id \in Ids, NEW k \in Rules!Kinds, Rules!SetRule(c, k, id) PROVE Good
  <2>1. PICK rule \in Rules!Rule : Rules!Begin(c, Rules!Call("set", k, id, Rules!NoPatch, rule))
    BY <1>4 DEF Rules!SetRule
  <2>. QED BY <2>1, BeginStep
<1>5. ASSUME NEW c \in Calls, NEW id \in Ids, NEW k \in Rules!Kinds, Rules!DeleteRule(c, k, id) PROVE Good
  BY <1>5, BeginStep DEF Rules!DeleteRule
<1>6. ASSUME NEW c \in Calls, Rules!LanError(c) PROVE Good
  BY <1>6, CallFinished DEF Rules!LanError
<1>7. ASSUME NEW c \in Calls,
             \/ Rules!ListDigest(c) \/ Rules!ListRule(c) \/ Rules!PatchGet(c) \/ Rules!DeleteGet(c)
             \/ Rules!DeviceApplies(c) \/ Rules!DeviceRefuses(c)
             \/ Rules!SetReplied(c) \/ Rules!RemoveReplied(c) \/ Rules!DisableReplied(c)
      PROVE  Good
  BY <1>7, ListSteps, GetSteps, AppliesStep, RefusedSteps, RepliedSteps
<1>. QED BY <1>1, <1>2, <1>3, <1>4, <1>5, <1>6, <1>7 DEF Rules!Next

\* Nothing of the handlers changes.
LEMMA RulesKept ==
  ASSUME RulesInv, UNCHANGED ruleVars
  PROVE  RulesInv'
BY DEF RulesInv, ruleVars, Rules!DeleteTruthful

\* The device has rules, and no call was made.
LEMMA RulesInit ==
  ASSUME Rules!Init
  PROVE  RulesInv
<1>1. PICK some \in SUBSET Ids : \E r \in [some -> Rules!Rule] :
        rules = [k \in Rules!Kinds |-> IF k = "timerx" THEN r ELSE Rules!EmptyMap]
  BY DEF Rules!Init
<1>2. DOMAIN rules = Rules!Kinds /\ \A k \in Rules!Kinds : Rules!IsMap(rules[k], Ids, Rules!Rule)
  BY <1>1 DEF Rules!IsMap, Rules!EmptyMap
<1>. QED BY <1>2 DEF Rules!Init, Rules!EmptyMap, RulesInv, Rules!DeleteTruthful

-----------------------------------------------------------------------------
(* The recorded readings *)

Sample == [at : Times, channel : Channels, power : Powers \cup {None}]

\* Each channel that has readings has a last one.
LastThere ==
  \A channel \in Channels : History!OfChannel(channel) # {} =>
    \E m \in History!OfChannel(channel) : \A k \in History!OfChannel(channel) : k <= m

\* The readings are in the order of their times.
Ordered ==
  \A k \in DOMAIN samples :
    /\ samples[k].at <= clock
    /\ \A j \in DOMAIN samples : j <= k => samples[j].at <= samples[k].at

\* The buckets of the readings ss: their counts and sums are those of the readings asked
\* for, each maximum is of a reading in its bucket, and times ascend.
Conserves(ss, channel, from, to, bucket, points) ==
  LET ids == {k \in DOMAIN ss : /\ ss[k].channel = channel
                                /\ ss[k].power # None
                                /\ ss[k].at \in from .. to}
  IN  /\ Cardinality(ids) = SumFunctionOnSet([i \in DOMAIN points |-> points[i].n], DOMAIN points)
      /\ SumFunctionOnSet([k \in ids |-> ss[k].power], ids)
           = SumFunctionOnSet([i \in DOMAIN points |-> points[i].sum], DOMAIN points)
      /\ \A i \in DOMAIN points : points[i].max # None =>
           \E k \in ids : /\ ss[k].power = points[i].max
                            /\ ss[k].at \in points[i].t .. points[i].t + bucket - 1
      /\ \A i \in 1 .. Len(points) - 1 : points[i].t < points[i + 1].t

\* An answered history is that of the readings, which wait for it to be read.
Conserved ==
  historyReply # None /\ historyReply.kind = "history" =>
    Conserves(samples, historyReply.channel, historyReply.from, historyReply.to, historyReply.bucket,
              historyReply.points)

HistoryInv ==
  /\ samples \in Seq(Sample) /\ clock \in Times /\ backs \in Nat
  /\ LastThere
  /\ backs = 0 => Ordered
  /\ History!CurrentIsLast
  /\ Conserved

\* What a recorded reading is.
LEMMA SampleTyped ==
  ASSUME samples \in Seq(Sample)
  PROVE  \A k \in DOMAIN samples : k \in Nat \ {0} /\ samples[k].at \in Nat
<1>1. \A k \in DOMAIN samples : k \in Nat \ {0} /\ samples[k] \in Sample
  OBVIOUS
<1>. QED BY <1>1, TimesAreNat DEF Sample

\* The sum the model takes is the one the lemmas are about.
LEMMA HistorySum ==
  ASSUME NEW f
  PROVE  History!SumFunction(f) = SumFunctionOnSet(f, DOMAIN f)
BY DEF History!SumFunction, History!SumFunctionOnSet, History!FoldFunctionOnSet, History!MapThenFoldSet,
       SumFunctionOnSet, FoldFunctionOnSet, MapThenFoldSet

\* A finite set of numbers has a greatest one.
LEMMA GreatestInt ==
  ASSUME NEW S, IsFiniteSet(S), S # {}, S \subseteq Int
  PROVE  \E x \in S : \A y \in S : x >= y
<1>. DEFINE R == {e \in S \X S : e[1] < e[2]}
            n == Cardinality(S)
<1>1. Orders(R, S)
  BY DEF Orders
<1>2. n \in Nat /\ n # 0
  BY FS_EmptySet, FS_CardinalityType
<1>3. PICK p \in [1 .. n -> S] : InOrder(p, n, R)
  <2>. HIDE DEF R
  <2>. QED BY <1>1, ListExists
<1>4. \A x \in S : \E i \in 1 .. n : p[i] = x
  <2>. HIDE DEF R
  <2>. QED BY <1>1, <1>3, ListCovers
<1>. HIDE DEF n
<1>5. p[n] \in S
  BY <1>2
<1>6. ASSUME NEW y \in S PROVE p[n] >= y
  <2>1. PICK i \in 1 .. n : p[i] = y
    BY <1>4
  <2>2. i = n \/ <<p[i], p[n]>> \in R
    BY <1>2, <1>3 DEF InOrder
  <2>3. p[n] \in Int /\ y \in Int
    BY <1>5
  <2>. QED BY <2>1, <2>2, <2>3
<1>. QED BY <1>5, <1>6

\* The buckets' times in order: each once, ascending.
LEMMA AscendingLists ==
  ASSUME NEW S, IsFiniteSet(S), S \subseteq Int
  PROVE  /\ History!Ascending(S) \in [1 .. Cardinality(S) -> S]
         /\ \A i, j \in 1 .. Cardinality(S) : i < j => History!Ascending(S)[i] < History!Ascending(S)[j]
         /\ \A x \in S : \E i \in 1 .. Cardinality(S) : History!Ascending(S)[i] = x
<1>. DEFINE R == {e \in S \X S : e[1] < e[2]}
            n == Cardinality(S)
            ts == History!Ascending(S)
<1>1. Orders(R, S)
  BY DEF Orders
<1>2. n = History!Cardinality(S)
  BY DEF Cardinality, History!Cardinality
<1>3. PICK p \in [1 .. n -> S] : InOrder(p, n, R)
  <2>. HIDE DEF R
  <2>. QED BY <1>1, ListExists
<1>4. \A i, j \in 1 .. n : i < j => p[i] < p[j]
  BY <1>3 DEF InOrder
<1>5. ts \in [1 .. n -> S] /\ \A i, j \in 1 .. n : i < j => ts[i] < ts[j]
  <2>. HIDE DEF n
  <2>. QED BY <1>2, <1>4 DEF History!Ascending
<1>. HIDE DEF ts
<1>6. InOrder(ts, n, R)
  <2>. HIDE DEF n
  <2>. QED BY <1>5 DEF InOrder
<1>7. \A x \in S : \E i \in 1 .. n : ts[i] = x
  <2>. HIDE DEF R
  <2>. QED BY <1>1, <1>5, <1>6, ListCovers
<1>. QED BY <1>5, <1>7 DEF ts

\* A reading lies within its bucket.
LEMMA InBucket ==
  ASSUME NEW t \in Nat, NEW bucket \in Nat \ {0}
  PROVE  /\ History!BucketOf(t, bucket) \in Nat
         /\ t \in History!BucketOf(t, bucket) .. History!BucketOf(t, bucket) + bucket - 1
<1>. DEFINE q == t \div bucket
<1>1. q \in Nat /\ t = bucket * q + (t % bucket) /\ t % bucket \in 0 .. bucket - 1
  OBVIOUS
<1>2. History!BucketOf(t, bucket) = bucket * q /\ bucket * q \in Nat
  BY <1>1 DEF History!BucketOf
<1>. QED BY <1>1, <1>2

\* What the query gives for any range and any bucket.
LEMMA BucketsConserve ==
  ASSUME samples \in Seq(Sample), NEW channel, NEW from \in Int, NEW to \in Int, NEW bucket \in Nat \ {0}
  PROVE  Conserves(samples, channel, from, to, bucket,
                   History!GetTelemetryHistoryBuckets(channel, from, to, bucket))
<1>. DEFINE ids == History!InRange(channel, from, to)
            B(k) == History!BucketOf(samples[k].at, bucket)
            S == {B(k) : k \in ids}
            n == Cardinality(S)
            ts == History!Ascending(S)
            In(x) == {k \in ids : B(k) = x}
            points == [x \in 1 .. n |-> History!Point(ts[x], In(ts[x]))]
            Known(K) == {k \in K : samples[k].power # None}
            wanted == {k \in DOMAIN samples : /\ samples[k].channel = channel
                                              /\ samples[k].power # None
                                              /\ samples[k].at \in from .. to}
<1>1. /\ \A k \in DOMAIN samples : k \in Nat \ {0} /\ samples[k].at \in Nat
      /\ \A k \in DOMAIN samples : samples[k].power # None => samples[k].power \in Int
  <2>1. \A k \in DOMAIN samples : samples[k] \in Sample
    OBVIOUS
  <2>. QED BY <2>1, SampleTyped, PowersAreInt DEF Sample
<1>2. IsFiniteSet(DOMAIN samples)
  <2>1. DOMAIN samples = 1 .. Len(samples) /\ Len(samples) \in Nat
    OBVIOUS
  <2>. QED BY <2>1, FS_Interval
<1>3. ids = {k \in DOMAIN samples : samples[k].channel = channel /\ samples[k].at \in from .. to}
  BY <1>1 DEF History!InRange, History!OfChannel
<1>. HIDE DEF ids
<1>4. ids \in SUBSET DOMAIN samples /\ IsFiniteSet(ids) /\ wanted = Known(ids)
  BY <1>2, <1>3, FS_Subset
<1>5. \A k \in ids : B(k) \in Nat /\ samples[k].at \in B(k) .. B(k) + bucket - 1
  BY <1>1, <1>4, InBucket
<1>. HIDE DEF B
<1>6. IsFiniteSet(S) /\ S \subseteq Int
  <2>. DEFINE f == [k \in ids |-> B(k)]
  <2>1. f \in Surjection(ids, S)
    BY DEF Surjection
  <2>. HIDE DEF f
  <2>2. IsFiniteSet(S)
    <3>. HIDE DEF S
    <3>. QED BY <1>4, <2>1, FS_Surjection
  <2>. QED BY <2>2, <1>5
<1>7. \A k \in ids : B(k) \in S
  OBVIOUS
<1>8. History!GetTelemetryHistoryBuckets(channel, from, to, bucket)
        = [x \in DOMAIN ts |-> History!Point(ts[x], In(ts[x]))]
  BY DEF History!GetTelemetryHistoryBuckets, ids, B
<1>. HIDE DEF S
<1>9. /\ ts \in [1 .. n -> S] /\ n \in Nat
      /\ \A i1, i2 \in 1 .. n : i1 < i2 => ts[i1] < ts[i2]
      /\ \A x \in S : \E i1 \in 1 .. n : ts[i1] = x
  BY <1>6, AscendingLists, FS_CardinalityType
<1>. HIDE DEF ts, n
<1>10. History!GetTelemetryHistoryBuckets(channel, from, to, bucket) = points /\ DOMAIN points = 1 .. n
  BY <1>8, <1>9
<1>. DEFINE part(x) == Known(In(ts[x]))
            watt == [k \in wanted |-> samples[k].power]
<1>11. ASSUME NEW x \in 1 .. n
       PROVE  /\ points[x].t = ts[x]
              /\ points[x].n = Cardinality(part(x))
              /\ points[x].sum = SumFunctionOnSet([k \in part(x) |-> samples[k].power], part(x))
              /\ part(x) # {} => points[x].max = History!Max({samples[k].power : k \in part(x)})
              /\ part(x) = {} => points[x].max = None
  <2>1. points[x] = History!Point(ts[x], In(ts[x]))
    OBVIOUS
  <2>2. /\ History!Cardinality(part(x)) = Cardinality(part(x))
        /\ History!SumFunction([k \in part(x) |-> samples[k].power])
             = SumFunctionOnSet([k \in part(x) |-> samples[k].power], part(x))
    <3>. HIDE DEF part
    <3>1. History!Cardinality(part(x)) = Cardinality(part(x))
      BY DEF Cardinality, History!Cardinality
    <3>2. History!SumFunction([k \in part(x) |-> samples[k].power])
            = SumFunctionOnSet([k \in part(x) |-> samples[k].power], part(x))
      BY HistorySum
    <3>. QED BY <3>1, <3>2
  <2>3. part(x) = {k \in In(ts[x]) : samples[k].power # None}
    OBVIOUS
  <2>. HIDE DEF part, points, In
  <2>. QED BY <2>1, <2>2, <2>3 DEF History!Point
<1>12. \A k \in wanted : k \in ids /\ k \in DOMAIN samples /\ samples[k].power \in Int
  BY <1>1, <1>4
<1>13. IsFiniteSet(wanted) /\ Numbers(watt, wanted)
  <2>1. IsFiniteSet(wanted)
    BY <1>2, FS_Subset
  <2>. QED BY <2>1, <1>12 DEF Numbers
<1>14. \A x \in 1 .. n : part(x) = {k \in wanted : B(k) = ts[x]}
  BY <1>4
<1>. DEFINE place == [k \in wanted |-> CHOOSE x \in 1 .. n : ts[x] = B(k)]
<1>15. \A k \in wanted : place[k] \in 1 .. n /\ ts[place[k]] = B(k)
  BY <1>7, <1>9, <1>12
<1>. HIDE DEF part, place, watt, wanted, points
<1>16. \A x \in 1 .. n : part(x) = {k \in wanted : place[k] = x}
  <2>1. ASSUME NEW x \in 1 .. n, NEW k \in wanted, ts[x] = B(k) PROVE place[k] = x
    <3>1. ts[x] = ts[place[k]] /\ place[k] \in 1 .. n
      BY <1>15, <2>1
    <3>2. ts[x] \in Int
      BY <1>6, <1>9
    <3>. QED BY <1>9, <3>1, <3>2
  <2>. QED BY <1>14, <1>15, <2>1
<1>17. wanted = {k \in wanted : place[k] \in 1 .. n} /\ IsFiniteSet(1 .. n)
  BY <1>9, <1>15, FS_Interval
<1>. DEFINE counts == [x \in 1 .. n |-> points[x].n]
            sums == [x \in 1 .. n |-> points[x].sum]
<1>18. Cardinality(wanted) = SumFunctionOnSet(counts, 1 .. n)
  <2>1. \A x \in 1 .. n : counts[x] = Cardinality({k \in wanted : place[k] = x})
    BY <1>11, <1>16
  <2>. HIDE DEF counts
  <2>. DEFINE all == 1 .. n
  <2>2. IsFiniteSet(all) /\ CountsClasses(counts, wanted, place, all)
    BY <1>17, <2>1 DEF CountsClasses, ClassOf
  <2>. HIDE DEF all
  <2>3. SumFunctionOnSet(counts, all) = Cardinality(ClassesIn(wanted, place, all))
    BY <1>13, <2>2, CountByClass
  <2>. QED BY <1>17, <2>3 DEF all, ClassesIn
<1>19. SumFunctionOnSet(watt, wanted) = SumFunctionOnSet(sums, 1 .. n)
  <2>1. ASSUME NEW x \in 1 .. n
        PROVE  sums[x] = SumFunctionOnSet(watt, {k \in wanted : place[k] = x})
    <3>. DEFINE f == [k \in part(x) |-> samples[k].power]
    <3>1. part(x) \in SUBSET wanted
      BY <1>16
    <3>2. IsFiniteSet(part(x)) /\ (\A k \in part(x) : watt[k] = f[k]) /\ Numbers(f, part(x))
      BY <1>12, <1>13, <3>1, FS_Subset DEF watt, Numbers
    <3>3. sums[x] = SumFunctionOnSet(f, part(x))
      BY <1>11
    <3>. HIDE DEF f
    <3>4. SumFunctionOnSet(f, part(x)) = SumFunctionOnSet(watt, part(x))
      BY <3>2, SumSame
    <3>. QED BY <1>16, <3>3, <3>4
  <2>. HIDE DEF sums
  <2>. DEFINE all == 1 .. n
  <2>2. IsFiniteSet(all) /\ SumsClasses(sums, watt, wanted, place, all)
    BY <1>17, <2>1 DEF SumsClasses, ClassOf
  <2>. HIDE DEF all
  <2>3. SumFunctionOnSet(sums, all) = SumFunctionOnSet(watt, ClassesIn(wanted, place, all))
    BY <1>13, <2>2, SumByClass
  <2>. QED BY <1>17, <2>3 DEF all, ClassesIn
<1>20. ASSUME NEW x \in 1 .. n, points[x].max # None
       PROVE  \E k \in wanted : /\ samples[k].power = points[x].max
                                /\ samples[k].at \in points[x].t .. points[x].t + bucket - 1
  <2>. DEFINE top == {samples[k].power : k \in part(x)}
  <2>1. part(x) # {} /\ part(x) \in SUBSET wanted /\ IsFiniteSet(part(x))
    BY <1>11, <1>13, <1>16, <1>20, FS_Subset
  <2>2. IsFiniteSet(top) /\ top # {} /\ top \subseteq Int
    <3>. DEFINE f == [k \in part(x) |-> samples[k].power]
    <3>1. f \in Surjection(part(x), top)
      BY DEF Surjection
    <3>2. top # {} /\ top \subseteq Int
      BY <1>12, <2>1
    <3>. HIDE DEF f, top
    <3>. QED BY <2>1, <3>1, <3>2, FS_Surjection
  <2>3. \E m \in top : \A y \in top : m >= y
    <3>. HIDE DEF top
    <3>. QED BY <2>2, GreatestInt
  <2>4. History!Max(top) \in top
    <3>. HIDE DEF top
    <3>. QED BY <2>3 DEF History!Max
  <2>5. PICK k \in part(x) : samples[k].power = points[x].max
    BY <1>11, <2>1, <2>4
  <2>6. k \in wanted /\ B(k) = ts[x] /\ k \in ids
    BY <1>12, <1>14, <2>1
  <2>. QED BY <1>5, <1>11, <2>5, <2>6
<1>21. ASSUME NEW x \in 1 .. n - 1 PROVE points[x].t < points[x + 1].t
  <2>1. x \in 1 .. n /\ x + 1 \in 1 .. n /\ x < x + 1
    BY <1>9
  <2>2. points[x].t = ts[x] /\ points[x + 1].t = ts[x + 1]
    BY <1>11, <2>1
  <2>. QED BY <1>9, <2>1, <2>2
<1>22. Len(points) = n /\ DOMAIN points = 1 .. n
  BY <1>9 DEF points
<1>. QED BY <1>10, <1>18, <1>19, <1>20, <1>21, <1>22 DEF Conserves, wanted, watt

\* A reading is the last of its channel, and as late as the clock.
LEMMA RecordStep ==
  ASSUME HistoryInv, NEW channel \in Channels, NEW value \in Powers \cup {None},
         History!Record(channel, value)
  PROVE  HistoryInv'
<1>. DEFINE new == [at |-> clock, channel |-> channel, power |-> value]
            n == Len(samples)
<1>1. /\ samples' = Append(samples, new) /\ historyReply' = None
      /\ UNCHANGED <<clock, backs>>
  BY DEF History!Record
<1>2. /\ samples \in Seq(Sample) /\ clock \in Times /\ backs \in Nat /\ LastThere
      /\ backs = 0 => Ordered
  BY DEF HistoryInv
<1>3. new \in Sample /\ new.at = clock /\ new.channel = channel /\ clock \in Nat
  BY <1>2, TimesAreNat DEF Sample
<1>. HIDE DEF new
<1>4. /\ samples' \in Seq(Sample) /\ n \in Nat
      /\ DOMAIN samples = 1 .. n /\ DOMAIN samples' = 1 .. (n + 1)
      /\ \A k \in 1 .. n : samples'[k] = samples[k]
      /\ samples'[n + 1] = new
  BY <1>1, <1>2, <1>3
<1>. HIDE DEF n
<1>5. LastThere'
  <2>. SUFFICES ASSUME NEW c \in Channels, History!OfChannel(c)' # {}
       PROVE  \E m \in History!OfChannel(c)' : \A k \in History!OfChannel(c)' : k <= m
    BY DEF LastThere
  <2>1. CASE c = channel
    <3>1. n + 1 \in History!OfChannel(c)' /\ \A k \in History!OfChannel(c)' : k <= n + 1
      BY <1>3, <1>4, <2>1 DEF History!OfChannel
    <3>. QED BY <3>1
  <2>2. CASE c # channel
    <3>1. History!OfChannel(c)' = History!OfChannel(c)
      BY <1>3, <1>4, <2>2 DEF History!OfChannel
    <3>. QED BY <1>2, <3>1 DEF LastThere
  <2>. QED BY <2>1, <2>2
<1>6. ASSUME backs = 0 PROVE Ordered'
  <2>1. \A k \in 1 .. n : /\ samples[k].at <= clock
                          /\ \A j \in 1 .. n : j <= k => samples[j].at <= samples[k].at
    BY <1>2, <1>4, <1>6 DEF Ordered
  <2>. SUFFICES ASSUME NEW k \in 1 .. (n + 1)
       PROVE  /\ samples'[k].at <= clock
              /\ \A j \in 1 .. (n + 1) : j <= k => samples'[j].at <= samples'[k].at
    BY <1>1, <1>4 DEF Ordered
  <2>2. CASE k \in 1 .. n
    <3>1. \A j \in 1 .. (n + 1) : j <= k => j \in 1 .. n
      BY <1>4, <2>2
    <3>. QED BY <1>4, <2>1, <2>2, <3>1
  <2>3. CASE k = n + 1
    <3>1. \A j \in 1 .. (n + 1) : j \in 1 .. n \/ j = n + 1
      BY <1>4
    <3>2. clock <= clock
      BY <1>3
    <3>. QED BY <1>3, <1>4, <2>1, <2>3, <3>1, <3>2
  <2>4. k \in 1 .. n \/ k = n + 1
    BY <1>4
  <2>. QED BY <2>2, <2>3, <2>4
<1>7. History!CurrentIsLast' /\ Conserved'
  BY <1>1 DEF History!CurrentIsLast, Conserved
<1>. QED BY <1>1, <1>2, <1>4, <1>5, <1>6, <1>7 DEF HistoryInv

\* The newest reading is as recent as the last one.
LEMMA CurrentStep ==
  ASSUME HistoryInv, NEW channel \in Channels, History!GetLatestTelemetrySample(channel)
  PROVE  HistoryInv'
<1>. DEFINE ids == History!OfChannel(channel)
<1>1. /\ UNCHANGED <<clock, samples, backs>>
      /\ \/ \E k \in History!Newest(channel) :
              historyReply' = [kind |-> "current", channel |-> channel, id |-> k]
         \/ /\ History!Newest(channel) = {}
            /\ historyReply' = [kind |-> "current", channel |-> channel, id |-> 0]
  BY DEF History!GetLatestTelemetrySample
<1>2. samples \in Seq(Sample) /\ LastThere /\ (backs = 0 => Ordered)
  BY DEF HistoryInv
<1>3. /\ ids \subseteq DOMAIN samples /\ 0 \notin ids
      /\ \A k \in ids : k \in Nat /\ samples[k].channel = channel /\ samples[k].at \in Nat
  <2>1. \A k \in DOMAIN samples : k \in Nat \ {0} /\ samples[k].at \in Nat
    BY <1>2, SampleTyped
  <2>. QED BY <2>1 DEF History!OfChannel
<1>4. UNCHANGED ids
  BY <1>1 DEF History!OfChannel
<1>5. ASSUME backs = 0, ids # {}
      PROVE  /\ History!Max(ids) \in ids /\ History!Max(ids) \in History!Newest(channel)
             /\ \A k \in History!Newest(channel) :
                  k \in ids /\ samples[k].at = samples[History!Max(ids)].at
  <2>1. PICK m \in ids : \A k \in ids : k <= m
    BY <1>2, <1>5 DEF LastThere
  <2>. DEFINE last == History!Max(ids)
  <2>2. last \in ids /\ \A k \in ids : last >= k
    <3>. HIDE DEF ids
    <3>. QED BY <1>3, <2>1 DEF History!Max
  <2>. HIDE DEF last
  <2>3. \A k \in ids : samples[k].at <= samples[last].at
    BY <1>2, <1>3, <1>5, <2>2 DEF Ordered
  <2>4. last \in History!Newest(channel)
    BY <2>2, <2>3 DEF History!Newest
  <2>5. \A k \in History!Newest(channel) : k \in ids /\ samples[last].at <= samples[k].at
    BY <2>2 DEF History!Newest
  <2>6. \A k \in History!Newest(channel) : k \in ids /\ samples[k].at = samples[last].at
    BY <1>3, <2>2, <2>3, <2>5
  <2>. QED BY <2>2, <2>4, <2>6 DEF last
<1>6. ASSUME ids = {} PROVE History!Newest(channel) = {}
  BY <1>6 DEF History!Newest
<1>. HIDE DEF ids
<1>7. ASSUME backs' = 0
      PROVE  LET given == historyReply' IN
             /\ given.channel = channel /\ given.kind = "current"
             /\ given.id = 0 <=> ids = {}
             /\ given.id # 0 => /\ samples[given.id].channel = channel
                                /\ samples[given.id].at = samples[History!Max(ids)].at
  <2>1. CASE ids = {}
    BY <1>1, <1>6, <2>1
  <2>2. CASE ids # {}
    <3>1. PICK k \in History!Newest(channel) :
            historyReply' = [kind |-> "current", channel |-> channel, id |-> k]
      BY <1>1, <1>5, <1>7, <2>2
    <3>2. k \in ids /\ samples[k].at = samples[History!Max(ids)].at
      BY <1>1, <1>5, <1>7, <2>2
    <3>3. k # 0 /\ samples[k].channel = channel
      BY <1>3, <3>2
    <3>. QED BY <2>2, <3>1, <3>2, <3>3
  <2>. QED BY <2>1, <2>2
<1>8. History!CurrentIsLast'
  <2>. DEFINE all == {k \in DOMAIN samples' : samples'[k].channel = historyReply'.channel}
  <2>1. ASSUME backs' = 0
        PROVE  /\ historyReply'.id = 0 <=> all = {}
               /\ historyReply'.id # 0 =>
                    /\ samples'[historyReply'.id].channel = historyReply'.channel
                    /\ samples'[historyReply'.id].at = samples'[History!Max(all)].at
    <3>1. historyReply'.channel = channel
      BY <1>7, <2>1
    <3>2. all = ids
      BY <1>1, <3>1 DEF ids, History!OfChannel
    <3>. HIDE DEF all
    <3>. QED BY <1>1, <1>7, <2>1, <3>1, <3>2
  <2>2. History!OfChannel(historyReply.channel)' = all
    BY DEF History!OfChannel
  <2>. HIDE DEF all
  <2>. QED BY <2>1, <2>2 DEF History!CurrentIsLast
<1>9. Conserved'
  BY <1>1 DEF Conserved
<1>. QED BY <1>1, <1>8, <1>9 DEF HistoryInv, LastThere, Ordered, History!OfChannel

\* The smallest bucket is positive, and so is the greater of it and any other.
LEMMA BucketOK ==
  ASSUME NEW bucketMs \in Buckets
  PROVE  History!Max({MIN_BUCKET, bucketMs}) \in Nat \ {0}
<1>. DEFINE two == {MIN_BUCKET, bucketMs}
<1>1. MIN_BUCKET \in Nat \ {0} /\ bucketMs \in Nat
  BY BucketPositive
<1>2. \E x \in two : \A y \in two : x >= y
  BY <1>1
<1>3. History!Max(two) \in two /\ \A y \in two : History!Max(two) >= y
  <2>. HIDE DEF two
  <2>. QED BY <1>2 DEF History!Max
<1>. QED BY <1>1, <1>3

\* The answer of a history is that of the readings.
LEMMA AnswerConserves ==
  ASSUME HistoryInv, NEW channel \in Channels, NEW fromMs \in Times \cup {None},
         NEW toMs \in Times \cup {None}, NEW bucketMs \in Buckets,
         History!PowerHistory(channel, fromMs, toMs, bucketMs)
  PROVE  Conserved'
<1>. DEFINE end == IF toMs = None THEN clock ELSE toMs
            begin == CASE fromMs # None -> fromMs
                       [] fromMs = None /\ clock > WINDOW -> clock - WINDOW
                       [] OTHER -> 0
            width == History!Max({MIN_BUCKET, bucketMs})
            buckets == History!GetTelemetryHistoryBuckets(channel, begin, end, width)
<1>1. /\ samples' = samples
      /\ historyReply' = IF begin > end \/ end - begin > MAX_RANGE
                         THEN [kind |-> "invalid_range"]
                         ELSE [kind |-> "history", channel |-> channel, from |-> begin, to |-> end,
                               bucket |-> width, points |-> buckets]
  BY DEF History!PowerHistory
<1>2. samples \in Seq(Sample) /\ clock \in Nat
  BY TimesAreNat DEF HistoryInv
<1>3. begin \in Int /\ end \in Int /\ width \in Nat \ {0}
  <2>1. end \in Int
    BY <1>2, TimesAreNat
  <2>2. begin \in Int
    BY <1>2, TimesAreNat, PowersAreInt
  <2>. QED BY <2>1, <2>2, BucketOK
<1>. HIDE DEF begin, end, width
<1>4. Conserves(samples, channel, begin, end, width, buckets)
  BY <1>2, <1>3, BucketsConserve
<1>. HIDE DEF buckets
<1>5. historyReply'.kind = "history" =>
        Conserves(samples', historyReply'.channel, historyReply'.from, historyReply'.to,
                  historyReply'.bucket, historyReply'.points)
  BY <1>1, <1>4
<1>. QED BY <1>5 DEF Conserved

\* The answer the invariant speaks of is the property's.
LEMMA ConservedIs ==
  ASSUME Conserved
  PROVE  History!HistoryConserves
<1>. SUFFICES ASSUME historyReply # None, historyReply.kind = "history"
              PROVE  History!HistoryConserves
  BY DEF History!HistoryConserves
<1>. DEFINE points == historyReply.points
            ids == {k \in DOMAIN samples : /\ samples[k].channel = historyReply.channel
                                           /\ samples[k].power # None
                                           /\ samples[k].at \in historyReply.from .. historyReply.to}
            ns == [i1 \in DOMAIN points |-> points[i1].n]
            sums == [i1 \in DOMAIN points |-> points[i1].sum]
            watt == [k \in ids |-> samples[k].power]
<1>1. History!Cardinality(ids) = Cardinality(ids)
  BY DEF Cardinality, History!Cardinality
<1>2. /\ History!SumFunction(ns) = SumFunctionOnSet(ns, DOMAIN points)
      /\ History!SumFunction(sums) = SumFunctionOnSet(sums, DOMAIN points)
      /\ History!SumFunction(watt) = SumFunctionOnSet(watt, ids)
  <2>1. DOMAIN ns = DOMAIN points /\ DOMAIN sums = DOMAIN points /\ DOMAIN watt = ids
    OBVIOUS
  <2>. HIDE DEF ns, sums, watt, ids, points
  <2>. QED BY <2>1, HistorySum
<1>. QED BY <1>1, <1>2 DEF Conserved, Conserves, History!HistoryConserves

\* Every step for the recorded readings.
LEMMA HistoryStep ==
  ASSUME HistoryInv, History!Next
  PROVE  HistoryInv'
<1>1. CASE History!Tick
  <2>1. historyReply' = None /\ UNCHANGED samples /\ clock' \in Times
        /\ ((clock' > clock /\ UNCHANGED backs) \/ backs' = backs + 1)
    BY <1>1 DEF History!Tick
  <2>2. samples \in Seq(Sample) /\ clock \in Nat /\ clock' \in Nat /\ backs \in Nat
        /\ \A k \in DOMAIN samples : samples[k].at \in Nat
    BY <2>1, TimesAreNat, SampleTyped DEF HistoryInv
  <2>3. backs' \in Nat /\ (backs' = 0 => clock' > clock /\ backs = 0)
    BY <2>1, <2>2
  <2>4. ASSUME backs' = 0 PROVE Ordered'
    <3>1. Ordered
      BY <2>3, <2>4 DEF HistoryInv
    <3>. QED BY <2>1, <2>2, <2>3, <2>4, <3>1 DEF Ordered
  <2>. QED BY <2>1, <2>3, <2>4 DEF HistoryInv, LastThere, History!OfChannel, History!CurrentIsLast, Conserved
<1>2. ASSUME UNCHANGED <<clock, samples, backs>>, historyReply' = None \/ historyReply'.kind # "current",
             Conserved'
      PROVE  HistoryInv'
  BY <1>2 DEF HistoryInv, LastThere, Ordered, History!OfChannel, History!CurrentIsLast
<1>3. CASE History!Answered
  BY <1>2, <1>3 DEF History!Answered, Conserved
<1>4. ASSUME NEW channel \in Channels, NEW fromMs \in Times \cup {None}, NEW toMs \in Times \cup {None},
             NEW bucketMs \in Buckets, History!PowerHistory(channel, fromMs, toMs, bucketMs)
      PROVE  HistoryInv'
  <2>1. UNCHANGED <<clock, samples, backs>> /\ historyReply'.kind \in {"invalid_range", "history"}
    BY <1>4 DEF History!PowerHistory
  <2>. QED BY <1>2, <1>4, <2>1, AnswerConserves
<1>. QED BY <1>1, <1>3, <1>4, RecordStep, CurrentStep DEF History!Next

\* Nothing was recorded, and nothing changes.
LEMMA HistoryKept ==
  /\ History!Init => HistoryInv
  /\ HistoryInv /\ UNCHANGED historyVars => HistoryInv'
<1>1. ASSUME History!Init PROVE HistoryInv
  <2>1. samples = <<>> /\ clock \in Times /\ backs = 0 /\ historyReply = None
    BY <1>1 DEF History!Init
  <2>2. samples \in Seq(Sample) /\ DOMAIN samples = {}
    BY <2>1
  <2>. QED BY <2>1, <2>2 DEF HistoryInv, LastThere, Ordered, History!OfChannel, History!CurrentIsLast, Conserved
<1>2. ASSUME HistoryInv, UNCHANGED historyVars PROVE HistoryInv'
  BY <1>2 DEF historyVars, HistoryInv, LastThere, Ordered, History!OfChannel, History!CurrentIsLast, Conserved
<1>. QED BY <1>1, <1>2

-----------------------------------------------------------------------------
(* What is read of an answer *)

\* A list of items, as a section holds them.
Items(items) == \E n \in Nat : items \in [1 .. n -> Payload!Item]

\* An item with a channel holds nothing but that and its state.
LEMMA BadItem ==
  /\ Payload!Bad.channel = None
  /\ \A it \in Payload!Item : it = Payload!Bad \/ (it.channel \in Channels /\ it.channel # None)
  /\ \A it \in Payload!Item : it.channel # None => it = [channel |-> it.channel, onoff |-> it.onoff]
BY ChannelsAreNat DEF Payload!Bad, Payload!Item

\* Some index of a list that is not empty is the first.
LEMMA FirstOf ==
  ASSUME NEW S, S \subseteq Nat, S # {}
  PROVE  Payload!Min(S) \in S /\ \A k \in S : Payload!Min(S) <= k
<1>1. \E x \in S : \A y \in S : x <= y
  BY LeastNat
<1>. QED BY <1>1 DEF Payload!Min

\* The indices of the items that have a channel.
Valid(items) == {k \in DOMAIN items : items[k].channel # None}

\* The usable items are the ones with a channel, in some order.
LEMMA UsableIs ==
  ASSUME NEW items, Items(items)
  PROVE  /\ \A k \in DOMAIN Payload!Usable(items) : \E m \in Valid(items) : Payload!Usable(items)[k] = items[m]
         /\ \A m \in Valid(items) : \E k \in DOMAIN Payload!Usable(items) : Payload!Usable(items)[k] = items[m]
         /\ DOMAIN Payload!Usable(items) \subseteq Nat
         /\ Payload!Usable(items) = <<>> <=> Valid(items) = {}
<1>. DEFINE S == Valid(items)
            n == Payload!Cardinality(S)
            R == {e \in S \X S : Payload!Before(items, e[1], e[2])}
            Fits(p) == \A x, y \in 1 .. n : x < y => Payload!Before(items, p[x], p[y])
            order == CHOOSE p \in [1 .. n -> S] : Fits(p)
<1>1. PICK len \in Nat : items \in [1 .. len -> Payload!Item]
  BY DEF Items
<1>2. /\ S \subseteq 1 .. len /\ S \subseteq Nat
      /\ \A k \in S : items[k].channel \in Nat
  BY <1>1, BadItem, ChannelsAreNat DEF Valid
<1>3. IsFiniteSet(S)
  <2>1. IsFiniteSet(1 .. len)
    BY FS_Interval
  <2>. HIDE DEF S
  <2>. QED BY <1>2, <2>1, FS_Subset
<1>4. n = Cardinality(S) /\ n \in Nat
  <2>1. n = Cardinality(S)
    BY DEF Cardinality, Payload!Cardinality
  <2>. HIDE DEF n, S
  <2>. QED BY <1>3, <2>1, FS_CardinalityType
<1>5. Payload!Usable(items) = [x \in 1 .. n |-> items[order[x]]]
  BY Zenon DEF Payload!Usable, Valid
<1>. HIDE DEF S
<1>6. Orders(R, S)
  BY <1>2 DEF Orders, Payload!Before
<1>7. PICK p \in [1 .. n -> S] : InOrder(p, n, R)
  <2>. HIDE DEF R, n
  <2>. QED BY <1>3, <1>4, <1>6, ListExists
<1>8. Fits(p)
  BY <1>7 DEF InOrder
<1>. HIDE DEF n
<1>9. order \in [1 .. n -> S] /\ Fits(order)
  BY <1>8
<1>. HIDE DEF order
<1>10. InOrder(order, n, R)
  BY <1>9 DEF InOrder
<1>11. \A m \in S : \E k \in 1 .. n : order[k] = m
  <2>. HIDE DEF R, Fits
  <2>. QED BY <1>3, <1>4, <1>6, <1>9, <1>10, ListCovers
<1>12. n = 0 <=> S = {}
  BY <1>3, <1>4, FS_EmptySet
<1>13. Payload!Usable(items) = <<>> <=> n = 0
  BY <1>4, <1>5
<1>14. /\ DOMAIN Payload!Usable(items) = 1 .. n
       /\ \A x \in 1 .. n : Payload!Usable(items)[x] = items[order[x]] /\ order[x] \in S
  BY <1>5, <1>9
<1>15. \A m \in S : \E k \in 1 .. n : Payload!Usable(items)[k] = items[m]
  BY <1>11, <1>14
<1>. QED BY <1>4, <1>12, <1>13, <1>14, <1>15 DEF S

\* Nothing is usable in an empty list and in the wrapper of a nested section.
LEMMA NothingUsable == Payload!Usable(<<>>) = <<>> /\ Payload!Usable(<<Payload!Bad>>) = <<>>
<1>1. Items(<<>>) /\ Valid(<<>>) = {}
  <2>1. <<>> \in [1 .. 0 -> Payload!Item]
    OBVIOUS
  <2>. QED BY <2>1 DEF Items, Valid
<1>2. Items(<<Payload!Bad>>) /\ Valid(<<Payload!Bad>>) = {}
  <2>1. <<Payload!Bad>> \in [1 .. 1 -> Payload!Item]
    BY DEF Payload!Item
  <2>. QED BY <2>1, BadItem DEF Items, Valid
<1>. QED BY <1>1, <1>2, UsableIs

\* The first of two lists that is not empty.
Else(one, other) == IF one # <<>> THEN one ELSE other

\* Three candidates, and four, are tried in their order.
LEMMA ThreeCandidates ==
  ASSUME NEW a, NEW b, NEW c
  PROVE  Payload!FirstUsable(<<a, b, c>>)
           = Else(Payload!Usable(a), Else(Payload!Usable(b), Payload!Usable(c)))
<1>. DEFINE cands == <<a, b, c>>
            full == {k \in DOMAIN cands : Payload!Usable(cands[k]) # <<>>}
<1>1. full \subseteq Nat /\ full \subseteq {1, 2, 3} /\ DOMAIN cands = {1, 2, 3}
  OBVIOUS
<1>2. /\ 1 \in full <=> Payload!Usable(a) # <<>>
      /\ 2 \in full <=> Payload!Usable(b) # <<>>
      /\ 3 \in full <=> Payload!Usable(c) # <<>>
  BY <1>1
<1>3. Payload!FirstUsable(cands) = IF full = {} THEN <<>> ELSE Payload!Usable(cands[Payload!Min(full)])
  BY DEF Payload!FirstUsable
<1>4. cands[1] = a /\ cands[2] = b /\ cands[3] = c
  OBVIOUS
<1>. HIDE DEF full, cands
<1>5. full # {} => Payload!Min(full) \in full /\ \A k \in full : Payload!Min(full) <= k
  BY <1>1, FirstOf
<1>6. Payload!FirstUsable(cands)
        = Else(Payload!Usable(a), Else(Payload!Usable(b), Payload!Usable(c)))
  <2>1. CASE full = {}
    BY <1>2, <1>3, <2>1 DEF Else
  <2>2. CASE 1 \in full
    <3>. DEFINE m == Payload!Min(full)
    <3>1. m \in full /\ m <= 1 /\ (m = 1 \/ m = 2 \/ m = 3)
      BY <1>1, <1>5, <2>2, Zenon
    <3>2. m = 1
      <4>. HIDE DEF m
      <4>. QED BY <2>2, <3>1
    <3>. QED BY <1>2, <1>3, <1>4, <2>2, <3>2 DEF Else
  <2>3. CASE 2 \in full /\ 1 \notin full
    <3>. DEFINE m == Payload!Min(full)
    <3>1. m \in full /\ m <= 2 /\ (m = 1 \/ m = 2 \/ m = 3)
      BY <1>1, <1>5, <2>3, Zenon
    <3>2. m = 2
      <4>. HIDE DEF m
      <4>. QED BY <2>3, <3>1
    <3>. QED BY <1>2, <1>3, <1>4, <2>3, <3>2 DEF Else
  <2>4. CASE 3 \in full /\ 1 \notin full /\ 2 \notin full
    <3>. DEFINE m == Payload!Min(full)
    <3>1. m \in full /\ m <= 3 /\ (m = 1 \/ m = 2 \/ m = 3)
      BY <1>1, <1>5, <2>4, Zenon
    <3>2. m = 3
      <4>. HIDE DEF m
      <4>. QED BY <2>4, <3>1
    <3>. QED BY <1>2, <1>3, <1>4, <2>4, <3>2 DEF Else
  <2>. QED BY <1>1, <2>1, <2>2, <2>3, <2>4
<1>. QED BY <1>6 DEF cands

\* The same for four places, as a light is looked for.
LEMMA FourCandidates ==
  ASSUME NEW a, NEW b, NEW c, NEW d
  PROVE  Payload!FirstUsable(<<a, b, c, d>>)
           = Else(Payload!Usable(a), Else(Payload!Usable(b), Else(Payload!Usable(c), Payload!Usable(d))))
<1>. DEFINE cands == <<a, b, c, d>>
            full == {k \in DOMAIN cands : Payload!Usable(cands[k]) # <<>>}
<1>1. full \subseteq Nat /\ full \subseteq {1, 2, 3, 4} /\ DOMAIN cands = {1, 2, 3, 4}
  OBVIOUS
<1>2. /\ 1 \in full <=> Payload!Usable(a) # <<>>
      /\ 2 \in full <=> Payload!Usable(b) # <<>>
      /\ 3 \in full <=> Payload!Usable(c) # <<>>
      /\ 4 \in full <=> Payload!Usable(d) # <<>>
  BY <1>1
<1>3. Payload!FirstUsable(cands) = IF full = {} THEN <<>> ELSE Payload!Usable(cands[Payload!Min(full)])
  BY DEF Payload!FirstUsable
<1>4. cands[1] = a /\ cands[2] = b /\ cands[3] = c /\ cands[4] = d
  OBVIOUS
<1>. HIDE DEF full, cands
<1>5. full # {} => Payload!Min(full) \in full /\ \A k \in full : Payload!Min(full) <= k
  BY <1>1, FirstOf
<1>6. Payload!FirstUsable(cands)
        = Else(Payload!Usable(a), Else(Payload!Usable(b), Else(Payload!Usable(c), Payload!Usable(d))))
  <2>1. CASE full = {}
    BY <1>2, <1>3, <2>1 DEF Else
  <2>2. CASE 1 \in full
    <3>. DEFINE m == Payload!Min(full)
    <3>1. m \in full /\ m <= 1 /\ (m = 1 \/ m = 2 \/ m = 3 \/ m = 4)
      BY <1>1, <1>5, <2>2, Zenon
    <3>2. m = 1
      <4>. HIDE DEF m
      <4>. QED BY <2>2, <3>1
    <3>. QED BY <1>2, <1>3, <1>4, <2>2, <3>2 DEF Else
  <2>3. CASE 2 \in full /\ 1 \notin full
    <3>. DEFINE m == Payload!Min(full)
    <3>1. m \in full /\ m <= 2 /\ (m = 1 \/ m = 2 \/ m = 3 \/ m = 4)
      BY <1>1, <1>5, <2>3, Zenon
    <3>2. m = 2
      <4>. HIDE DEF m
      <4>. QED BY <2>3, <3>1
    <3>. QED BY <1>2, <1>3, <1>4, <2>3, <3>2 DEF Else
  <2>4. CASE 3 \in full /\ 1 \notin full /\ 2 \notin full
    <3>. DEFINE m == Payload!Min(full)
    <3>1. m \in full /\ m <= 3 /\ (m = 1 \/ m = 2 \/ m = 3 \/ m = 4)
      BY <1>1, <1>5, <2>4, Zenon
    <3>2. m = 3
      <4>. HIDE DEF m
      <4>. QED BY <2>4, <3>1
    <3>. QED BY <1>2, <1>3, <1>4, <2>4, <3>2 DEF Else
  <2>5. CASE 4 \in full /\ 1 \notin full /\ 2 \notin full /\ 3 \notin full
    <3>. DEFINE m == Payload!Min(full)
    <3>1. m \in full /\ m <= 4 /\ (m = 1 \/ m = 2 \/ m = 3 \/ m = 4)
      BY <1>1, <1>5, <2>5, Zenon
    <3>2. m = 4
      <4>. HIDE DEF m
      <4>. QED BY <2>5, <3>1
    <3>. QED BY <1>2, <1>3, <1>4, <2>5, <3>2 DEF Else
  <2>. QED BY <1>1, <2>1, <2>2, <2>3, <2>4, <2>5
<1>. QED BY <1>6 DEF cands

\* What a section holds, and how its own value and the one below it are read.
LEMMA SectionIs ==
  ASSUME NEW s \in Payload!Section
  PROVE  /\ Items(s.items)
         /\ s.form = "nested" => Payload!Own(s) = <<Payload!Bad>> /\ Payload!Inner(s) = s.items
         /\ s.form # "nested" => Payload!Own(s) = s.items /\ Payload!Inner(s) = <<>>
         /\ Payload!Inner(Payload!Flattened(s)) = <<>>
         /\ Payload!Own(Payload!Flattened(s)) = s.items
<1>1. \/ s = Payload!NoSection
      \/ s \in [form : {"list", "nested"}, items : Payload!Some(MaxItems)]
      \/ s \in [form : {"one"}, items : Payload!Some(1)]
  BY DEF Payload!Section
<1>2. ASSUME NEW n \in Nat, NEW items \in Payload!Some(n) PROVE Items(items)
  BY <1>2 DEF Payload!Some, Items
<1>3. Items(s.items)
  <2>1. CASE s = Payload!NoSection
    <3>1. s.items = <<>> /\ <<>> \in [1 .. 0 -> Payload!Item]
      BY <2>1 DEF Payload!NoSection
    <3>. QED BY <3>1 DEF Items
  <2>2. CASE s # Payload!NoSection
    BY <1>1, <1>2, <2>2, ChannelsAreNat
  <2>. QED BY <2>1, <2>2
<1>4. s = [form |-> s.form, items |-> s.items]
  BY <1>1 DEF Payload!NoSection
<1>5. s.form = "nested" => Payload!Flattened(s) = [form |-> "list", items |-> s.items]
  BY <1>4 DEF Payload!Flattened
<1>. QED BY <1>3, <1>5 DEF Payload!Own, Payload!Inner, Payload!Flattened

\* A section gives what its items give, nested or not.
LEMMA SectionRead ==
  ASSUME NEW s \in Payload!Section, NEW rest
  PROVE  /\ Else(Payload!Usable(Payload!Own(s)), Else(Payload!Usable(Payload!Inner(s)), rest))
              = Else(Payload!Usable(s.items), rest)
         /\ Else(Payload!Usable(Payload!Own(Payload!Flattened(s))),
                 Else(Payload!Usable(Payload!Inner(Payload!Flattened(s))), rest))
              = Else(Payload!Usable(s.items), rest)
BY SectionIs, NothingUsable DEF Else

\* A light is read the same wherever it is put.
LEMMA LightsRead ==
  ASSUME NEW l \in Payload!Section, NEW a \in Payload!Section
  PROVE  /\ Payload!ExtractLanLight(l, a) = Else(Payload!Usable(l.items), Payload!Usable(a.items))
         /\ Payload!ExtractLanLight(Payload!Flattened(l), Payload!Flattened(a))
              = Else(Payload!Usable(l.items), Payload!Usable(a.items))
<1>. DEFINE U(items) == Payload!Usable(items)
<1>1. \A x : Else(x, <<>>) = x
  BY DEF Else
<1>2. ASSUME NEW p, NEW q, NEW r, NEW t
      PROVE  Payload!FirstUsable(<<p, q, r, t>>) = Else(U(p), Else(U(q), Else(U(r), Else(U(t), <<>>))))
  BY <1>1, FourCandidates
<1>3. Else(U(Payload!Own(a)), Else(U(Payload!Inner(a)), <<>>)) = U(a.items)
  BY <1>1, SectionRead
<1>4. Else(U(Payload!Own(Payload!Flattened(a))), Else(U(Payload!Inner(Payload!Flattened(a))), <<>>)) = U(a.items)
  BY <1>1, SectionRead
<1>5. Payload!ExtractLanLight(l, a) = Else(U(l.items), U(a.items))
  <2>1. Payload!ExtractLanLight(l, a)
          = Else(U(Payload!Own(l)), Else(U(Payload!Inner(l)), U(a.items)))
    BY <1>2, <1>3 DEF Payload!ExtractLanLight
  <2>. QED BY <2>1, SectionRead
<1>6. Payload!ExtractLanLight(Payload!Flattened(l), Payload!Flattened(a)) = Else(U(l.items), U(a.items))
  <2>. DEFINE fl == Payload!Flattened(l)
              fa == Payload!Flattened(a)
  <2>1. Payload!ExtractLanLight(fl, fa)
          = Else(U(Payload!Own(fl)), Else(U(Payload!Inner(fl)), U(a.items)))
    BY <1>2, <1>4 DEF Payload!ExtractLanLight
  <2>. QED BY <2>1, SectionRead
<1>. QED BY <1>5, <1>6

\* The other key of a switch counts between the two levels of the first one.
LEMMA TogglesRead ==
  ASSUME NEW x \in Payload!Section, NEW t \in Payload!Section
  PROVE  /\ Payload!ExtractLanToggleX(x, t)
              = Else(Payload!Usable(Payload!Own(x)), Else(Payload!Usable(Payload!Own(t)), Payload!Usable(Payload!Inner(x))))
         /\ t = Payload!NoSection =>
              Payload!ExtractLanToggleX(x, t) = Payload!ExtractLanToggleX(Payload!Flattened(x), t)
<1>1. ASSUME NEW y
      PROVE  Payload!ExtractLanToggleX(y, t)
               = Else(Payload!Usable(Payload!Own(y)), Else(Payload!Usable(Payload!Own(t)), Payload!Usable(Payload!Inner(y))))
  BY ThreeCandidates DEF Payload!ExtractLanToggleX
<1>2. ASSUME t = Payload!NoSection
      PROVE  Payload!ExtractLanToggleX(x, t) = Payload!ExtractLanToggleX(Payload!Flattened(x), t)
  <2>1. Payload!Usable(Payload!Own(t)) = <<>>
    BY <1>2, NothingUsable DEF Payload!NoSection, Payload!Own
  <2>. QED BY <1>1, <2>1, SectionIs, NothingUsable DEF Else
<1>. QED BY <1>1, <1>2

\* A usable item of a list is one of its items, and one with a channel.
LEMMA UsableItems ==
  ASSUME NEW items, Items(items)
  PROVE  /\ \A k \in DOMAIN Payload!Usable(items) :
              \E m \in DOMAIN items : /\ Payload!Usable(items)[k] = items[m] /\ items[m].channel # None
                                      /\ items[m] = [channel |-> items[m].channel, onoff |-> items[m].onoff]
         /\ \A m \in DOMAIN items : items[m].channel # None =>
              \E k \in DOMAIN Payload!Usable(items) : Payload!Usable(items)[k] = items[m]
<1>1. \A m \in DOMAIN items : items[m] \in Payload!Item
  BY DEF Items
<1>. QED BY <1>1, UsableIs, BadItem DEF Valid

\* The items a section holds.
Said(s) == {s.items[k] : k \in DOMAIN s.items}

\* Entries of a list that are among said, each with its channel.
Reported(states, said1) ==
  /\ DOMAIN states \subseteq Nat
  /\ \A k \in DOMAIN states : /\ states[k] \in said1
                              /\ states[k] = [channel |-> states[k].channel, onoff |-> states[k].onoff]

\* What is read of a section was said in it, and every usable item of it is read.
LEMMA SectionReported ==
  ASSUME NEW s \in Payload!Section
  PROVE  /\ Reported(Payload!Usable(s.items), Said(s))
         /\ Reported(Payload!Usable(Payload!Own(s)), Said(s))
         /\ Reported(Payload!Usable(Payload!Inner(s)), Said(s))
         /\ \A it \in Said(s) : it.channel # None =>
              \E k \in DOMAIN Payload!Usable(s.items) : Payload!Usable(s.items)[k] = it
<1>1. Items(s.items)
  BY SectionIs
<1>2. Reported(Payload!Usable(s.items), Said(s))
  BY <1>1, UsableItems, UsableIs DEF Reported, Said
<1>3. Reported(<<>>, Said(s))
  BY DEF Reported
<1>4. /\ Payload!Usable(Payload!Own(s)) \in {<<>>, Payload!Usable(s.items)}
      /\ Payload!Usable(Payload!Inner(s)) \in {<<>>, Payload!Usable(s.items)}
  BY SectionIs, NothingUsable
<1>5. \A it \in Said(s) : it.channel # None =>
              \E k \in DOMAIN Payload!Usable(s.items) : Payload!Usable(s.items)[k] = it
  BY <1>1, UsableItems DEF Said
<1>. QED BY <1>2, <1>3, <1>4, <1>5

\* What is answered for a channel is an entry of that channel.
LEMMA StateReplyIs ==
  ASSUME NEW toggles, NEW lights, NEW ts, NEW ls, Reported(toggles, ts), Reported(lights, ls), NEW channel
  PROVE  /\ Payload!StateReply(toggles, lights, channel).ok =>
              [channel |-> channel, onoff |-> Payload!StateReply(toggles, lights, channel).onoff] \in ts \cup ls
         /\ (\E k \in DOMAIN lights : lights[k].channel = channel) =>
              Payload!StateReply(toggles, lights, channel).ok
<1>. DEFINE L == Payload!Find(lights, channel)
            T == Payload!Find(toggles, channel)
            answer1 == Payload!StateReply(toggles, lights, channel)
<1>1. L \subseteq Nat /\ T \subseteq Nat
  BY DEF Payload!Find, Reported
<1>2. answer1 = CASE L # {} -> [ok |-> TRUE, onoff |-> lights[Payload!Min(L)].onoff]
                  [] L = {} /\ T # {} -> [ok |-> TRUE, onoff |-> toggles[Payload!Min(T)].onoff]
                  [] OTHER -> [ok |-> FALSE]
  BY DEF Payload!StateReply
<1>3. CASE L # {}
  <2>. DEFINE k == Payload!Min(L)
  <2>1. k \in L
    BY <1>1, <1>3, FirstOf
  <2>2. k \in DOMAIN lights /\ lights[k].channel = channel
    BY <2>1 DEF Payload!Find
  <2>3. answer1 = [ok |-> TRUE, onoff |-> lights[k].onoff]
    BY <1>2, <1>3
  <2>. HIDE DEF k, answer1
  <2>4. answer1.ok /\ answer1.onoff = lights[k].onoff
    BY <2>3
  <2>. QED BY <2>2, <2>4 DEF Reported, answer1
<1>4. CASE L = {} /\ T # {}
  <2>. DEFINE k == Payload!Min(T)
  <2>1. k \in T
    BY <1>1, <1>4, FirstOf
  <2>2. k \in DOMAIN toggles /\ toggles[k].channel = channel
    BY <2>1 DEF Payload!Find
  <2>3. answer1 = [ok |-> TRUE, onoff |-> toggles[k].onoff]
    BY <1>2, <1>4
  <2>. HIDE DEF k, answer1
  <2>4. answer1.ok /\ answer1.onoff = toggles[k].onoff
    BY <2>3
  <2>. QED BY <2>2, <2>4 DEF Reported, answer1
<1>5. CASE L = {} /\ T = {}
  <2>1. answer1 = [ok |-> FALSE]
    BY <1>2, <1>5
  <2>2. ~\E k \in DOMAIN lights : lights[k].channel = channel
    BY <1>5 DEF Payload!Find
  <2>. HIDE DEF answer1
  <2>3. ~answer1.ok
    BY <2>1
  <2>. QED BY <2>2, <2>3 DEF answer1
<1>. QED BY <1>3, <1>4, <1>5

\* A reading next to others is found, or one before it.
LEMMA ReadingRead ==
  ASSUME NEW direct \in Payload!Readings, NEW inDigest \in Payload!Readings,
         NEW e \in {direct, inDigest}, e.channel # None, e.values # {}
  PROVE  Payload!ExtractLanElectricity(direct, inDigest) # {}
<1>. DEFINE Level(x) == IF x.form = "nested" THEN <<Payload!Wrapper, x>> ELSE <<x>>
            cands == Level(direct) \o Level(inDigest)
            readable == {k \in DOMAIN cands : cands[k].channel # None /\ cands[k].values # {}}
<1>1. Payload!ExtractLanElectricity(direct, inDigest)
        = IF readable = {} THEN {} ELSE cands[Payload!Min(readable)].values
  BY DEF Payload!ExtractLanElectricity
<1>2. DOMAIN cands \subseteq Nat /\ \E k \in DOMAIN cands : cands[k] = e
  <2>. DEFINE a == Level(direct)
              b == Level(inDigest)
  <2>1. /\ \E any : a \in Seq(any) /\ b \in Seq(any)
        /\ \E k \in 1 .. Len(a) : a[k] = direct
        /\ \E k \in 1 .. Len(b) : b[k] = inDigest
    <3>. DEFINE any == {direct, inDigest, Payload!Wrapper}
    <3>1. a \in Seq(any) /\ b \in Seq(any)
      <4>1. direct \in any /\ inDigest \in any /\ Payload!Wrapper \in any
        OBVIOUS
      <4>. HIDE DEF any
      <4>2. /\ <<direct>> \in Seq(any) /\ <<Payload!Wrapper, direct>> \in Seq(any)
            /\ <<inDigest>> \in Seq(any) /\ <<Payload!Wrapper, inDigest>> \in Seq(any)
        BY <4>1
      <4>. QED BY <4>2
    <3>2. \E k \in 1 .. Len(a) : a[k] = direct
      <4>1. CASE direct.form = "nested"
        <5>1. a = <<Payload!Wrapper, direct>>
          BY <4>1
        <5>2. Len(a) = 2 /\ a[2] = direct
          BY <5>1
        <5>. QED BY <5>2
      <4>2. CASE direct.form # "nested"
        <5>1. a = <<direct>>
          BY <4>2
        <5>2. Len(a) = 1 /\ a[1] = direct
          BY <5>1
        <5>. QED BY <5>2
      <4>. QED BY <4>1, <4>2
    <3>3. \E k \in 1 .. Len(b) : b[k] = inDigest
      <4>1. CASE inDigest.form = "nested"
        <5>1. b = <<Payload!Wrapper, inDigest>>
          BY <4>1
        <5>2. Len(b) = 2 /\ b[2] = inDigest
          BY <5>1
        <5>. QED BY <5>2
      <4>2. CASE inDigest.form # "nested"
        <5>1. b = <<inDigest>>
          BY <4>2
        <5>2. Len(b) = 1 /\ b[1] = inDigest
          BY <5>1
        <5>. QED BY <5>2
      <4>. QED BY <4>1, <4>2
    <3>. HIDE DEF a, b
    <3>. QED BY <3>1, <3>2, <3>3
  <2>2. cands = a \o b
    OBVIOUS
  <2>. HIDE DEF a, b, cands
  <2>3. /\ DOMAIN cands = 1 .. Len(a) + Len(b) /\ Len(a) \in Nat /\ Len(b) \in Nat
        /\ \A k \in 1 .. Len(a) : cands[k] = a[k]
        /\ \A k \in 1 .. Len(b) : cands[Len(a) + k] = b[k]
    BY <2>1, <2>2
  <2>4. CASE e = direct
    <3>1. PICK k \in 1 .. Len(a) : a[k] = direct
      BY <2>1
    <3>2. k \in DOMAIN cands /\ cands[k] = e
      BY <2>3, <2>4, <3>1
    <3>. QED BY <2>3, <3>2
  <2>5. CASE e = inDigest
    <3>1. PICK k \in 1 .. Len(b) : b[k] = inDigest
      BY <2>1
    <3>2. Len(a) + k \in DOMAIN cands /\ cands[Len(a) + k] = e
      BY <2>3, <2>5, <3>1
    <3>. QED BY <2>3, <3>2
  <2>. QED BY <2>4, <2>5
<1>. HIDE DEF cands
<1>3. readable \subseteq Nat /\ readable # {}
  BY <1>2
<1>4. Payload!Min(readable) \in readable
  <2>. HIDE DEF readable
  <2>. QED BY <1>3, FirstOf
<1>. QED BY <1>1, <1>3, <1>4

\* Sections and readings are what devices send, and an answer is for what was read.
PayloadInv ==
  /\ togglex \in Payload!Section /\ toggle \in Payload!Section
  /\ light \in Payload!Section /\ lamp \in Payload!Section
  /\ electricity \in Payload!Readings /\ power \in Payload!Readings
  /\ asked \in Channels
  /\ reply # None =>
       reply.state = Payload!StateReply(Payload!ExtractLanToggleX(togglex, toggle),
                                        Payload!ExtractLanLight(light, lamp), asked)

\* An answer of the device and the reply of the handler.
LEMMA PayloadStep ==
  ASSUME PayloadInv, Payload!Next
  PROVE  PayloadInv'
<1>1. CASE Payload!GetDeviceState
  <2>1. /\ UNCHANGED <<togglex, toggle, light, lamp, electricity, power, asked>>
        /\ reply'.state = Payload!StateReply(Payload!ExtractLanToggleX(togglex, toggle),
                                             Payload!ExtractLanLight(light, lamp), asked)
    BY <1>1 DEF Payload!GetDeviceState, Payload!digest
  <2>. QED BY <2>1 DEF PayloadInv
<1>2. CASE Payload!Rest
  BY <1>2 DEF Payload!Rest, Payload!vars, Payload!digest, PayloadInv
<1>. QED BY <1>1, <1>2 DEF Payload!Next

\* It holds at first, and of steps that leave the payloads alone.
LEMMA PayloadKept ==
  /\ Payload!Init => PayloadInv
  /\ PayloadInv /\ UNCHANGED payloadVars => PayloadInv'
<1>1. Payload!NoSection \in Payload!Section /\ Payload!NoReading \in Payload!Readings
  BY DEF Payload!Section, Payload!Readings
<1>2. ASSUME Payload!Init PROVE PayloadInv
  <2>1. /\ togglex \in Payload!Section /\ toggle \in Payload!Section
        /\ light \in Payload!Section /\ lamp \in Payload!Section
        /\ electricity \in Payload!Readings /\ power \in Payload!Readings
        /\ asked \in Channels /\ reply = None
    BY <1>1, <1>2 DEF Payload!Init
  <2>. QED BY <2>1 DEF PayloadInv
<1>3. ASSUME PayloadInv, UNCHANGED payloadVars PROVE PayloadInv'
  BY <1>3 DEF PayloadInv, payloadVars
<1>. QED BY <1>2, <1>3

\* From it the three things that are claimed of an answer.
LEMMA PayloadRead ==
  ASSUME PayloadInv
  PROVE  Payload!NestingIrrelevant /\ Payload!ReadingFound /\ Payload!ReplyReported
<1>1. Payload!NestingIrrelevant
  BY LightsRead, TogglesRead DEF PayloadInv, Payload!NestingIrrelevant
<1>2. Payload!ReadingFound
  BY ReadingRead DEF PayloadInv, Payload!ReadingFound
<1>3. Payload!ReplyReported
  <2>. DEFINE toggles == Payload!ExtractLanToggleX(togglex, toggle)
              lights == Payload!ExtractLanLight(light, lamp)
              ts == Said(togglex) \cup Said(toggle)
              ls == Said(light) \cup Said(lamp)
  <2>0. /\ togglex \in Payload!Section /\ toggle \in Payload!Section
        /\ light \in Payload!Section /\ lamp \in Payload!Section /\ asked \in Channels /\ asked # None
    BY ChannelsAreNat DEF PayloadInv
  <2>1. \A states, a, b : Reported(states, a) \/ Reported(states, b) => Reported(states, a \cup b)
    BY DEF Reported
  <2>2. Reported(toggles, ts)
    <3>1. toggles \in {Payload!Usable(Payload!Own(togglex)), Payload!Usable(Payload!Own(toggle)),
                       Payload!Usable(Payload!Inner(togglex))}
      BY <2>0, TogglesRead DEF Else
    <3>. HIDE DEF toggles
    <3>. QED BY <2>0, <2>1, <3>1, SectionReported
  <2>3. lights = Else(Payload!Usable(light.items), Payload!Usable(lamp.items))
    BY <2>0, LightsRead
  <2>. HIDE DEF lights, toggles
  <2>4. Reported(lights, ls)
    BY <2>0, <2>1, <2>3, SectionReported DEF Else
  <2>5. ASSUME NEW it \in Said(light), it.channel = asked
        PROVE  \E k \in DOMAIN lights : lights[k].channel = asked
    <3>1. PICK k \in DOMAIN Payload!Usable(light.items) : Payload!Usable(light.items)[k] = it
      BY <2>0, <2>5, SectionReported
    <3>2. lights = Payload!Usable(light.items)
      BY <2>3, <3>1 DEF Else
    <3>. QED BY <2>5, <3>1, <3>2
  <2>6. ASSUME reply # None
        PROVE  /\ reply.state.ok => [channel |-> asked, onoff |-> reply.state.onoff] \in ts \cup ls
               /\ (\E it \in Said(light) : it.channel = asked) => reply.state.ok
    <3>1. reply.state = Payload!StateReply(toggles, lights, asked)
      BY <2>6 DEF PayloadInv, toggles, lights
    <3>. HIDE DEF ts, ls
    <3>. QED BY <2>2, <2>4, <2>5, <3>1, StateReplyIs
  <2>. QED BY <2>6 DEF Payload!ReplyReported, Said
<1>. QED BY <1>1, <1>2, <1>3

-----------------------------------------------------------------------------
(* All four *)

DeviceInv == DaysInv /\ RulesInv /\ HistoryInv /\ PayloadInv

\* Every step keeps the invariant, and is one the action properties allow.
LEMMA DeviceStep ==
  ASSUME DeviceInv, [Next]_vars
  PROVE  DeviceInv' /\ ((PatchStep /\ ListStep) \/ UNCHANGED ruleVars)
<1>0. DaysInv /\ RulesInv /\ HistoryInv /\ PayloadInv
  BY DEF DeviceInv
<1>1. CASE Rules!Next /\ UNCHANGED <<payloadVars, dayVars, historyVars>>
  BY <1>0, <1>1, RulesStep, DaysKept, HistoryKept, PayloadKept DEF DeviceInv, Good
<1>2. CASE Days!Next /\ UNCHANGED <<payloadVars, ruleVars, historyVars>>
  BY <1>0, <1>2, RulesKept, DaysStep, HistoryKept, PayloadKept DEF DeviceInv
<1>3. CASE History!Next /\ UNCHANGED <<payloadVars, ruleVars, dayVars>>
  BY <1>0, <1>3, RulesKept, DaysKept, HistoryStep, PayloadKept DEF DeviceInv
<1>4. CASE Payload!Next /\ UNCHANGED <<ruleVars, dayVars, historyVars>>
  BY <1>0, <1>4, RulesKept, DaysKept, HistoryKept, PayloadStep DEF DeviceInv
<1>5. CASE UNCHANGED <<payloadVars, ruleVars, dayVars, historyVars>>
  BY <1>0, <1>5, RulesKept, DaysKept, HistoryKept, PayloadKept DEF DeviceInv
<1>. QED BY <1>1, <1>2, <1>3, <1>4, <1>5 DEF Next, vars

\* It always holds.
LEMMA DeviceInvariant == Spec => []DeviceInv
<1>1. Init => DeviceInv
  BY RulesInit, DaysInit, HistoryKept, PayloadKept DEF Init, DeviceInv
<1>2. DeviceInv /\ [Next]_vars => DeviceInv'
  BY DeviceStep
<1>. QED BY <1>1, <1>2, PTL DEF Spec

\* A delete that answers "deleted" has left no rule, one that answers "disabled" a
\* disabled one, until another call writes the rule: for any number of overlapping calls,
\* whichever of their SETs the device refuses and whichever replies are lost.
THEOREM DeleteAlwaysTruthful == Spec => []DeleteTruthful
<1>1. DeviceInv => DeleteTruthful
  BY DEF DeviceInv, DeleteTruthful, RulesInv
<1>. QED BY <1>1, DeviceInvariant, PTL

\* A patch nobody overtook leaves all it does not name as it was, and a list during which
\* nobody wrote is complete.
THEOREM SerialRulesAlwaysExact == Spec => SerialRulesExact
<1>1. DeviceInv /\ [Next]_vars => [PatchStep]_(Rules!vars) /\ [ListStep]_(Rules!vars)
  BY DeviceStep DEF ruleVars, Rules!vars
<1>. QED BY <1>1, DeviceInvariant, PTL
         DEF Spec, SerialRulesExact, Rules!PatchKeepsRest, Rules!ListComplete, PatchStep, ListStep

\* A stored day falls behind a total that was stored for it only where two requests
\* overlapped and the older answer was handled last, for any requests and dates.
THEOREM DaysAlwaysCurrent == Spec => []DaysCurrent
<1>1. DeviceInv => DaysCurrent
  BY DaysImply DEF DeviceInv, DaysCurrent
<1>. QED BY <1>1, DeviceInvariant, PTL

\* The history's buckets lose and double no reading, whatever range, bucket width and
\* number of readings, and while the clock is not set back the current reading is as
\* recent as the last one recorded for that channel.
THEOREM PowerAlwaysReported == Spec => []PowerReported
<1>1. DeviceInv => PowerReported
  BY ConservedIs DEF DeviceInv, HistoryInv, PowerReported
<1>. QED BY <1>1, DeviceInvariant, PTL

\* A firmware that nests its switches or lights is read like one that does not, a power
\* reading is found under either key, and the state handed to a caller is one the device reported
\* for that very channel, for sections of any length and any set of channels.
THEOREM PayloadsAlwaysRead == Spec => []PayloadsRead
<1>1. DeviceInv => PayloadsRead
  BY PayloadRead DEF DeviceInv, PayloadsRead
<1>. QED BY <1>1, DeviceInvariant, PTL
=============================================================================
