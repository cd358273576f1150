-------------------------- MODULE ConsumptionDays --------------------------
(***************************************************************************)
(* POST /api/device/consumptionx (packages/core/src/api/                   *)
(* get-device-consumptionx.ts): a request reads the daily totals a device  *)
(* keeps and stores them, a row per day, in telemetry_consumption_day.     *)
(* Requests overlap, answers are handled in any order, an answer may lack  *)
(* days or hold entries that are dropped, and each row is written on its   *)
(* own, best-effort.  A device's total of a day only grows, and each total *)
(* has the time it was last counted at.                                    *)
(***************************************************************************)
EXTENDS Naturals

CONSTANTS Calls,      \* requests, each made once
          Dates,
          MaxCount,   \* bound: the totals of the device
          None

VARIABLES counted,   \* the device: time and total of each day
          clock,     \* the device's time
          pc,        \* idle, asked, answered, done for each request
          list,      \* the entries each request has extracted, by date
          day,       \* telemetry_consumption_day
          writer,    \* history: the request each row is from
          stored,    \* history: the dates each request has stored
          before     \* history: the requests that had ended when a request was sent

vars == <<counted, clock, pc, list, day, writer, stored, before>>

NoEntry == [d \in {} |-> None]

Init ==
    /\ counted = [d \in Dates |-> [atS |-> 1, wh |-> 0]]
    /\ clock = 1
    /\ pc = [c \in Calls |-> "idle"]
    /\ list = [c \in Calls |-> NoEntry]
    /\ day = [d \in Dates |-> None]
    /\ writer = [d \in Dates |-> None]
    /\ stored = [c \in Calls |-> {}]
    /\ before = [c \in Calls |-> {}]

\* The device meters on.
Meter(d) ==
    /\ counted[d].wh < MaxCount
    /\ clock' = clock + 1
    /\ counted' = [counted EXCEPT ![d] = [atS |-> clock', wh |-> @.wh + 1]]
    /\ UNCHANGED <<pc, list, day, writer, stored, before>>

\* The request is sent to the device.
GetConsumptionX(c) ==
    /\ pc[c] = "idle"
    /\ pc' = [pc EXCEPT ![c] = "asked"]
    /\ before' = [before EXCEPT ![c] = {e \in Calls : pc[e] = "done"}]
    /\ UNCHANGED <<counted, clock, list, day, writer, stored>>

\* extractConsumptionX keeps the valid entries of a list.  An answer that
\* is no list, also the one nested in an object, gives no entries.
ExtractConsumptionX(valid) == [d \in valid |-> counted[d]]

DeviceAnswers(c, valid) ==
    /\ pc[c] = "asked"
    /\ pc' = [pc EXCEPT ![c] = "answered"]
    /\ list' = [list EXCEPT ![c] = ExtractConsumptionX(valid)]
    /\ UNCHANGED <<counted, clock, day, writer, stored, before>>

\* lan_error: no host, no key, no answer in time.
LanError(c) ==
    /\ pc[c] = "asked"
    /\ pc' = [pc EXCEPT ![c] = "done"]
    /\ UNCHANGED <<counted, clock, list, day, writer, stored, before>>

\* A fault: a row that is there is left as it is, as INSERT OR IGNORE does.
M_UpsertConsumptionDay(row, entry) == IF row = None THEN entry ELSE row

UpsertConsumptionDay(row, entry) == entry

\* A fault: the loop ends after one of the days.
M_Store(c, written) ==
    day' = [d \in Dates |-> IF written # {} /\ d = CHOOSE e \in written : TRUE
                            THEN UpsertConsumptionDay(day[d], list[c][d]) ELSE day[d]]

\* The loop over the list; a row whose write throws is left as it was.
Store(c, written) ==
    day' = [d \in Dates |-> IF d \in written
                            THEN UpsertConsumptionDay(day[d], list[c][d]) ELSE day[d]]

Reply(c, written) ==
    /\ pc[c] = "answered"
    /\ Store(c, written)
    /\ pc' = [pc EXCEPT ![c] = "done"]
    /\ writer' = [d \in Dates |-> IF d \in written THEN c ELSE writer[d]]
    /\ stored' = [stored EXCEPT ![c] = written]
    /\ UNCHANGED <<counted, clock, list, before>>

\* Every request has been answered.
AllDone == (\A c \in Calls : pc[c] = "done") /\ UNCHANGED vars

Next ==
    \/ \E d \in Dates : Meter(d)
    \/ \E c \in Calls :
        \/ GetConsumptionX(c)
        \/ LanError(c)
        \/ \E valid \in SUBSET Dates : DeviceAnswers(c, valid)
        \/ \E written \in SUBSET DOMAIN list[c] : Reply(c, written)
    \/ AllDone

Spec == Init /\ [][Next]_vars

-----------------------------------------------------------------------------
\* A row falls behind a total some request has stored before, or after it, only if it
\* is from another request and that one was sent before the other had ended: the older
\* answer was handled last.  Requests one after the other never set a day back, not its
\* total and not its time, whichever days and rows fail.
Behind(row, entry) == row = None \/ row.atS < entry.atS \/ row.wh < entry.wh

BehindOnlyByOverlap ==
    \A d \in Dates, e \in Calls :
        d \in stored[e] /\ Behind(day[d], list[e][d]) =>
            writer[d] \in Calls \ {e} /\ e \notin before[writer[d]]
=============================================================================
