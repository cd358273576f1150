---------------------------- MODULE PowerHistory ----------------------------
(***************************************************************************)
(* The recorded power readings of a device: pollTelemetry stores a sample  *)
(* with the wall clock's time (packages/core/src/api/state-poller.ts,      *)
(* telemetry-db.ts), POST /api/telemetry/power/current reads the newest    *)
(* and POST /api/telemetry/power/history averages them in buckets.  The    *)
(* wall clock may be set back between two samples.                         *)
(* A sample has its power only; the other two values are stored and        *)
(* averaged alike.  An average is kept as its sum and its count.  Handlers *)
(* run without an await between reading the clock and the query.           *)
(***************************************************************************)
EXTENDS Naturals, Sequences, FiniteSets, SequencesExt

CONSTANTS Channels,
          Powers,       \* readings of powerW
          Times,        \* what the clock shows, and what callers ask for
          Buckets,      \* bucketMs of callers
          MIN_BUCKET,   \* 1000
          MAX_RANGE,    \* 30 days
          WINDOW,       \* 6 hours: where fromMs begins without one
          MaxSamples, MaxBacks,   \* bounds of the model
          None

VARIABLES clock,     \* Date.now()
          samples,   \* telemetry_sample in the order of its ids
          reply,     \* the last answer, with what was asked
          backs      \* how often the clock was set back

vars == <<clock, samples, reply, backs>>

Init ==
    /\ clock \in Times
    /\ samples = <<>>
    /\ reply = None
    /\ backs = 0

\* The clock moves on, or somebody sets it back.
Tick ==
    /\ reply = None
    /\ \E t \in Times :
        /\ clock' = t
        /\ \/ t > clock /\ UNCHANGED backs
           \/ t < clock /\ backs < MaxBacks /\ backs' = backs + 1
    /\ UNCHANGED <<samples, reply>>

\* insertTelemetrySample after a reading; power is null if the device gave
\* voltage or current only.
Record(channel, power) ==
    /\ reply = None
    /\ Len(samples) < MaxSamples
    /\ samples' = Append(samples, [at |-> clock, channel |-> channel, power |-> power])
    /\ UNCHANGED <<clock, reply, backs>>

OfChannel(channel) == {k \in DOMAIN samples : samples[k].channel = channel}

\* A fault: the channel is not asked for.
M_Newest(channel) ==
    {k \in DOMAIN samples : \A j \in DOMAIN samples : samples[j].at <= samples[k].at}

\* ORDER BY at_ms DESC LIMIT 1: any of the rows with the greatest time.
Newest(channel) ==
    {k \in OfChannel(channel) : \A j \in OfChannel(channel) : samples[j].at <= samples[k].at}

GetLatestTelemetrySample(channel) ==
    /\ reply = None
    /\ \/ \E k \in Newest(channel) :
            reply' = [kind |-> "current", channel |-> channel, id |-> k]
       \/ Newest(channel) = {} /\ reply' = [kind |-> "current", channel |-> channel, id |-> 0]
    /\ UNCHANGED <<clock, samples, backs>>

\* A fault: the end of the range is left out.
M_InRange(channel, from, to) ==
    {k \in OfChannel(channel) : samples[k].at >= from /\ samples[k].at < to}

InRange(channel, from, to) ==
    {k \in OfChannel(channel) : samples[k].at >= from /\ samples[k].at <= to}

BucketOf(at, bucket) == (at \div bucket) * bucket

\* One row of the GROUP BY: AVG and MAX skip null.
Point(t, ids) ==
    LET known == {k \in ids : samples[k].power # None}
    IN  [t   |-> t,
         sum |-> SumFunction([k \in known |-> samples[k].power]),
         n   |-> Cardinality(known),
         max |-> IF known = {} THEN None ELSE Max({samples[k].power : k \in known})]

\* ORDER BY t ASC.
Ascending(S) ==
    CHOOSE ts \in [1 .. Cardinality(S) -> S] :
        \A i, j \in 1 .. Cardinality(S) : i < j => ts[i] < ts[j]

GetTelemetryHistoryBuckets(channel, from, to, bucket) ==
    LET ids == InRange(channel, from, to)
        ts  == Ascending({BucketOf(samples[k].at, bucket) : k \in ids})
    IN  [i \in DOMAIN ts |->
            Point(ts[i], {k \in ids : BucketOf(samples[k].at, bucket) = ts[i]})]

\* The handler: defaults, clamps, the two refusals, the query.
PowerHistory(channel, fromMs, toMs, bucketMs) ==
    LET to     == IF toMs = None THEN clock ELSE toMs
        from   == CASE fromMs # None -> fromMs
                    [] fromMs = None /\ clock > WINDOW -> clock - WINDOW
                    [] OTHER -> 0
        bucket == Max({MIN_BUCKET, bucketMs})
    IN  /\ reply = None
        /\ reply' = IF from > to \/ to - from > MAX_RANGE
                    THEN [kind |-> "invalid_range"]
                    ELSE [kind |-> "history", channel |-> channel, from |-> from, to |-> to,
                          bucket |-> bucket,
                          points |-> GetTelemetryHistoryBuckets(channel, from, to, bucket)]
        /\ UNCHANGED <<clock, samples, backs>>

\* The caller has its answer.
Answered ==
    /\ reply # None
    /\ reply' = None
    /\ UNCHANGED <<clock, samples, backs>>

Next ==
    \/ Tick
    \/ Answered
    \/ \E channel \in Channels :
        \/ \E power \in Powers \cup {None} : Record(channel, power)
        \/ GetLatestTelemetrySample(channel)
        \/ \E fromMs, toMs \in Times \cup {None}, bucketMs \in Buckets :
            PowerHistory(channel, fromMs, toMs, bucketMs)

Spec == Init /\ [][Next]_vars

-----------------------------------------------------------------------------
\* History loses and doubles nothing: the buckets' counts and sums add up to
\* those of the readings of that channel within the range, both ends included,
\* each point reports a maximum some reading in its bucket has, and times
\* ascend.
HistoryConserves ==
    (reply # None /\ reply.kind = "history") =>
        LET points == reply.points
            asked  == {k \in DOMAIN samples : /\ samples[k].channel = reply.channel
                                              /\ samples[k].power # None
                                              /\ samples[k].at \in reply.from .. reply.to}
        IN  /\ Cardinality(asked) = SumFunction([i \in DOMAIN points |-> points[i].n])
            /\ SumFunction([k \in asked |-> samples[k].power])
                    = SumFunction([i \in DOMAIN points |-> points[i].sum])
            /\ \A i \in DOMAIN points : points[i].max # None =>
                    \E k \in asked : /\ samples[k].power = points[i].max
                                     /\ samples[k].at \in points[i].t .. points[i].t + reply.bucket - 1
            /\ \A i \in 1 .. Len(points) - 1 : points[i].t < points[i + 1].t

\* As long as the clock is never set back, the current reading is as recent
\* as the last one recorded for that channel, whatever other channels record.
CurrentIsLast ==
    (reply # None /\ reply.kind = "current" /\ backs = 0) =>
        /\ reply.id = 0 <=> OfChannel(reply.channel) = {}
        /\ reply.id # 0 => /\ samples[reply.id].channel = reply.channel
                           /\ samples[reply.id].at = samples[Max(OfChannel(reply.channel))].at

\* What get-telemetry-power-current.ts says: "Return latest recorded power
\* telemetry sample from SQLite."
LatestRecorded ==
    (reply # None /\ reply.kind = "current" /\ reply.id # 0) =>
        samples[reply.id].at = samples[Max(OfChannel(reply.channel))].at
=============================================================================
