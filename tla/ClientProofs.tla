---------------------------- MODULE ClientProofs ----------------------------
(* Theorems about the devices machine of the browser, for every set of       *)
(* devices and readings, every number of delays and any length of the wire.  *)
EXTENDS MCClient, Sequences, TLAPS

-----------------------------------------------------------------------------
(* What is on the wire *)

\* What the server publishes was not assumed by a client.
Published == [onoff : {0, 1}, stale : BOOLEAN, optimistic : {FALSE}]

Event ==
  [type : {"snapshot"}, states : Stream!MapsOf(Uuids, Published)]
    \cup [type : {"power_snapshot"}, readings : Stream!MapsOf(Uuids, Readings)]
    \cup [type : {"device_state", "device_stale"}, uuid : Uuids, state : Published]
    \cup [type : {"device_power"}, uuid : Uuids, reading : Readings]
    \cup [type : {"poller_health"}]

\* Membership in the set of maps.
LEMMA MapsTyped ==
  ASSUME NEW K, NEW V, NEW m
  PROVE  m \in Stream!MapsOf(K, V) <=> Stream!IsMap(m, K, V)
<1>1. ASSUME m \in Stream!MapsOf(K, V) PROVE Stream!IsMap(m, K, V)
  <2>1. PICK S \in SUBSET K : m \in [S -> V]
    BY <1>1 DEF Stream!MapsOf
  <2>. QED BY <2>1 DEF Stream!IsMap
<1>2. ASSUME Stream!IsMap(m, K, V) PROVE m \in Stream!MapsOf(K, V)
  BY <1>2 DEF Stream!MapsOf, Stream!IsMap
<1>. QED BY <1>1, <1>2

\* A map stays one when an entry is set.
LEMMA PutTyped ==
  ASSUME NEW K, NEW V, NEW m, Stream!IsMap(m, K, V), NEW k \in K, NEW v \in V
  PROVE  Stream!IsMap(Stream!Put(m, k, v), K, V)
BY DEF Stream!IsMap, Stream!Put

\* The same with all entries of another map.
LEMMA MergeTyped ==
  ASSUME NEW K, NEW V, NEW m, Stream!IsMap(m, K, V), NEW n, Stream!IsMap(n, K, V)
  PROVE  Stream!IsMap(Stream!MergeStates(m, n), K, V)
BY DEF Stream!IsMap, Stream!MergeStates

\* The empty map is of every type.
LEMMA EmptyTyped ==
  ASSUME NEW K, NEW V
  PROVE  Stream!IsMap(Stream!EmptyMap, K, V) /\ DOMAIN Stream!EmptyMap = {}
BY DEF Stream!IsMap, Stream!EmptyMap

\* What an event says is a part of what the server publishes.
LEMMA EventSays ==
  ASSUME NEW e \in Event
  PROVE  /\ Stream!IsMap(Stream!StatesIn(e), Uuids, Published)
         /\ Stream!IsMap(Stream!ReadingsIn(e), Uuids, Readings)
<1>1. CASE e \in [type : {"snapshot"}, states : Stream!MapsOf(Uuids, Published)]
  BY <1>1, MapsTyped, EmptyTyped DEF Stream!StatesIn, Stream!ReadingsIn
<1>2. CASE e \in [type : {"power_snapshot"}, readings : Stream!MapsOf(Uuids, Readings)]
  BY <1>2, MapsTyped, EmptyTyped DEF Stream!StatesIn, Stream!ReadingsIn
<1>3. CASE e \in [type : {"device_state", "device_stale"}, uuid : Uuids, state : Published]
  <2>1. Stream!StatesIn(e) = [u \in {e.uuid} |-> e.state] /\ Stream!ReadingsIn(e) = Stream!EmptyMap
    BY <1>3 DEF Stream!StatesIn, Stream!ReadingsIn
  <2>2. e.uuid \in Uuids /\ e.state \in Published
    BY <1>3
  <2>. QED BY <2>1, <2>2, EmptyTyped DEF Stream!IsMap
<1>4. CASE e \in [type : {"device_power"}, uuid : Uuids, reading : Readings]
  <2>1. Stream!ReadingsIn(e) = [u \in {e.uuid} |-> e.reading] /\ Stream!StatesIn(e) = Stream!EmptyMap
    BY <1>4 DEF Stream!StatesIn, Stream!ReadingsIn
  <2>2. e.uuid \in Uuids /\ e.reading \in Readings
    BY <1>4
  <2>. QED BY <2>1, <2>2, EmptyTyped DEF Stream!IsMap
<1>5. CASE e \in [type : {"poller_health"}]
  BY <1>5, EmptyTyped DEF Stream!StatesIn, Stream!ReadingsIn
<1>. QED BY <1>1, <1>2, <1>3, <1>4, <1>5 DEF Event

-----------------------------------------------------------------------------
(* Converging *)

\* The last of the events on their way that speaks of u says what was published;
\* without any, it is shown, unless the client itself wrote over the entry.
Converging(published, shown, said, over) ==
  \A u \in DOMAIN published :
    \/ /\ Stream!Speaking(said, u) = {}
       /\ u \in over \/ (u \in DOMAIN shown /\ shown[u] = published[u])
    \/ \E i \in Stream!Speaking(said, u) :
         said[i][u] = published[u] /\ \A j \in Stream!Speaking(said, u) : j <= i

\* It is what the properties ask for, and more of the entries written over.
LEMMA ConvergingShows ==
  ASSUME NEW published, NEW shown, NEW said, NEW over,
         Converging(published, shown, said, over),
         NEW u \in DOMAIN published \ over
  PROVE  Stream!WillShow(shown, said, u, published[u])
BY DEF Converging, Stream!WillShow

\* The first event is received.
LEMMA ConvergingReceive ==
  ASSUME NEW n \in Nat \ {0}, NEW said, DOMAIN said = 1 .. n,
         NEW later, DOMAIN later = 1 .. (n - 1), \A i \in 1 .. (n - 1) : later[i] = said[i + 1],
         NEW published, NEW shown, NEW over, Converging(published, shown, said, over)
  PROVE  Converging(published, Stream!MergeStates(shown, said[1]), later, over \ DOMAIN said[1])
<1>. SUFFICES ASSUME NEW u \in DOMAIN published
     PROVE  \/ /\ Stream!Speaking(later, u) = {}
               /\ \/ u \in over \ DOMAIN said[1]
                  \/ /\ u \in DOMAIN Stream!MergeStates(shown, said[1])
                     /\ Stream!MergeStates(shown, said[1])[u] = published[u]
            \/ \E i \in Stream!Speaking(later, u) :
                 later[i][u] = published[u] /\ \A j \in Stream!Speaking(later, u) : j <= i
  BY DEF Converging
<1>1. \A i \in 1 .. n - 1 : i + 1 \in 1 .. n
  OBVIOUS
<1>2. \A i \in 2 .. n : i - 1 \in 1 .. n - 1 /\ (i - 1) + 1 = i
  OBVIOUS
<1>3. \A i \in 1 .. n - 1 : i \in Stream!Speaking(later, u) <=> i + 1 \in Stream!Speaking(said, u)
  BY <1>1 DEF Stream!Speaking
<1>4. CASE Stream!Speaking(said, u) = {}
  <2>1. Stream!Speaking(later, u) = {}
    BY <1>3, <1>4 DEF Stream!Speaking
  <2>2. u \notin DOMAIN said[1]
    BY <1>4 DEF Stream!Speaking
  <2>3. u \in over \/ (u \in DOMAIN shown /\ shown[u] = published[u])
    BY <1>4 DEF Converging
  <2>. QED BY <2>1, <2>2, <2>3 DEF Stream!MergeStates
<1>5. CASE Stream!Speaking(said, u) # {}
  <2>1. PICK i \in Stream!Speaking(said, u) :
          said[i][u] = published[u] /\ \A j \in Stream!Speaking(said, u) : j <= i
    BY <1>5 DEF Converging
  <2>2. i \in 1 .. n /\ u \in DOMAIN said[i]
    BY DEF Stream!Speaking
  <2>3. CASE i = 1
    <3>1. Stream!Speaking(later, u) = {}
      <4>1. SUFFICES ASSUME NEW j \in Stream!Speaking(later, u) PROVE FALSE
        OBVIOUS
      <4>2. j \in 1 .. n - 1
        BY DEF Stream!Speaking
      <4>3. j + 1 <= 1
        BY <1>3, <2>1, <2>3, <4>2
      <4>. QED BY <4>2, <4>3
    <3>. QED BY <2>1, <2>2, <2>3, <3>1 DEF Stream!MergeStates
  <2>4. CASE i # 1
    <3>1. i \in 2 .. n
      BY <2>2, <2>4
    <3>2. i - 1 \in Stream!Speaking(later, u) /\ later[i - 1][u] = published[u]
      BY <1>2, <1>3, <2>1, <3>1
    <3>3. ASSUME NEW j \in Stream!Speaking(later, u) PROVE j <= i - 1
      <4>1. j \in 1 .. n - 1
        BY DEF Stream!Speaking
      <4>2. j + 1 <= i
        BY <1>3, <2>1, <4>1
      <4>. QED BY <2>2, <4>1, <4>2
    <3>. QED BY <3>2, <3>3
  <2>. QED BY <2>3, <2>4
<1>. QED BY <1>4, <1>5

\* m events follow the n on their way; the last that speaks says s of d, and none of
\* them speaks of another device.
Tells(n, m, said, longer, d, s, last) ==
  /\ DOMAIN said = 1 .. n /\ DOMAIN longer = 1 .. (n + m) /\ \A i \in 1 .. n : longer[i] = said[i]
  /\ last \in (n + 1) .. (n + m) /\ DOMAIN longer[last] = {d} /\ longer[last][d] = s
  /\ \A i \in (n + 1) .. (n + m) :
       DOMAIN longer[i] \subseteq {d} /\ (i > last => DOMAIN longer[i] = {})

\* The entry of one device is published, and the events sent all say so.
LEMMA ConvergingPublish ==
  ASSUME NEW n \in Nat, NEW m \in Nat \ {0}, NEW said, NEW longer, NEW d, NEW s, NEW last,
         Tells(n, m, said, longer, d, s, last),
         NEW published, NEW shown, NEW over, Converging(published, shown, said, over)
  PROVE  Converging(Stream!Put(published, d, s), shown, longer, over)
<1>. USE DEF Tells
<1>. DEFINE next == Stream!Put(published, d, s)
<1>0. DOMAIN next = DOMAIN published \cup {d} /\ next[d] = s
      /\ \A u \in DOMAIN published : u # d => next[u] = published[u]
  BY DEF Stream!Put
<1>. HIDE DEF next
<1>1. 1 .. n + m = 1 .. n \cup (n + 1) .. (n + m)
  OBVIOUS
<1>. SUFFICES ASSUME NEW u \in DOMAIN next
     PROVE  \/ /\ Stream!Speaking(longer, u) = {}
               /\ u \in over \/ (u \in DOMAIN shown /\ shown[u] = next[u])
            \/ \E i \in Stream!Speaking(longer, u) :
                 longer[i][u] = next[u] /\ \A j \in Stream!Speaking(longer, u) : j <= i
  BY DEF Converging, next
<1>2. CASE u = d
  <2>1. last \in Stream!Speaking(longer, u)
    BY <1>1, <1>2 DEF Stream!Speaking
  <2>2. ASSUME NEW j \in Stream!Speaking(longer, u) PROVE j <= last
    <3>1. j \in 1 .. n + m /\ u \in DOMAIN longer[j]
      BY DEF Stream!Speaking
    <3>2. CASE j \in 1 .. n
      BY <3>2
    <3>3. CASE j \in (n + 1) .. (n + m)
      <4>1. ~(j > last)
        BY <3>1, <3>3
      <4>. QED BY <3>3, <4>1
    <3>. QED BY <1>1, <3>1, <3>2, <3>3
  <2>. QED BY <1>0, <1>2, <2>1, <2>2
<1>3. CASE u # d
  <2>1. u \in DOMAIN published /\ next[u] = published[u]
    BY <1>0, <1>3
  <2>2. Stream!Speaking(longer, u) = Stream!Speaking(said, u)
    BY <1>1, <1>3 DEF Stream!Speaking
  <2>3. \A i \in Stream!Speaking(said, u) : longer[i] = said[i]
    BY DEF Stream!Speaking
  <2>. QED BY <2>1, <2>2, <2>3 DEF Converging
<1>. QED BY <1>2, <1>3

\* Events that say nothing of the kind are sent.
LEMMA ConvergingSilent ==
  ASSUME NEW n \in Nat, NEW m \in Nat, NEW said, DOMAIN said = 1 .. n,
         NEW longer, DOMAIN longer = 1 .. (n + m), \A i \in 1 .. n : longer[i] = said[i],
         \A i \in (n + 1) .. (n + m) : DOMAIN longer[i] = {},
         NEW published, NEW shown, NEW over, Converging(published, shown, said, over)
  PROVE  Converging(published, shown, longer, over)
<1>1. 1 .. n + m = 1 .. n \cup (n + 1) .. (n + m)
  OBVIOUS
<1>2. ASSUME NEW u PROVE Stream!Speaking(longer, u) = Stream!Speaking(said, u)
  BY <1>1 DEF Stream!Speaking
<1>3. \A u : \A i \in Stream!Speaking(said, u) : longer[i] = said[i]
  BY DEF Stream!Speaking
<1>. QED BY <1>2, <1>3 DEF Converging

\* A new connection, whose first event says all that was published.
LEMMA ConvergingOpen ==
  ASSUME NEW said, NEW published, NEW first \in {1, 2}, DOMAIN said = {1, 2}, said[first] = published,
         \A i \in {1, 2} : i # first => DOMAIN said[i] = {},
         NEW shown, NEW over
  PROVE  Converging(published, shown, said, over)
<1>. SUFFICES ASSUME NEW u \in DOMAIN published
     PROVE  \E i \in Stream!Speaking(said, u) :
              said[i][u] = published[u] /\ \A j \in Stream!Speaking(said, u) : j <= i
  BY DEF Converging
<1>1. Stream!Speaking(said, u) = {first}
  BY DEF Stream!Speaking
<1>2. first <= first
  OBVIOUS
<1>. QED BY <1>1, <1>2

\* The client writes over entries.
LEMMA ConvergingOver ==
  ASSUME NEW published, NEW shown, NEW next, NEW said, NEW over, NEW d,
         Converging(published, shown, said, over),
         \A u \in DOMAIN shown \ {d} : u \in DOMAIN next /\ next[u] = shown[u]
  PROVE  Converging(published, next, said, over \cup {d})
BY DEF Converging

-----------------------------------------------------------------------------
(* The stream *)

\* The wire holds events of the connection in use, and none is left of another.
StreamInv ==
  /\ StreamSound
  /\ conn # "none" => source = "open"
  /\ wire \in Seq(Event)
  /\ Stream!IsMap(feed, Uuids, Published)

\* Both halves of the context converge while the connection is up.
ConvInv ==
  conn = "up" => /\ Converging(feed, deviceStates, Stream!StatesSaid, overlaid)
                 /\ Converging(powerFeed, devicePower, Stream!ReadingsSaid, {})

\* A state published is a state.
LEMMA PublishedState ==
  /\ Published \subseteq Stream!State
  /\ \A m : Stream!IsMap(m, Uuids, Published) => Stream!IsMap(m, Uuids, Stream!State)
<1>1. Published \subseteq Stream!State
  BY DEF Published, Stream!State
<1>. QED BY <1>1 DEF Stream!IsMap

\* What the events on the wire say, one by one.
LEMMA SaidOnWire ==
  ASSUME wire \in Seq(Event)
  PROVE  /\ DOMAIN Stream!StatesSaid = 1 .. Len(wire)
         /\ DOMAIN Stream!ReadingsSaid = 1 .. Len(wire)
         /\ \A i \in 1 .. Len(wire) : /\ wire[i] \in Event
                                      /\ Stream!StatesSaid[i] = Stream!StatesIn(wire[i])
                                      /\ Stream!ReadingsSaid[i] = Stream!ReadingsIn(wire[i])
<1>1. DOMAIN wire = 1 .. Len(wire) /\ \A i \in 1 .. Len(wire) : wire[i] \in Event
  OBVIOUS
<1>. QED BY <1>1 DEF Stream!StatesSaid, Stream!ReadingsSaid

\* The same after a step.
LEMMA SaidOnWirePrime ==
  ASSUME (wire \in Seq(Event))'
  PROVE  /\ DOMAIN Stream!StatesSaid' = 1 .. Len(wire')
         /\ DOMAIN Stream!ReadingsSaid' = 1 .. Len(wire')
         /\ \A i \in 1 .. Len(wire') : /\ wire'[i] \in Event
                                       /\ Stream!StatesSaid'[i] = Stream!StatesIn(wire'[i])
                                       /\ Stream!ReadingsSaid'[i] = Stream!ReadingsIn(wire'[i])
<1>1. DOMAIN wire' = 1 .. Len(wire') /\ \A i \in 1 .. Len(wire') : wire'[i] \in Event
  OBVIOUS
<1>. QED BY <1>1 DEF Stream!StatesSaid, Stream!ReadingsSaid

\* The events the server sends.
LEMMA EventsSent ==
  /\ \A type \in {"device_state", "device_stale"}, u \in Uuids, s \in Published :
       /\ Stream!StateEvent(type, u, s) \in Event
       /\ Stream!StatesIn(Stream!StateEvent(type, u, s)) = [d \in {u} |-> s]
       /\ Stream!ReadingsIn(Stream!StateEvent(type, u, s)) = Stream!EmptyMap
  /\ \A u \in Uuids, r \in Readings :
       /\ Stream!PowerEvent(u, r) \in Event
       /\ Stream!ReadingsIn(Stream!PowerEvent(u, r)) = [d \in {u} |-> r]
       /\ Stream!StatesIn(Stream!PowerEvent(u, r)) = Stream!EmptyMap
  /\ [type |-> "poller_health"] \in Event
  /\ Stream!StatesIn([type |-> "poller_health"]) = Stream!EmptyMap
  /\ Stream!ReadingsIn([type |-> "poller_health"]) = Stream!EmptyMap
BY DEF Event, Stream!StateEvent, Stream!PowerEvent, Stream!StatesIn, Stream!ReadingsIn

\* A step that brings nothing to show: the connection breaks, is given up or tried again.
LEMMA ConnectionStep ==
  ASSUME StreamInv,
         \/ Stream!OpenStream \/ Stream!OnError \/ Operations!OnError
         \/ Stream!Stop \/ Stream!Start \/ Stream!ConnectionLost
  PROVE  StreamInv' /\ ConvInv'
<1>1. Stream!StreamTypeOK /\ Stream!OneConnection /\ Stream!MonitorFollowsSource
  BY DEF StreamInv, StreamSound
<1>2. /\ UNCHANGED <<real, feed, powerFeed>>
      /\ \/ UNCHANGED <<deviceStates, devicePower>>
         \/ deviceStates' = Stream!EmptyMap /\ devicePower' = Stream!EmptyMap
  BY DEF Stream!OpenStream, Stream!OnError, Operations!OnError, Stream!Stop, Stream!Start,
     Stream!ConnectionLost, Stream!serverVars, Stream!shownVars,
     Operations!serverVars, Operations!shownVars
<1>3. \/ wire' = <<>> \/ UNCHANGED wire
      \/ \E n \in 0 .. Len(wire) : wire' = SubSeq(wire, 1, n)
  BY DEF Stream!OpenStream, Stream!OnError, Operations!OnError, Stream!Stop, Stream!Start,
     Stream!ConnectionLost, Stream!CloseSource, Operations!CloseSource
<1>4. retryIndex' \in 0 .. Delays - 1
  <2>1. retryIndex \in 0 .. Delays - 1 /\ 0 \in 0 .. Delays - 1
    BY <1>1, StreamBounds DEF Stream!StreamTypeOK
  <2>2. CASE Stream!OnError \/ Operations!OnError
    <3>1. Stream!ScheduleReconnect \/ Operations!ScheduleReconnect
      BY <2>2 DEF Stream!OnError, Operations!OnError
    <3>2. retryIndex' = retryIndex \/ (retryIndex < Delays - 1 /\ retryIndex' = retryIndex + 1)
      <4>1. CASE Stream!ScheduleReconnect
        BY <4>1 DEF Stream!ScheduleReconnect
      <4>2. CASE Operations!ScheduleReconnect
        <5>1. ~(retryIndex < 1 - 1)
          BY <2>1, StreamBounds
        <5>. QED BY <4>2, <5>1 DEF Operations!ScheduleReconnect
      <4>. QED BY <3>1, <4>1, <4>2
    <3>. QED BY <2>1, <3>2, StreamBounds
  <2>. QED BY <2>1, <2>2 DEF Stream!OpenStream, Stream!Stop, Stream!Start, Stream!ConnectionLost
<1>5. /\ conn' \in {"none", "up", "lost"} /\ source' \in {"null", "connecting", "open"}
      /\ reconnectTimer' \in BOOLEAN /\ closed' \in BOOLEAN
      /\ monitor' \in {"connecting", "live", "degraded"}
      /\ conn' # "up" /\ (conn' # "none" => source' = "open")
      /\ Stream!OneConnection' /\ Stream!MonitorFollowsSource'
  <2>. USE DEF Stream!OneConnection, Stream!MonitorFollowsSource
  <2>0. /\ conn \in {"none", "up", "lost"} /\ source \in {"null", "connecting", "open"}
        /\ reconnectTimer \in BOOLEAN /\ closed \in BOOLEAN
        /\ monitor \in {"connecting", "live", "degraded"}
        /\ conn # "none" => source = "open"
    BY <1>1 DEF StreamInv, Stream!StreamTypeOK
  <2>1. CASE Stream!OpenStream
    BY <1>1, <2>0, <2>1 DEF Stream!OpenStream
  <2>2. CASE Stream!OnError \/ Operations!OnError
    <3>1. reconnectTimer' = IF closed THEN reconnectTimer ELSE TRUE
      BY <1>1, <2>0, <2>2 DEF Stream!OnError, Operations!OnError,
         Stream!ScheduleReconnect, Operations!ScheduleReconnect
    <3>2. monitor' = "degraded" /\ source' = "null" /\ conn' = "none" /\ closed' = closed
      BY <2>2 DEF Stream!OnError, Operations!OnError, Stream!CloseSource, Operations!CloseSource
    <3>. QED BY <1>1, <2>0, <3>1, <3>2
  <2>3. CASE Stream!Stop
    BY <1>1, <2>0, <2>3 DEF Stream!Stop, Stream!CloseSource
  <2>4. CASE Stream!Start
    BY <1>1, <2>0, <2>4 DEF Stream!Start
  <2>5. CASE Stream!ConnectionLost
    BY <1>1, <2>0, <2>5 DEF Stream!ConnectionLost
  <2>. QED BY <2>1, <2>2, <2>3, <2>4, <2>5
<1>6. wire' \in Seq(Event) /\ Len(wire') <= MaxWire
  <2>1. wire \in Seq(Event) /\ Len(wire) <= MaxWire
    BY <1>1 DEF StreamInv, Stream!StreamTypeOK
  <2>2. <<>> \in Seq(Event) /\ Len(<<>>) = 0
    OBVIOUS
  <2>3. ASSUME NEW n \in 0 .. Len(wire), wire' = SubSeq(wire, 1, n)
        PROVE  wire' \in Seq(Event) /\ Len(wire') <= MaxWire
    <3>1. wire' \in Seq(Event) /\ Len(wire') = n /\ n <= Len(wire) /\ Len(wire) \in Nat
      BY <2>1, <2>3
    <3>2. n <= MaxWire
      BY <2>1, <3>1, StreamBounds
    <3>. QED BY <3>1, <3>2
  <2>4. ASSUME wire' = <<>> PROVE wire' \in Seq(Event) /\ Len(wire') <= MaxWire
    BY <2>2, <2>4, StreamBounds
  <2>. QED BY <1>3, <2>1, <2>3, <2>4
<1>. QED BY <1>1, <1>2, <1>4, <1>5, <1>6, EmptyTyped
         DEF StreamInv, ConvInv, StreamSound, Stream!StreamTypeOK

\* A connection begins with all that was published.
LEMMA OnOpenStep ==
  ASSUME StreamInv, Stream!OnOpen
  PROVE  StreamInv' /\ ConvInv'
<1>1. /\ source = "connecting" /\ source' = "open" /\ conn' = "up" /\ retryIndex' = 0
      /\ monitor' = "live" /\ wire' = <<Stream!Snapshot, Stream!PowerSnapshot>>
      /\ UNCHANGED <<real, feed, powerFeed, reconnectTimer, closed, deviceStates, devicePower>>
  BY DEF Stream!OnOpen, Stream!serverVars, Stream!shownVars
<1>2. Stream!IsMap(feed, Uuids, Published) /\ Stream!IsMap(powerFeed, Uuids, Readings)
  BY DEF StreamInv, StreamSound, Stream!StreamTypeOK
<1>3. Stream!Snapshot \in Event /\ Stream!PowerSnapshot \in Event
  BY <1>2, MapsTyped DEF Event, Stream!Snapshot, Stream!PowerSnapshot
<1>4. wire' \in Seq(Event) /\ Len(wire') = 2
      /\ wire'[1] = Stream!Snapshot /\ wire'[2] = Stream!PowerSnapshot
  BY <1>1, <1>3
<1>5. StreamInv'
  BY <1>1, <1>4, StreamBounds DEF StreamInv, StreamSound, Stream!StreamTypeOK,
     Stream!OneConnection, Stream!MonitorFollowsSource
<1>6. /\ Stream!StatesIn(Stream!Snapshot) = feed
      /\ Stream!ReadingsIn(Stream!Snapshot) = Stream!EmptyMap
      /\ Stream!StatesIn(Stream!PowerSnapshot) = Stream!EmptyMap
      /\ Stream!ReadingsIn(Stream!PowerSnapshot) = powerFeed
  BY DEF Stream!StatesIn, Stream!ReadingsIn, Stream!Snapshot, Stream!PowerSnapshot
<1>7. 1 .. 2 = {1, 2}
  OBVIOUS
<1>. DEFINE says == Stream!StatesSaid'
            reads == Stream!ReadingsSaid'
<1>8. /\ DOMAIN says = {1, 2} /\ DOMAIN reads = {1, 2}
      /\ says[1] = feed /\ DOMAIN says[2] = {} /\ DOMAIN reads[1] = {} /\ reads[2] = powerFeed
  BY <1>4, <1>6, <1>7, SaidOnWirePrime, EmptyTyped
<1>. HIDE DEF says, reads
<1>9. \A shown, over : Converging(feed, shown, says, over) /\ Converging(powerFeed, shown, reads, over)
  <2>1. 1 \in {1, 2} /\ 2 \in {1, 2} /\ \A i \in {1, 2} : (i # 1 => i = 2) /\ (i # 2 => i = 1)
    OBVIOUS
  <2>. QED BY <1>8, <2>1, ConvergingOpen
<1>10. ConvInv'
  BY <1>1, <1>9 DEF ConvInv, says, reads
<1>. QED BY <1>5, <1>10

\* An event is received; an entry it brings is no longer the client's own.
LEMMA ReceiveStreamStep ==
  ASSUME StreamInv, ConvInv, Stream!Receive,
         overlaid' = overlaid \ DOMAIN Stream!StatesIn(Head(wire))
  PROVE  StreamInv' /\ ConvInv'
<1>1. /\ wire # <<>> /\ source = "open" /\ wire' = Tail(wire)
      /\ deviceStates' = Stream!MergeStates(deviceStates, Stream!StatesIn(Head(wire)))
      /\ devicePower' = Stream!MergeStates(devicePower, Stream!ReadingsIn(Head(wire)))
      /\ UNCHANGED <<real, feed, powerFeed, conn, source, reconnectTimer, retryIndex, closed, monitor>>
  BY DEF Stream!Receive, Stream!serverVars, Stream!ApplyStates, Stream!ApplyPower
<1>2. wire \in Seq(Event)
  BY DEF StreamInv
<1>. DEFINE n == Len(wire)
<1>3. /\ n \in Nat \ {0} /\ Head(wire) = wire[1] /\ wire[1] \in Event
      /\ wire' \in Seq(Event) /\ Len(wire') = n - 1
      /\ \A i \in 1 .. n - 1 : wire'[i] = wire[i + 1]
  BY <1>1, <1>2
<1>4. StreamInv'
  <2>1. /\ Stream!IsMap(deviceStates', Uuids, Stream!State)
        /\ Stream!IsMap(devicePower', Uuids, Readings)
    <3>1. /\ Stream!IsMap(Stream!StatesIn(wire[1]), Uuids, Stream!State)
          /\ Stream!IsMap(Stream!ReadingsIn(wire[1]), Uuids, Readings)
      BY <1>3, EventSays, PublishedState
    <3>2. /\ Stream!IsMap(deviceStates, Uuids, Stream!State)
          /\ Stream!IsMap(devicePower, Uuids, Readings)
      BY DEF StreamInv, StreamSound, Stream!StreamTypeOK
    <3>. QED BY <1>1, <1>3, <3>1, <3>2, MergeTyped
  <2>2. Len(wire') <= MaxWire
    BY <1>3, StreamBounds DEF StreamInv, StreamSound, Stream!StreamTypeOK
  <2>. QED BY <1>1, <1>3, <2>1, <2>2 DEF StreamInv, StreamSound, Stream!StreamTypeOK,
           Stream!OneConnection, Stream!MonitorFollowsSource
<1>. DEFINE says == Stream!StatesSaid
            reads == Stream!ReadingsSaid
            says2 == Stream!StatesSaid'
            reads2 == Stream!ReadingsSaid'
<1>5. /\ DOMAIN says = 1 .. n /\ DOMAIN reads = 1 .. n
      /\ DOMAIN says2 = 1 .. (n - 1) /\ DOMAIN reads2 = 1 .. (n - 1)
      /\ says[1] = Stream!StatesIn(Head(wire)) /\ reads[1] = Stream!ReadingsIn(Head(wire))
      /\ \A i \in 1 .. (n - 1) : says2[i] = says[i + 1] /\ reads2[i] = reads[i + 1]
  <2>1. 1 \in 1 .. n /\ \A i \in 1 .. (n - 1) : i + 1 \in 1 .. n
    BY <1>3
  <2>2. /\ DOMAIN says = 1 .. n /\ DOMAIN reads = 1 .. n
        /\ \A i \in 1 .. n : says[i] = Stream!StatesIn(wire[i]) /\ reads[i] = Stream!ReadingsIn(wire[i])
    BY <1>2, SaidOnWire
  <2>3. /\ DOMAIN says2 = 1 .. Len(wire') /\ DOMAIN reads2 = 1 .. Len(wire')
        /\ \A i \in 1 .. Len(wire') :
             says2[i] = Stream!StatesIn(wire'[i]) /\ reads2[i] = Stream!ReadingsIn(wire'[i])
    BY <1>3, SaidOnWirePrime
  <2>. HIDE DEF says, reads, says2, reads2, n
  <2>. QED BY <1>3, <2>1, <2>2, <2>3
<1>6. ASSUME conn = "up"
      PROVE  /\ Converging(feed, deviceStates', says2, overlaid')
             /\ Converging(powerFeed, devicePower', reads2, {})
  <2>1. Converging(feed, deviceStates, says, overlaid) /\ Converging(powerFeed, devicePower, reads, {})
    BY <1>6 DEF ConvInv
  <2>. HIDE DEF says, reads, says2, reads2
  <2>2. Converging(feed, Stream!MergeStates(deviceStates, says[1]), says2, overlaid \ DOMAIN says[1])
    BY <1>3, <1>5, <2>1, ConvergingReceive
  <2>3. Converging(powerFeed, Stream!MergeStates(devicePower, reads[1]), reads2, {} \ DOMAIN reads[1])
    BY <1>3, <1>5, <2>1, ConvergingReceive
  <2>4. {} \ DOMAIN reads[1] = {}
    OBVIOUS
  <2>. QED BY <1>1, <1>5, <2>2, <2>3, <2>4
<1>7. ConvInv'
  BY <1>1, <1>6 DEF ConvInv
<1>. QED BY <1>4, <1>7

\* Events reach the wire while the connection is up; they are of the right kind.
LEMMA SentTyped ==
  ASSUME StreamInv, NEW events \in Seq(Event), Stream!Send(events),
         Len(wire) + Len(events) <= MaxWire, UNCHANGED conn
  PROVE  /\ wire' \in Seq(Event) /\ Len(wire') <= MaxWire
         /\ conn' = "up" => /\ Len(wire') = Len(wire) + Len(events)
                            /\ \A i \in 1 .. Len(wire) : wire'[i] = wire[i]
                            /\ \A i \in 1 .. Len(events) : wire'[Len(wire) + i] = events[i]
<1>1. wire \in Seq(Event) /\ Len(wire) \in Nat /\ Len(events) \in Nat
  BY DEF StreamInv
<1>2. CASE conn = "up"
  <2>1. wire' = wire \o events
    BY <1>2 DEF Stream!Send
  <2>2. /\ wire' \in Seq(Event) /\ Len(wire') = Len(wire) + Len(events)
        /\ \A i \in 1 .. Len(wire) : wire'[i] = wire[i]
    BY <1>1, <2>1
  <2>3. ASSUME NEW i \in 1 .. Len(events) PROVE wire'[Len(wire) + i] = events[i]
    BY <1>1, <2>1
  <2>. QED BY <2>2, <2>3
<1>3. CASE conn # "up"
  BY <1>1, <1>3 DEF Stream!Send, StreamInv, StreamSound, Stream!StreamTypeOK
<1>. QED BY <1>2, <1>3

\* The rest of the client is left alone when the server publishes.
LEMMA ServerSteps ==
  ASSUME StreamInv,
         UNCHANGED <<real, conn, source, reconnectTimer, retryIndex, closed, monitor,
                     deviceStates, devicePower>>,
         (wire \in Seq(Event))', (Len(wire) <= MaxWire)',
         Stream!IsMap(feed', Uuids, Published), Stream!IsMap(powerFeed', Uuids, Readings)
  PROVE  StreamInv'
<1>1. Stream!IsMap(feed', Uuids, Stream!State)
  BY PublishedState
<1>. QED BY <1>1 DEF StreamInv, StreamSound, Stream!StreamTypeOK, Stream!OneConnection,
     Stream!MonitorFollowsSource

\* A poll publishes a new state of one device.
LEMMA ServerPollStep ==
  ASSUME StreamInv, ConvInv, NEW u \in Uuids, Stream!ServerPoll(u), UNCHANGED overlaid
  PROVE  StreamInv' /\ ConvInv'
<1>. DEFINE e(type, s) == Stream!StateEvent(type, u, s)
<1>1. /\ UNCHANGED <<real, powerFeed, conn, source, reconnectTimer, retryIndex, closed, monitor,
                     deviceStates, devicePower>>
      /\ \/ Stream!Publish(u, Stream!PollAnswer(u), <<e("device_state", Stream!PollAnswer(u))>>)
         \/ Stream!Publish(u, Stream!PollStale(u), <<e("device_state", Stream!PollStale(u)),
                                                     e("device_stale", Stream!PollStale(u))>>)
  BY DEF Stream!ServerPoll, Stream!shownVars
<1>2. Stream!PollAnswer(u) \in Published /\ Stream!PollStale(u) \in Published
  <2>1. real[u] \in {0, 1} /\ (u \in DOMAIN feed => feed[u].onoff \in {0, 1})
    BY DEF StreamInv, StreamSound, Stream!StreamTypeOK, Stream!IsMap, Published
  <2>. QED BY <2>1 DEF Stream!PollAnswer, Stream!PollStale, Published
<1>. DEFINE Sent(s, events) ==
       /\ events \in Seq(Event) /\ Len(events) >= 1
       /\ \A i \in 1 .. Len(events) : /\ Stream!StatesIn(events[i]) = [d \in {u} |-> s]
                                      /\ Stream!ReadingsIn(events[i]) = Stream!EmptyMap
<1>3. \E s, events : s \in Published /\ Sent(s, events) /\ Stream!Publish(u, s, events)
  <2>1. ASSUME NEW s \in Published, NEW events,
               events = <<e("device_state", s)>> \/ events = <<e("device_state", s), e("device_stale", s)>>
        PROVE  Sent(s, events)
    <3>. DEFINE a == e("device_state", s)
                b == e("device_stale", s)
    <3>1. /\ a \in Event /\ b \in Event
          /\ Stream!StatesIn(a) = [d \in {u} |-> s] /\ Stream!ReadingsIn(a) = Stream!EmptyMap
          /\ Stream!StatesIn(b) = [d \in {u} |-> s] /\ Stream!ReadingsIn(b) = Stream!EmptyMap
      BY EventsSent
    <3>. HIDE DEF a, b
    <3>2. events = <<a>> \/ events = <<a, b>>
      BY <2>1 DEF a, b
    <3>3. events \in Seq(Event) /\ Len(events) >= 1 /\ \A i \in 1 .. Len(events) : events[i] \in {a, b}
      <4>1. CASE events = <<a>>
        BY <3>1, <4>1
      <4>2. CASE events = <<a, b>>
        BY <3>1, <4>2
      <4>. QED BY <3>2, <4>1, <4>2
    <3>. QED BY <3>1, <3>3
  <2>. QED BY <1>1, <1>2, <2>1
<1>4. PICK s, events : s \in Published /\ Sent(s, events) /\ Stream!Publish(u, s, events)
  BY <1>3
<1>5. CASE UNCHANGED <<feed, wire>>
  <2>1. StreamInv'
    BY <1>1, <1>5, ServerSteps DEF StreamInv, StreamSound, Stream!StreamTypeOK
  <2>2. UNCHANGED <<Stream!StatesSaid, Stream!ReadingsSaid>>
    BY <1>5 DEF Stream!StatesSaid, Stream!ReadingsSaid
  <2>. QED BY <1>1, <1>5, <2>1, <2>2 DEF ConvInv
<1>6. CASE ~UNCHANGED <<feed, wire>>
  <2>1. Len(wire) + Len(events) <= MaxWire /\ feed' = Stream!Put(feed, u, s) /\ Stream!Send(events)
    BY <1>4, <1>6 DEF Stream!Publish
  <2>2. /\ wire' \in Seq(Event) /\ Len(wire') <= MaxWire
        /\ conn' = "up" => /\ Len(wire') = Len(wire) + Len(events)
                           /\ \A i \in 1 .. Len(wire) : wire'[i] = wire[i]
                           /\ \A i \in 1 .. Len(events) : wire'[Len(wire) + i] = events[i]
    BY <1>1, <1>4, <2>1, SentTyped
  <2>3. StreamInv'
    <3>1. Stream!IsMap(feed', Uuids, Published) /\ Stream!IsMap(powerFeed', Uuids, Readings)
      BY <1>1, <1>4, <2>1, PutTyped DEF StreamInv, StreamSound, Stream!StreamTypeOK
    <3>. QED BY <1>1, <2>2, <3>1, ServerSteps
  <2>4. ASSUME conn' = "up" PROVE ConvInv'
    <3>. DEFINE n == Len(wire)
                m == Len(events)
                says == Stream!StatesSaid
                reads == Stream!ReadingsSaid
                says2 == Stream!StatesSaid'
                reads2 == Stream!ReadingsSaid'
    <3>1. /\ DOMAIN says = 1 .. n /\ DOMAIN reads = 1 .. n
          /\ \A i \in 1 .. n : says[i] = Stream!StatesIn(wire[i]) /\ reads[i] = Stream!ReadingsIn(wire[i])
      BY SaidOnWire DEF StreamInv
    <3>2. /\ DOMAIN says2 = 1 .. Len(wire') /\ DOMAIN reads2 = 1 .. Len(wire')
          /\ \A i \in 1 .. Len(wire') :
               says2[i] = Stream!StatesIn(wire'[i]) /\ reads2[i] = Stream!ReadingsIn(wire'[i])
      BY <2>2, SaidOnWirePrime
    <3>3. n \in Nat /\ m \in Nat \ {0}
      BY <1>4 DEF StreamInv
    <3>4. Converging(feed, deviceStates, says, overlaid) /\ Converging(powerFeed, devicePower, reads, {})
      BY <1>1, <2>4 DEF ConvInv
    <3>5. /\ \A i \in 1 .. n : wire'[i] = wire[i]
          /\ \A i \in (n + 1) .. (n + m) : wire'[i] = events[i - n] /\ i - n \in 1 .. m
          /\ Len(wire') = n + m
      <4>1. \A i \in (n + 1) .. (n + m) : i - n \in 1 .. m /\ n + (i - n) = i
        BY <3>3
      <4>. QED BY <2>2, <2>4, <4>1
    <3>. HIDE DEF says, reads, says2, reads2, n, m
    <3>6. /\ \A i \in 1 .. n : says2[i] = says[i] /\ reads2[i] = reads[i]
          /\ \A i \in (n + 1) .. (n + m) : says2[i] = [d \in {u} |-> s] /\ reads2[i] = Stream!EmptyMap
          /\ DOMAIN says2 = 1 .. (n + m) /\ DOMAIN reads2 = 1 .. (n + m)
      <4>1. \A i \in 1 .. n : i \in 1 .. (n + m)
        BY <3>3
      <4>2. \A i \in (n + 1) .. (n + m) : i \in 1 .. (n + m)
        BY <3>3
      <4>3. \A i \in 1 .. n : says2[i] = says[i] /\ reads2[i] = reads[i]
        BY <3>1, <3>2, <3>5, <4>1
      <4>4. \A i \in 1 .. m : /\ Stream!StatesIn(events[i]) = [d \in {u} |-> s]
                              /\ Stream!ReadingsIn(events[i]) = Stream!EmptyMap
        BY <1>4 DEF m
      <4>5. ASSUME NEW i \in (n + 1) .. (n + m)
            PROVE  says2[i] = [d \in {u} |-> s] /\ reads2[i] = Stream!EmptyMap
        <5>1. wire'[i] = events[i - n] /\ i - n \in 1 .. m /\ i \in 1 .. Len(wire')
          BY <3>5, <4>2
        <5>2. says2[i] = Stream!StatesIn(events[i - n]) /\ reads2[i] = Stream!ReadingsIn(events[i - n])
          BY <3>2, <5>1
        <5>. QED BY <4>4, <5>1, <5>2
      <4>. QED BY <3>2, <3>5, <4>3, <4>5
    <3>7. Converging(Stream!Put(feed, u, s), deviceStates, says2, overlaid)
      <4>1. n + m \in (n + 1) .. (n + m) /\ \A i \in (n + 1) .. (n + m) : ~(i > n + m)
        BY <3>3
      <4>2. \A i \in (n + 1) .. (n + m) : DOMAIN says2[i] = {u} /\ says2[i][u] = s
        BY <3>6
      <4>. DEFINE last == n + m
      <4>3. last \in (n + 1) .. (n + m) /\ \A i \in (n + 1) .. (n + m) : ~(i > last)
        BY <4>1
      <4>. HIDE DEF last
      <4>4. Tells(n, m, says, says2, u, s, last)
        BY <3>1, <3>6, <4>2, <4>3 DEF Tells
      <4>. QED BY <3>3, <3>4, <4>4, ConvergingPublish
    <3>8. Converging(powerFeed, devicePower, reads2, {})
      BY <3>1, <3>3, <3>4, <3>6, EmptyTyped, ConvergingSilent
    <3>. QED BY <1>1, <2>1, <3>7, <3>8 DEF ConvInv, says2, reads2
  <2>5. ASSUME conn' # "up" PROVE ConvInv'
    BY <2>5 DEF ConvInv
  <2>. QED BY <2>3, <2>4, <2>5
<1>. QED BY <1>5, <1>6

\* Telemetry publishes a new reading of one device.
LEMMA ServerTelemetryStep ==
  ASSUME StreamInv, ConvInv, NEW u \in Uuids, Stream!ServerTelemetry(u), UNCHANGED overlaid
  PROVE  StreamInv' /\ ConvInv'
<1>. DEFINE health == [type |-> "poller_health"]
<1>1. PICK r \in Readings : /\ Len(wire) + 2 <= MaxWire
                            /\ powerFeed' = Stream!Put(powerFeed, u, r)
                            /\ Stream!Send(<<Stream!PowerEvent(u, r), health>>)
  BY DEF Stream!ServerTelemetry
<1>2. UNCHANGED <<real, feed, conn, source, reconnectTimer, retryIndex, closed, monitor,
                  deviceStates, devicePower>>
  BY DEF Stream!ServerTelemetry, Stream!shownVars
<1>. DEFINE a == Stream!PowerEvent(u, r)
            events == <<a, health>>
<1>3. /\ a \in Event /\ health \in Event
      /\ Stream!ReadingsIn(a) = [d \in {u} |-> r] /\ Stream!StatesIn(a) = Stream!EmptyMap
      /\ Stream!ReadingsIn(health) = Stream!EmptyMap /\ Stream!StatesIn(health) = Stream!EmptyMap
  BY EventsSent
<1>. HIDE DEF a, health
<1>4. events \in Seq(Event) /\ Len(events) = 2 /\ events[1] = a /\ events[2] = health
  BY <1>3
<1>5. Stream!Send(events)
  BY <1>1 DEF a
<1>. HIDE DEF events
<1>6. /\ wire' \in Seq(Event) /\ Len(wire') <= MaxWire
      /\ conn' = "up" => /\ Len(wire') = Len(wire) + 2
                         /\ \A i \in 1 .. Len(wire) : wire'[i] = wire[i]
                         /\ \A i \in 1 .. 2 : wire'[Len(wire) + i] = events[i]
  BY <1>1, <1>2, <1>4, <1>5, SentTyped
<1>7. StreamInv'
  <2>1. Stream!IsMap(feed', Uuids, Published) /\ Stream!IsMap(powerFeed', Uuids, Readings)
    BY <1>1, <1>2, PutTyped DEF StreamInv, StreamSound, Stream!StreamTypeOK
  <2>. QED BY <1>2, <1>6, <2>1, ServerSteps
<1>8. ASSUME conn' = "up" PROVE ConvInv'
  <2>. DEFINE n == Len(wire)
              m == 2
              says == Stream!StatesSaid
              reads == Stream!ReadingsSaid
              says2 == Stream!StatesSaid'
              reads2 == Stream!ReadingsSaid'
  <2>1. /\ DOMAIN says = 1 .. n /\ DOMAIN reads = 1 .. n
        /\ \A i \in 1 .. n : says[i] = Stream!StatesIn(wire[i]) /\ reads[i] = Stream!ReadingsIn(wire[i])
    BY SaidOnWire DEF StreamInv
  <2>2. /\ DOMAIN says2 = 1 .. Len(wire') /\ DOMAIN reads2 = 1 .. Len(wire')
        /\ \A i \in 1 .. Len(wire') :
             says2[i] = Stream!StatesIn(wire'[i]) /\ reads2[i] = Stream!ReadingsIn(wire'[i])
    BY <1>6, SaidOnWirePrime
  <2>3. n \in Nat
    BY DEF StreamInv
  <2>4. Converging(feed, deviceStates, says, overlaid) /\ Converging(powerFeed, devicePower, reads, {})
    BY <1>2, <1>8 DEF ConvInv
  <2>5. /\ \A i \in 1 .. n : wire'[i] = wire[i]
        /\ wire'[n + 1] = a /\ wire'[n + 2] = health /\ Len(wire') = n + 2
    BY <1>4, <1>6, <1>8
  <2>. HIDE DEF says, reads, says2, reads2, n
  <2>6. /\ \A i \in 1 .. n : says2[i] = says[i] /\ reads2[i] = reads[i]
        /\ reads2[n + 1] = [d \in {u} |-> r] /\ reads2[n + 2] = Stream!EmptyMap
        /\ says2[n + 1] = Stream!EmptyMap /\ says2[n + 2] = Stream!EmptyMap
        /\ DOMAIN says2 = 1 .. (n + m) /\ DOMAIN reads2 = 1 .. (n + m)
    <3>1. (\A i \in 1 .. n : i \in 1 .. (n + 2)) /\ n + 1 \in 1 .. (n + 2) /\ n + 2 \in 1 .. (n + 2)
      BY <2>3
    <3>. QED BY <1>3, <2>1, <2>2, <2>5, <3>1
  <2>7. (n + 1) .. (n + m) = {n + 1, n + 2} /\ n + 2 > n + 1 /\ ~(n + 1 > n + 1)
    BY <2>3
  <2>8. Converging(Stream!Put(powerFeed, u, r), devicePower, reads2, {})
    <3>. DEFINE last == n + 1
    <3>1. DOMAIN reads2[last] = {u} /\ reads2[last][u] = r
      BY <2>6
    <3>2. \A i \in (n + 1) .. (n + m) :
            DOMAIN reads2[i] \subseteq {u} /\ (i > last => DOMAIN reads2[i] = {})
      BY <2>6, <2>7, EmptyTyped
    <3>3. last \in (n + 1) .. (n + m)
      BY <2>7
    <3>4. m \in Nat \ {0}
      OBVIOUS
    <3>. DEFINE over == {}
                next == Stream!Put(powerFeed, u, r)
    <3>5. Converging(powerFeed, devicePower, reads, over)
      BY <2>4
    <3>6. /\ DOMAIN reads = 1 .. n /\ DOMAIN reads2 = 1 .. (n + m)
          /\ \A i \in 1 .. n : reads2[i] = reads[i]
      BY <2>1, <2>6
    <3>. HIDE DEF last, m, over
    <3>7. Tells(n, m, reads, reads2, u, r, last)
      BY <3>1, <3>2, <3>3, <3>6 DEF Tells
    <3>8. Converging(next, devicePower, reads2, over)
      BY <2>3, <3>4, <3>5, <3>7, ConvergingPublish
    <3>. QED BY <3>8 DEF over
  <2>9. Converging(feed, deviceStates, says2, overlaid)
    <3>1. \A i \in (n + 1) .. (n + m) : DOMAIN says2[i] = {}
      BY <2>6, <2>7, EmptyTyped
    <3>2. m \in Nat
      OBVIOUS
    <3>. HIDE DEF m
    <3>. QED BY <2>1, <2>3, <2>4, <2>6, <3>1, <3>2, ConvergingSilent
  <2>. QED BY <1>1, <1>2, <2>8, <2>9 DEF ConvInv, says2, reads2
<1>9. ASSUME conn' # "up" PROVE ConvInv'
  BY <1>9 DEF ConvInv
<1>. QED BY <1>7, <1>8, <1>9

\* Someone switches a device, which nobody sees before a poll.
LEMMA DeviceChangesStep ==
  ASSUME StreamInv, ConvInv, real' \in [Uuids -> {0, 1}], UNCHANGED overlaid,
         UNCHANGED <<feed, powerFeed, conn, wire, source, reconnectTimer, retryIndex, closed,
                     monitor, deviceStates, devicePower>>
  PROVE  StreamInv' /\ ConvInv'
<1>1. StreamInv'
  BY DEF StreamInv, StreamSound, Stream!StreamTypeOK, Stream!OneConnection,
     Stream!MonitorFollowsSource
<1>2. UNCHANGED <<Stream!StatesSaid, Stream!ReadingsSaid>>
  BY DEF Stream!StatesSaid, Stream!ReadingsSaid
<1>. QED BY <1>1, <1>2 DEF ConvInv

\* Every step of the stream keeps both invariants, with no entry of the client's own.
LEMMA StreamStep ==
  ASSUME StreamInv, ConvInv, overlaid = {}, Stream!StreamNext, UNCHANGED overlaid
  PROVE  StreamInv' /\ ConvInv'
<1>1. ASSUME NEW u \in Uuids, Stream!DeviceChanges(u) PROVE StreamInv' /\ ConvInv'
  <2>1. real \in [Uuids -> {0, 1}]
    BY DEF StreamInv, StreamSound, Stream!StreamTypeOK
  <2>2. real' \in [Uuids -> {0, 1}]
    BY <1>1, <2>1 DEF Stream!DeviceChanges
  <2>. QED BY <1>1, <2>2, DeviceChangesStep DEF Stream!DeviceChanges, Stream!streamVars, Stream!shownVars
<1>2. CASE Stream!Receive
  BY <1>2, ReceiveStreamStep
<1>. QED BY <1>1, <1>2, ServerPollStep, ServerTelemetryStep, ConnectionStep, OnOpenStep
         DEF Stream!StreamNext

-----------------------------------------------------------------------------
(* The stream below the operations region *)

\* Without readings, with one delay and a wire of two events its steps are the stream's.
LEMMA SameSteps ==
  /\ \A u \in Uuids : Operations!ServerPoll(u) => Stream!ServerPoll(u)
  /\ \A u \in Uuids : ~Operations!ServerTelemetry(u)
  /\ \A u \in Uuids : Operations!DeviceChanges(u) => Stream!DeviceChanges(u)
  /\ Operations!ConnectionLost => Stream!ConnectionLost
  /\ Operations!OpenStream => Stream!OpenStream
  /\ Operations!OnOpen => Stream!OnOpen
  /\ Operations!Receive => Stream!Receive
  /\ Operations!Stop => Stream!Stop
  /\ Operations!Start => Stream!Start
<1>. USE DEF Operations!serverVars, Stream!serverVars, Operations!shownVars, Stream!shownVars,
             Operations!streamVars, Stream!streamVars
<1>1. ASSUME NEW u \in Uuids, Operations!ServerPoll(u) PROVE Stream!ServerPoll(u)
  <2>1. ASSUME NEW s, NEW events, Operations!Publish(u, s, events)
        PROVE  Stream!Publish(u, s, events)
    <3>1. Len(wire) + Len(events) <= MaxWire
      BY <2>1, StreamBounds DEF Operations!Publish
    <3>. QED BY <2>1, <3>1 DEF Operations!Publish, Stream!Publish, Operations!Put, Stream!Put,
                 Operations!Send, Stream!Send
  <2>2. /\ Operations!PollAnswer(u) = Stream!PollAnswer(u)
        /\ Operations!PollStale(u) = Stream!PollStale(u)
    BY DEF Operations!PollAnswer, Stream!PollAnswer, Operations!PollStale, Stream!PollStale
  <2>3. \A type, s : Operations!StateEvent(type, u, s) = Stream!StateEvent(type, u, s)
    BY DEF Operations!StateEvent, Stream!StateEvent
  <2>. QED BY <1>1, <2>1, <2>2, <2>3 DEF Operations!ServerPoll, Stream!ServerPoll
<1>2. ASSUME NEW u \in Uuids, Operations!ServerTelemetry(u) PROVE FALSE
  BY <1>2 DEF Operations!ServerTelemetry
<1>3. ASSUME NEW u \in Uuids, Operations!DeviceChanges(u) PROVE Stream!DeviceChanges(u)
  BY <1>3 DEF Operations!DeviceChanges, Stream!DeviceChanges
<1>4. Operations!ConnectionLost => Stream!ConnectionLost
  BY DEF Operations!ConnectionLost, Stream!ConnectionLost
<1>5. Operations!OpenStream => Stream!OpenStream
  BY DEF Operations!OpenStream, Stream!OpenStream
<1>6. Operations!OnOpen => Stream!OnOpen
  BY DEF Operations!OnOpen, Stream!OnOpen, Operations!Snapshot, Stream!Snapshot,
     Operations!PowerSnapshot, Stream!PowerSnapshot
<1>7. Operations!Receive => Stream!Receive
  BY DEF Operations!Receive, Stream!Receive, Operations!ApplyStates, Stream!ApplyStates,
     Operations!ApplyPower, Stream!ApplyPower, Operations!MergeStates, Stream!MergeStates,
     Operations!StatesIn, Stream!StatesIn, Operations!ReadingsIn, Stream!ReadingsIn,
     Operations!EmptyMap, Stream!EmptyMap
<1>8. Operations!Stop => Stream!Stop
  BY DEF Operations!Stop, Stream!Stop, Operations!CloseSource, Stream!CloseSource
<1>9. Operations!Start => Stream!Start
  BY DEF Operations!Start, Stream!Start, Operations!EmptyMap, Stream!EmptyMap
<1>. QED BY <1>1, <1>2, <1>3, <1>4, <1>5, <1>6, <1>7, <1>8, <1>9

-----------------------------------------------------------------------------
(* The operations region *)

\* The rollback of the toggle under way holds what was shown before, which is no
\* assumption unless a command answered earlier left one; while the toggle is under
\* way an assumption about its device is the one it made.
OpsInv ==
  /\ Operations!RollbackOwned
  /\ Operations!OptimismAnswered
  /\ activeDeviceUuid \in Uuids \cup {None}
  /\ toggleRollback \in [uuid : Uuids, previous : Stream!State \cup {None}] \cup {None}
  /\ operations = "toggling" =>
       /\ wanted \in {0, 1}
       /\ activeDeviceUuid \in DOMAIN deviceStates /\ deviceStates[activeDeviceUuid].optimistic =>
            deviceStates[activeDeviceUuid].onoff = wanted
  /\ toggleRollback # None /\ toggleRollback.previous # None /\ toggleRollback.previous.optimistic =>
       /\ activeDeviceUuid \in DOMAIN answered
       /\ toggleRollback.previous.onoff = answered[activeDeviceUuid]

\* A step of the region that leaves the stream alone.
LEMMA StillStream ==
  ASSUME StreamInv, ConvInv, UNCHANGED <<Operations!streamSpecVars, overlaid>>
  PROVE  StreamInv' /\ ConvInv' /\ UNCHANGED <<deviceStates, closed>>
<1>1. UNCHANGED <<real, feed, powerFeed, conn, wire, source, reconnectTimer, retryIndex, closed,
                  monitor, deviceStates, devicePower>>
  BY DEF Operations!streamSpecVars, Operations!streamVars, Operations!serverVars,
     Operations!shownVars
<1>2. real' \in [Uuids -> {0, 1}]
  BY <1>1 DEF StreamInv, StreamSound, Stream!StreamTypeOK
<1>. QED BY <1>1, <1>2, DeviceChangesStep

\* Steps that leave toggles alone too.
LEMMA QuietStep ==
  ASSUME OpsInv,
         UNCHANGED <<operations, activeDeviceUuid, toggleRollback, wanted, answered, deviceStates, closed>>
  PROVE  OpsInv'
BY DEF OpsInv, Operations!RollbackOwned, Operations!OptimismAnswered

\* Requests that are no toggles.
LEMMA RequestStep ==
  ASSUME StreamInv, ConvInv, OpsInv,
         \/ Operations!SetHosts \/ Operations!CloseSystemDump
         \/ \E u \in Uuids : \/ Operations!RequestDeviceRefresh(u) \/ Operations!RefreshLost(u)
                             \/ Operations!DeviceResolve(u) \/ Operations!DeviceDiagnostics(u)
         \/ Operations!ResolveEnds \/ Operations!DiagnosticsEnd
  PROVE  StreamInv' /\ ConvInv' /\ OpsInv'
<1>1. UNCHANGED <<Operations!streamSpecVars, overlaid>>
  BY DEF Operations!SetHosts, Operations!CloseSystemDump, Operations!RequestDeviceRefresh,
     Operations!RefreshLost, Operations!DeviceResolve, Operations!DeviceDiagnostics,
     Operations!ResolveEnds, Operations!DiagnosticsEnd, Operations!histVars
<1>2. StreamInv' /\ ConvInv' /\ UNCHANGED <<deviceStates, closed>>
  BY <1>1, StillStream
<1>3. UNCHANGED <<toggleRollback, wanted, answered>>
  BY DEF Operations!SetHosts, Operations!CloseSystemDump, Operations!RequestDeviceRefresh,
     Operations!RefreshLost, Operations!DeviceResolve, Operations!DeviceDiagnostics,
     Operations!ResolveEnds, Operations!DiagnosticsEnd, Operations!histVars, Operations!opsVars
<1>4. \/ UNCHANGED <<operations, activeDeviceUuid>>
      \/ /\ operations = "idle" /\ operations' \in {"resolving", "fetchingDiagnostics"}
         /\ activeDeviceUuid' \in Uuids
      \/ /\ operations \in {"resolving", "fetchingDiagnostics"}
         /\ operations' = "idle" /\ activeDeviceUuid' = None
  BY DEF Operations!SetHosts, Operations!CloseSystemDump, Operations!RequestDeviceRefresh,
     Operations!RefreshLost, Operations!DeviceResolve, Operations!DeviceDiagnostics,
     Operations!ResolveEnds, Operations!DiagnosticsEnd, Operations!opsVars,
     Operations!Begin, Operations!Idle, Operations!End
<1>5. CASE UNCHANGED <<operations, activeDeviceUuid>>
  BY <1>2, <1>3, <1>5, QuietStep
<1>6. CASE operations # "toggling" /\ operations' # "toggling"
  <2>1. toggleRollback = None /\ toggleRollback' = None
    BY <1>3, <1>6 DEF OpsInv, Operations!RollbackOwned
  <2>2. (activeDeviceUuid' = None) <=> (operations' = "idle")
    BY <1>4, NoneAssumption DEF OpsInv, Operations!RollbackOwned
  <2>3. activeDeviceUuid' \in Uuids \cup {None}
    BY <1>4 DEF OpsInv
  <2>4. Operations!OptimismAnswered'
    BY <1>2, <1>3, <1>6 DEF OpsInv, Operations!OptimismAnswered
  <2>. QED BY <1>2, <1>6, <2>1, <2>2, <2>3, <2>4 DEF OpsInv, Operations!RollbackOwned
<1>. QED BY <1>2, <1>4, <1>5, <1>6

\* What the steps of the stream mean for toggles: an entry that changes becomes one the
\* server published.
LEMMA StreamQuiet ==
  ASSUME OpsInv, UNCHANGED Operations!opsVars, UNCHANGED answered,
         \/ UNCHANGED <<deviceStates, closed>>
         \/ deviceStates' = Stream!EmptyMap
         \/ /\ UNCHANGED closed
            /\ \E states : /\ Stream!IsMap(states, Uuids, Published)
                           /\ deviceStates' = Stream!MergeStates(deviceStates, states)
  PROVE  OpsInv'
<1>1. UNCHANGED <<operations, activeDeviceUuid, toggleRollback, wanted>>
  BY DEF Operations!opsVars
<1>2. CASE UNCHANGED <<deviceStates, closed>>
  BY <1>1, <1>2, QuietStep
<1>3. CASE deviceStates' = Stream!EmptyMap
  <2>1. DOMAIN deviceStates' = {}
    BY <1>3, EmptyTyped
  <2>. QED BY <1>1, <2>1 DEF OpsInv, Operations!RollbackOwned, Operations!OptimismAnswered
<1>4. ASSUME UNCHANGED closed, NEW states, Stream!IsMap(states, Uuids, Published),
             deviceStates' = Stream!MergeStates(deviceStates, states)
      PROVE  OpsInv'
  <2>1. \A u \in DOMAIN deviceStates' : deviceStates'[u].optimistic =>
          u \in DOMAIN deviceStates /\ deviceStates'[u] = deviceStates[u]
    <3>1. \A u \in DOMAIN states : states[u] \in Published /\ states[u].optimistic = FALSE
      BY <1>4 DEF Stream!IsMap, Published
    <3>2. /\ DOMAIN deviceStates' = DOMAIN deviceStates \cup DOMAIN states
          /\ \A u \in DOMAIN deviceStates \cup DOMAIN states :
               deviceStates'[u] = IF u \in DOMAIN states THEN states[u] ELSE deviceStates[u]
      BY <1>4 DEF Stream!MergeStates
    <3>. QED BY <3>1, <3>2
  <2>. QED BY <1>1, <1>4, <2>1 DEF OpsInv, Operations!RollbackOwned, Operations!OptimismAnswered
<1>. QED BY <1>2, <1>3, <1>4

\* The stream's steps with their requests and history.
LEMMA StreamBelowStep ==
  ASSUME StreamInv, ConvInv, OpsInv,
         \/ \E u \in Uuids : Operations!PollStep(u)
         \/ Operations!ReceiveStep \/ Operations!OtherStreamStep
         \/ Operations!StopStep \/ Operations!StartStep
  PROVE  StreamInv' /\ ConvInv' /\ OpsInv'
<1>1. ASSUME NEW u \in Uuids, Operations!PollStep(u) PROVE StreamInv' /\ ConvInv' /\ OpsInv'
  <2>1. Stream!ServerPoll(u) /\ UNCHANGED <<Operations!opsVars, overlaid, answered>>
    BY <1>1, SameSteps DEF Operations!PollStep
  <2>2. UNCHANGED <<deviceStates, closed>>
    BY <2>1 DEF Stream!ServerPoll, Stream!shownVars
  <2>. QED BY <2>1, <2>2, ServerPollStep, StreamQuiet
<1>2. CASE Operations!ReceiveStep
  <2>1. Stream!Receive /\ UNCHANGED <<Operations!opsVars, answered>>
    BY <1>2, SameSteps DEF Operations!ReceiveStep
  <2>2. overlaid' = overlaid \ DOMAIN Stream!StatesIn(Head(wire))
    BY <1>2 DEF Operations!ReceiveStep, Operations!Covered, Operations!StatesIn, Stream!StatesIn,
       Operations!EmptyMap, Stream!EmptyMap
  <2>3. UNCHANGED closed /\ deviceStates' = Stream!MergeStates(deviceStates, Stream!StatesIn(Head(wire)))
    BY <2>1 DEF Stream!Receive, Stream!ApplyStates
  <2>4. Stream!IsMap(Stream!StatesIn(Head(wire)), Uuids, Published)
    <3>1. wire \in Seq(Event) /\ wire # <<>>
      BY <2>1 DEF StreamInv, Stream!Receive
    <3>2. Head(wire) \in Event
      BY <3>1
    <3>. QED BY <3>2, EventSays
  <2>. QED BY <2>1, <2>2, <2>3, <2>4, ReceiveStreamStep, StreamQuiet
<1>3. CASE Operations!OtherStreamStep
  <2>1. UNCHANGED <<Operations!opsVars, overlaid, answered>>
    BY <1>3 DEF Operations!OtherStreamStep, Operations!histVars
  <2>2. \/ \E u \in Uuids : Stream!DeviceChanges(u)
        \/ Stream!ConnectionLost \/ Stream!OpenStream \/ Stream!OnOpen \/ Operations!OnError
    BY <1>3, SameSteps DEF Operations!OtherStreamStep
  <2>3. UNCHANGED <<deviceStates, closed>>
    BY <2>2 DEF Stream!DeviceChanges, Stream!ConnectionLost, Stream!OpenStream, Stream!OnOpen,
       Operations!OnError, Stream!streamVars, Stream!shownVars, Operations!shownVars
  <2>4. ASSUME NEW u \in Uuids, Stream!DeviceChanges(u) PROVE StreamInv' /\ ConvInv'
    <3>1. real' \in [Uuids -> {0, 1}]
      BY <2>4 DEF Stream!DeviceChanges, StreamInv, StreamSound, Stream!StreamTypeOK
    <3>. QED BY <2>1, <2>4, <3>1, DeviceChangesStep
             DEF Stream!DeviceChanges, Stream!streamVars, Stream!shownVars
  <2>. QED BY <2>1, <2>2, <2>3, <2>4, ConnectionStep, OnOpenStep, StreamQuiet
<1>4. CASE Operations!StopStep
  <2>1. Stream!Stop
    BY <1>4, SameSteps DEF Operations!StopStep
  <2>2. /\ operations' = "idle" /\ activeDeviceUuid' = None /\ toggleRollback' = None
        /\ closed' = TRUE
    BY <1>4, <2>1 DEF Operations!StopStep, Stream!Stop
  <2>3. OpsInv'
    BY <2>2 DEF OpsInv, Operations!RollbackOwned, Operations!OptimismAnswered
  <2>. QED BY <2>1, <2>3, ConnectionStep
<1>5. CASE Operations!StartStep
  <2>1. Stream!Start /\ UNCHANGED <<Operations!opsVars, answered>>
    BY <1>5, SameSteps DEF Operations!StartStep, Operations!histVars
  <2>2. deviceStates' = Stream!EmptyMap
    BY <2>1 DEF Stream!Start
  <2>. QED BY <2>1, <2>2, ConnectionStep, StreamQuiet
<1>. QED BY <1>1, <1>2, <1>3, <1>4, <1>5

\* The client writes the entry of one device, and counts it as its own.
LEMMA OverStep ==
  ASSUME StreamInv, ConvInv, NEW d \in Uuids, NEW s \in Stream!State,
         deviceStates' = Stream!Put(deviceStates, d, s), overlaid' = overlaid \cup {d},
         UNCHANGED <<real, feed, powerFeed, conn, wire, source, reconnectTimer, retryIndex, closed,
                     monitor, devicePower>>
  PROVE  StreamInv' /\ ConvInv'
<1>1. Stream!IsMap(deviceStates', Uuids, Stream!State)
  BY PutTyped DEF StreamInv, StreamSound, Stream!StreamTypeOK
<1>2. StreamInv'
  BY <1>1 DEF StreamInv, StreamSound, Stream!StreamTypeOK, Stream!OneConnection,
     Stream!MonitorFollowsSource
<1>3. UNCHANGED <<Stream!StatesSaid, Stream!ReadingsSaid>>
  BY DEF Stream!StatesSaid, Stream!ReadingsSaid
<1>4. \A u \in DOMAIN deviceStates \ {d} : u \in DOMAIN deviceStates' /\ deviceStates'[u] = deviceStates[u]
  BY DEF Stream!Put
<1>5. ASSUME conn = "up"
      PROVE  Converging(feed, deviceStates', Stream!StatesSaid, overlaid')
  <2>. DEFINE next == deviceStates'
              says == Stream!StatesSaid
  <2>1. Converging(feed, deviceStates, says, overlaid)
    BY <1>5 DEF ConvInv
  <2>2. \A u \in DOMAIN deviceStates \ {d} : u \in DOMAIN next /\ next[u] = deviceStates[u]
    BY <1>4
  <2>. HIDE DEF next, says
  <2>3. Converging(feed, next, says, overlaid \cup {d})
    BY <2>1, <2>2, ConvergingOver
  <2>. QED BY <2>3 DEF next, says
<1>. QED BY <1>2, <1>3, <1>5 DEF ConvInv

\* A toggle begins: what was shown becomes its rollback.
LEMMA ToggleBegins ==
  ASSUME StreamInv, ConvInv, OpsInv, NEW u \in Uuids, NEW onoff \in {0, 1},
         Operations!DeviceToggle(u, onoff)
  PROVE  StreamInv' /\ ConvInv' /\ OpsInv'
<1>. DEFINE s == [onoff |-> onoff, stale |-> FALSE, optimistic |-> TRUE]
            old == IF u \in DOMAIN deviceStates THEN deviceStates[u] ELSE None
<1>1. /\ operations = "idle" /\ ~closed /\ operations' = "toggling" /\ activeDeviceUuid' = u
      /\ wanted' = onoff /\ overlaid' = overlaid \cup {u} /\ UNCHANGED answered
      /\ toggleRollback' = [uuid |-> u, previous |-> old]
      /\ UNCHANGED <<real, feed, powerFeed, conn, wire, source, reconnectTimer, retryIndex, closed,
                     monitor, devicePower>>
  BY DEF Operations!DeviceToggle, Operations!Begin, Operations!Idle,
     Operations!PrepareOptimisticToggle, Operations!serverVars, Operations!streamVars
<1>2. s \in Stream!State /\ s.onoff = onoff
  BY DEF Stream!State
<1>3. deviceStates' = Stream!Put(deviceStates, u, s)
  BY DEF Operations!DeviceToggle, Operations!PrepareOptimisticToggle, Operations!Put, Stream!Put
<1>. HIDE DEF s
<1>4. StreamInv' /\ ConvInv'
  BY <1>1, <1>2, <1>3, OverStep
<1>5. /\ \A d \in DOMAIN deviceStates' : d # u => d \in DOMAIN deviceStates
                                                  /\ deviceStates'[d] = deviceStates[d]
      /\ deviceStates'[u] = s
  BY <1>3 DEF Stream!Put
<1>6. old \in Stream!State \cup {None}
  BY DEF StreamInv, StreamSound, Stream!StreamTypeOK, Stream!IsMap
<1>7. old # None /\ old.optimistic => u \in DOMAIN answered /\ old.onoff = answered[u]
  BY <1>1 DEF OpsInv, Operations!OptimismAnswered
<1>. HIDE DEF old
<1>8. /\ toggleRollback' \in [uuid : Uuids, previous : Stream!State \cup {None}]
      /\ toggleRollback'.uuid = u /\ toggleRollback'.previous = old /\ toggleRollback' # None
  BY <1>1, <1>6, NoneAssumption
<1>9. Operations!RollbackOwned'
  BY <1>1, <1>8, NoneAssumption DEF Operations!RollbackOwned
<1>10. Operations!OptimismAnswered'
  BY <1>1, <1>5 DEF OpsInv, Operations!OptimismAnswered
<1>. QED BY <1>1, <1>2, <1>4, <1>5, <1>7, <1>8, <1>9, <1>10 DEF OpsInv

\* A toggle fails: its entry is rolled back and marked with the error.
LEMMA ToggleFails ==
  ASSUME StreamInv, ConvInv, OpsInv, Operations!ToggleError
  PROVE  StreamInv' /\ ConvInv' /\ OpsInv'
<1>. DEFINE a == activeDeviceUuid
            old == toggleRollback.previous
            s == [onoff |-> IF old = None THEN 0 ELSE old.onoff, stale |-> TRUE,
                  optimistic |-> old # None /\ old.optimistic]
<1>1. /\ operations = "toggling" /\ operations' = "idle" /\ activeDeviceUuid' = None
      /\ toggleRollback' = None /\ overlaid' = overlaid \cup {a} /\ UNCHANGED answered
      /\ deviceStates' = Operations!SetDeviceError(Operations!RolledBack, a)
      /\ UNCHANGED <<real, feed, powerFeed, conn, wire, source, reconnectTimer, retryIndex, closed,
                     monitor, devicePower>>
  BY DEF Operations!ToggleError, Operations!End, Operations!serverVars, Operations!streamVars
<1>2. /\ toggleRollback \in [uuid : Uuids, previous : Stream!State \cup {None}]
      /\ toggleRollback # None /\ toggleRollback.uuid = a
  BY <1>1 DEF OpsInv, Operations!RollbackOwned
<1>3. a \in Uuids /\ old \in Stream!State \cup {None}
  BY <1>2
<1>4. s \in Stream!State /\ s.onoff = (IF old = None THEN 0 ELSE old.onoff)
      /\ s.optimistic = (old # None /\ old.optimistic)
  BY <1>3 DEF Stream!State
<1>5. deviceStates' = Stream!Put(deviceStates, a, s)
  <2>1. CASE old = None
    <3>1. Operations!RolledBack = Operations!Drop(deviceStates, a)
      BY <1>2, <2>1 DEF Operations!RolledBack
    <3>2. /\ DOMAIN Operations!Drop(deviceStates, a) = DOMAIN deviceStates \ {a}
          /\ \A d \in DOMAIN deviceStates \ {a} : Operations!Drop(deviceStates, a)[d] = deviceStates[d]
      BY DEF Operations!Drop
    <3>3. s = [onoff |-> 0, stale |-> TRUE, optimistic |-> FALSE]
      BY <2>1
    <3>4. Operations!SetDeviceError(Operations!RolledBack, a)
            = Operations!Put(Operations!RolledBack, a, s)
      <4>1. a \notin DOMAIN Operations!RolledBack
        BY <3>1, <3>2
      <4>. QED BY <3>3, <4>1 DEF Operations!SetDeviceError
    <3>. HIDE DEF s
    <3>5. Operations!Put(Operations!RolledBack, a, s) = Stream!Put(deviceStates, a, s)
      BY <3>1, <3>2 DEF Operations!Put, Stream!Put
    <3>. QED BY <1>1, <3>4, <3>5
  <2>2. CASE old # None
    <3>1. Operations!RolledBack = Operations!Put(deviceStates, a, old)
      BY <1>2, <2>2 DEF Operations!RolledBack
    <3>. DEFINE back == Operations!Put(deviceStates, a, old)
    <3>2. DOMAIN back = DOMAIN deviceStates \cup {a} /\ back[a] = old
          /\ \A d \in DOMAIN deviceStates : d # a => back[d] = deviceStates[d]
      BY DEF Operations!Put
    <3>3. s = [onoff |-> old.onoff, stale |-> TRUE, optimistic |-> old.optimistic]
      BY <1>3, <2>2 DEF Stream!State
    <3>. HIDE DEF back, s
    <3>4. Operations!SetDeviceError(back, a) = Operations!Put(back, a, s)
      <4>1. a \in DOMAIN back /\ old.optimistic \in BOOLEAN
        BY <1>3, <2>2, <3>2 DEF Stream!State
      <4>. QED BY <3>2, <3>3, <4>1 DEF Operations!SetDeviceError
    <3>5. Operations!Put(back, a, s) = Stream!Put(deviceStates, a, s)
      BY <3>2 DEF Operations!Put, Stream!Put
    <3>. QED BY <1>1, <3>1, <3>4, <3>5 DEF back
  <2>. QED BY <2>1, <2>2
<1>6. old # None /\ old.optimistic => a \in DOMAIN answered /\ old.onoff = answered[a]
  BY <1>2 DEF OpsInv
<1>. HIDE DEF s
<1>7. StreamInv' /\ ConvInv'
  BY <1>1, <1>3, <1>4, <1>5, OverStep
<1>8. /\ \A d \in DOMAIN deviceStates' : d # a => d \in DOMAIN deviceStates
                                                  /\ deviceStates'[d] = deviceStates[d]
      /\ deviceStates'[a] = s
  BY <1>5 DEF Stream!Put
<1>9. Operations!OptimismAnswered'
  BY <1>1, <1>4, <1>6, <1>8 DEF OpsInv, Operations!OptimismAnswered
<1>. QED BY <1>1, <1>7, <1>9 DEF OpsInv, Operations!RollbackOwned

\* A toggle is answered: its entry keeps the assumption, now of an answered command.
LEMMA ToggleAnswered ==
  ASSUME StreamInv, ConvInv, OpsInv, Operations!ToggleReachesDevice \/ Operations!ToggleDone
  PROVE  StreamInv' /\ ConvInv' /\ OpsInv'
<1>1. CASE Operations!ToggleReachesDevice
  <2>1. /\ operations = "toggling" /\ real' \in {real, [real EXCEPT ![activeDeviceUuid] = wanted]}
        /\ UNCHANGED <<feed, powerFeed, conn, wire, source, reconnectTimer, retryIndex, closed,
                       monitor, deviceStates, devicePower, overlaid, answered, operations,
                       activeDeviceUuid, toggleRollback, wanted>>
    BY <1>1 DEF Operations!ToggleReachesDevice, Operations!streamVars, Operations!shownVars
  <2>2. wanted \in {0, 1} /\ real \in [Uuids -> {0, 1}]
    BY <2>1 DEF OpsInv, StreamInv, StreamSound, Stream!StreamTypeOK
  <2>3. real' \in [Uuids -> {0, 1}]
    BY <2>1, <2>2
  <2>. QED BY <2>1, <2>3, DeviceChangesStep, QuietStep
<1>2. CASE Operations!ToggleDone
  <2>. DEFINE a == activeDeviceUuid
  <2>1. /\ operations = "toggling" /\ operations' = "idle" /\ activeDeviceUuid' = None
        /\ toggleRollback' = None /\ answered' = Operations!Put(answered, a, wanted)
        /\ UNCHANGED <<Operations!streamSpecVars, overlaid>>
    BY <1>2 DEF Operations!ToggleDone, Operations!End
  <2>2. StreamInv' /\ ConvInv' /\ UNCHANGED <<deviceStates, closed>>
    BY <2>1, StillStream
  <2>3. /\ a \in DOMAIN answered' /\ answered'[a] = wanted
        /\ \A d \in DOMAIN answered : d \in DOMAIN answered' /\ (d # a => answered'[d] = answered[d])
    BY <2>1 DEF Operations!Put
  <2>4. Operations!OptimismAnswered'
    BY <2>1, <2>2, <2>3 DEF OpsInv, Operations!OptimismAnswered
  <2>. QED BY <2>1, <2>2, <2>4 DEF OpsInv, Operations!RollbackOwned
<1>. QED BY <1>1, <1>2

\* Every step of the region keeps the invariants.
LEMMA OperationsStep ==
  ASSUME StreamInv, ConvInv, OpsInv, Operations!Next
  PROVE  StreamInv' /\ ConvInv' /\ OpsInv'
BY RequestStep, StreamBelowStep, ToggleBegins, ToggleFails, ToggleAnswered DEF Operations!Next

-----------------------------------------------------------------------------
(* The inventory region *)

\* What the handlers hold.
Copy == [hosts : SUBSET Inventory, before : BOOLEAN]

\* A scan is stored before the hosts are asked for; until a handler that read before it
\* writes, the config and whatever is read from it have the hosts of the scan.
Stored ==
  scanned # None /\ ~undone =>
    /\ scanned \subseteq srvHosts
    /\ \A w \in Region!Handlers : copies[w] # None => copies[w].before \/ scanned \subseteq copies[w].hosts

\* What is being merged with a scan is what is stored, until somebody else writes.
Merging == copies["discover"] # None /\ ~overlapped => copies["discover"].hosts = srvHosts

RegionInv ==
  /\ copies \in [Region!Handlers -> Copy \cup {None}]
  /\ srvHosts \in SUBSET Inventory
  /\ Stored /\ Merging
  /\ scanned # None => copies["discover"] = None
  /\ inventory = "suggestingCidr" => scanned = None /\ hostsReply = None
  /\ inventory = "discoveringHosts" /\ hostsReply # None =>
       scanned # None /\ (undone \/ scanned \subseteq hostsReply)

\* The handlers keep these facts, of the scan that is stored and of the one being merged.
HandlersInv ==
  /\ copies \in [Region!Handlers -> Copy \cup {None}]
  /\ srvHosts \in SUBSET Inventory
  /\ Stored /\ Merging
  /\ scanned # None => copies["discover"] = None

\* Reading the config.
LEMMA ReadKeeps ==
  ASSUME HandlersInv, NEW w \in Region!Handlers, Region!Read(w), w = "discover" => scanned = None,
         UNCHANGED scanned
  PROVE  HandlersInv'
<1>. DEFINE c == [hosts |-> srvHosts, before |-> FALSE]
<1>1. /\ copies[w] = None /\ copies' = [copies EXCEPT ![w] = c]
      /\ UNCHANGED <<srvHosts, overlapped, undone>>
  BY DEF Region!Read
<1>2. c \in Copy /\ c.hosts = srvHosts /\ "discover" \in Region!Handlers
  BY DEF HandlersInv, Copy, Region!Handlers
<1>. HIDE DEF c
<1>3. /\ copies' \in [Region!Handlers -> Copy \cup {None}] /\ copies'[w] = c
      /\ \A x \in Region!Handlers : x # w => copies'[x] = copies[x]
  BY <1>1, <1>2 DEF HandlersInv
<1>4. Stored'
  BY <1>1, <1>2, <1>3 DEF HandlersInv, Stored
<1>5. Merging'
  BY <1>1, <1>2, <1>3 DEF HandlersInv, Merging
<1>. QED BY <1>1, <1>2, <1>3, <1>4, <1>5 DEF HandlersInv

\* Writing a copy back: what it undoes of a scan it had read before that was stored.
LEMMA WriteKeeps ==
  ASSUME HandlersInv, NEW w \in Region!Handlers, w # "discover", NEW found \in SUBSET Inventory,
         Region!Write(w, found), UNCHANGED scanned
  PROVE  HandlersInv'
<1>1. /\ copies[w] # None /\ srvHosts' = copies[w].hosts \cup found
      /\ copies' = [copies EXCEPT ![w] = None]
      /\ overlapped' = (copies["discover"] # None) /\ undone' = (undone \/ copies[w].before)
  BY DEF Region!Write, Region!Merge
<1>2. copies[w] \in Copy /\ "discover" \in Region!Handlers
  BY <1>1 DEF HandlersInv, Region!Handlers
<1>3. copies[w].hosts \in SUBSET Inventory /\ copies[w].before \in BOOLEAN
  BY <1>2 DEF Copy
<1>4. /\ copies' \in [Region!Handlers -> Copy \cup {None}] /\ copies'[w] = None
      /\ \A x \in Region!Handlers : x # w => copies'[x] = copies[x]
  BY <1>1 DEF HandlersInv
<1>5. Stored'
  <2>. SUFFICES ASSUME scanned # None, ~undone'
                PROVE  /\ scanned \subseteq srvHosts'
                       /\ \A x \in Region!Handlers : copies'[x] # None
                            => copies'[x].before \/ scanned \subseteq copies'[x].hosts
    BY DEF Stored
  <2>1. ~undone /\ ~copies[w].before
    BY <1>1, <1>3
  <2>2. scanned \subseteq copies[w].hosts
    BY <1>1, <2>1 DEF HandlersInv, Stored
  <2>. QED BY <1>1, <1>4, <2>1, <2>2 DEF HandlersInv, Stored
<1>6. Merging'
  BY <1>1, <1>2, <1>4 DEF Merging
<1>. QED BY <1>1, <1>2, <1>3, <1>4, <1>5, <1>6 DEF HandlersInv

\* A handler that fails, or goes on unheard with what it read.
LEMMA FailsKeeps ==
  ASSUME HandlersInv, NEW w \in Region!Handlers \ Others, Region!Fails(w), UNCHANGED scanned
  PROVE  HandlersInv'
<1>1. /\ overlapped' = (overlapped /\ w # "discover") /\ UNCHANGED <<srvHosts, undone>>
      /\ \/ copies' = [copies EXCEPT ![w] = None]
         \/ \E o \in Others : copies' = [copies EXCEPT ![w] = None, ![o] = copies[w]]
  BY DEF Region!Fails
<1>2. "discover" \in Region!Handlers \ Others /\ Others \subseteq Region!Handlers
  BY OthersAssumption DEF Region!Handlers
<1>3. /\ copies' \in [Region!Handlers -> Copy \cup {None}] /\ copies'[w] = None
      /\ \A x \in Region!Handlers : copies'[x] \in {None, copies[x], copies[w]}
      /\ \A x \in Region!Handlers \ Others : x # w => copies'[x] = copies[x]
  <2>1. CASE copies' = [copies EXCEPT ![w] = None]
    BY <2>1 DEF HandlersInv
  <2>2. ASSUME NEW o \in Others, copies' = [copies EXCEPT ![w] = None, ![o] = copies[w]]
        PROVE  /\ copies' \in [Region!Handlers -> Copy \cup {None}] /\ copies'[w] = None
               /\ \A x \in Region!Handlers : copies'[x] \in {None, copies[x], copies[w]}
               /\ \A x \in Region!Handlers \ Others : x # w => copies'[x] = copies[x]
    <3>1. o \in Region!Handlers /\ o # w
      BY <1>2
    <3>. QED BY <2>2, <3>1 DEF HandlersInv
  <2>. QED BY <1>1, <2>1, <2>2
<1>4. Stored'
  BY <1>1, <1>3 DEF HandlersInv, Stored
<1>5. Merging'
  BY <1>1, <1>2, <1>3 DEF HandlersInv, Merging
<1>. QED BY <1>1, <1>2, <1>3, <1>4, <1>5 DEF HandlersInv

\* A step that leaves the server alone keeps them, also when a scan begins.
LEMMA ServerKept ==
  ASSUME HandlersInv, UNCHANGED Region!server, scanned' \in {scanned, None}
  PROVE  HandlersInv'
BY DEF HandlersInv, Stored, Merging, Region!server

\* The scan is stored: it takes nothing away that was known when it was read, and those
\* who read before are known to have.
LEMMA ScanStored ==
  ASSUME HandlersInv, Region!DiscoverAnswer
  PROVE  HandlersInv' /\ (~overlapped => srvHosts \subseteq srvHosts')
<1>1. PICK found \in SUBSET Inventory :
        scanned' = found /\ srvHosts' = copies["discover"].hosts \cup found
  BY DEF Region!DiscoverAnswer, Region!Merge, Region!HostSets
<1>2. /\ copies["discover"] # None /\ overlapped' = FALSE /\ undone' = FALSE
      /\ copies' = [w \in Region!Handlers |-> IF w = "discover" \/ copies[w] = None THEN None
                                              ELSE [hosts |-> copies[w].hosts, before |-> TRUE]]
  BY DEF Region!DiscoverAnswer
<1>3. "discover" \in Region!Handlers /\ copies["discover"].hosts \in SUBSET Inventory
  BY <1>2 DEF HandlersInv, Copy, Region!Handlers
<1>4. /\ copies' \in [Region!Handlers -> Copy \cup {None}] /\ copies'["discover"] = None
      /\ \A w \in Region!Handlers : copies'[w] # None => copies'[w].before
  <2>1. ASSUME NEW w \in Region!Handlers
        PROVE  copies'[w] \in Copy \cup {None} /\ (copies'[w] # None => copies'[w].before)
    <3>1. CASE w = "discover" \/ copies[w] = None
      BY <1>2, <3>1
    <3>2. CASE ~(w = "discover" \/ copies[w] = None)
      <4>1. copies[w].hosts \in SUBSET Inventory
        BY <3>2 DEF HandlersInv, Copy
      <4>2. copies'[w] = [hosts |-> copies[w].hosts, before |-> TRUE]
        BY <1>2, <3>2
      <4>. QED BY <4>1, <4>2 DEF Copy
    <3>. QED BY <3>1, <3>2
  <2>. QED BY <1>2, <1>3, <2>1
<1>5. Stored' /\ Merging'
  BY <1>1, <1>4 DEF Stored, Merging
<1>6. ~overlapped => srvHosts \subseteq srvHosts'
  BY <1>1, <1>2 DEF HandlersInv, Merging
<1>. QED BY <1>1, <1>3, <1>4, <1>5, <1>6 DEF HandlersInv

\* What the property asks of a step.
FoundShown ==
  (inventory = "discoveringHosts" /\ inventory' = "idle" /\ scanned # None /\ hostsReply # None)
    => scanned \subseteq knownHosts' \/ undone
StoredKept == scanned = None /\ scanned' # None /\ ~overlapped => srvHosts \subseteq srvHosts'

\* What is asked of the region beside the handlers.
Phases ==
  /\ inventory = "suggestingCidr" => scanned = None /\ hostsReply = None
  /\ inventory = "discoveringHosts" /\ hostsReply # None =>
       scanned # None /\ (undone \/ scanned \subseteq hostsReply)

\* A write of another handler does not take back that something was undone.
LEMMA WriteUndoes ==
  ASSUME NEW w, NEW found, Region!Write(w, found)
  PROVE  undone => undone'
BY DEF Region!Write

\* Every step of the region keeps its invariant, shows what a scan found and keeps what
\* was stored.
LEMMA RegionStep ==
  ASSUME RegionInv, Region!Next
  PROVE  RegionInv' /\ FoundShown /\ StoredKept
<1>. DEFINE Fine == RegionInv' /\ FoundShown /\ StoredKept
<1>1. HandlersInv /\ Phases
  BY DEF RegionInv, HandlersInv, Phases
<1>2. /\ "refresh" \in Region!Handlers \ Others /\ "discover" \in Region!Handlers \ Others
      /\ "resolve" \in Region!Handlers \ Others /\ Others \subseteq Region!Handlers
  BY OthersAssumption DEF Region!Handlers
<1>3. ASSUME HandlersInv', Phases' PROVE RegionInv'
  BY <1>3 DEF RegionInv, HandlersInv, Phases
<1>4. ASSUME UNCHANGED <<inventory, scanned, hostsReply>>, HandlersInv', undone => undone'
      PROVE  Fine
  BY <1>1, <1>3, <1>4 DEF Phases, FoundShown, StoredKept
<1>. USE DEF Region!calls, Region!lookup
<1>5. CASE Region!Refresh
  <2>1. HandlersInv'
    BY <1>1, <1>5, ServerKept DEF Region!Refresh
  <2>. QED BY <1>1, <1>3, <1>5, <2>1 DEF Region!Refresh, Phases, FoundShown, StoredKept
<1>6. CASE Region!ListRead
  <2>1. Region!Read("refresh") /\ UNCHANGED <<inventory, scanned, hostsReply>>
    BY <1>6 DEF Region!ListRead
  <2>2. HandlersInv' /\ undone' = undone
    BY <1>1, <1>2, <2>1, ReadKeeps DEF Region!Read
  <2>. QED BY <1>4, <2>1, <2>2
<1>7. CASE Region!ListAnswer
  <2>1. UNCHANGED <<inventory, scanned, hostsReply>>
    BY <1>7 DEF Region!ListAnswer
  <2>2. CASE Region!Write("refresh", {})
    BY <1>1, <1>2, <1>4, <2>1, <2>2, WriteKeeps, WriteUndoes
  <2>3. CASE Region!Fails("refresh")
    <3>1. undone' = undone
      BY <2>3 DEF Region!Fails
    <3>. QED BY <1>1, <1>2, <1>4, <2>1, <2>3, <3>1, FailsKeeps
  <2>. QED BY <1>7, <2>2, <2>3 DEF Region!ListAnswer
<1>8. CASE Region!HostsAnswer
  <2>1. HandlersInv'
    BY <1>1, <1>8, ServerKept DEF Region!HostsAnswer
  <2>. QED BY <1>1, <1>3, <1>8, <2>1 DEF Region!HostsAnswer, Phases, FoundShown, StoredKept
<1>9. CASE Region!RefreshDone \/ Region!RefreshError
  <2>1. /\ inventory = "refreshingCloud" /\ inventory' \in {"suggestingCidr", "discoveringHosts"}
        /\ scanned' = None /\ hostsReply' = None /\ UNCHANGED Region!server
    BY <1>9 DEF Region!RefreshDone, Region!RefreshError, Region!Scan
  <2>2. HandlersInv'
    BY <1>1, <2>1, ServerKept
  <2>. QED BY <1>3, <2>1, <2>2 DEF Phases, FoundShown, StoredKept
<1>10. CASE Region!SuggestDone \/ Region!SuggestError
  <2>1. /\ inventory = "suggestingCidr" /\ inventory' = "discoveringHosts"
        /\ UNCHANGED <<scanned, hostsReply>> /\ UNCHANGED Region!server
    BY <1>10 DEF Region!SuggestDone, Region!SuggestError
  <2>2. HandlersInv'
    BY <1>1, <2>1, ServerKept
  <2>. QED BY <1>1, <1>3, <2>1, <2>2 DEF Phases, FoundShown, StoredKept
<1>11. CASE Region!DiscoverRead
  <2>1. Region!Read("discover") /\ scanned = None /\ UNCHANGED <<inventory, scanned, hostsReply>>
    BY <1>11 DEF Region!DiscoverRead
  <2>2. HandlersInv' /\ undone' = undone
    BY <1>1, <1>2, <2>1, ReadKeeps DEF Region!Read
  <2>. QED BY <1>4, <2>1, <2>2
<1>12. CASE Region!DiscoverAnswer
  <2>1. /\ inventory = "discoveringHosts" /\ scanned = None
        /\ UNCHANGED <<inventory, hostsReply>>
    BY <1>12 DEF Region!DiscoverAnswer
  <2>2. hostsReply = None
    BY <1>1, <2>1 DEF Phases
  <2>3. HandlersInv' /\ (~overlapped => srvHosts \subseteq srvHosts')
    BY <1>1, <1>12, ScanStored
  <2>. QED BY <1>3, <2>1, <2>2, <2>3 DEF Phases, FoundShown, StoredKept
<1>13. CASE Region!DiscoverGet
  <2>1. /\ inventory = "discoveringHosts" /\ scanned # None /\ hostsReply' = srvHosts
        /\ UNCHANGED <<inventory, scanned>> /\ UNCHANGED Region!server
    BY <1>13 DEF Region!DiscoverGet
  <2>2. HandlersInv' /\ undone' = undone
    BY <1>1, <2>1, ServerKept DEF Region!server
  <2>3. undone \/ scanned \subseteq srvHosts
    BY <1>1, <2>1 DEF HandlersInv, Stored
  <2>. QED BY <1>3, <2>1, <2>2, <2>3 DEF Phases, FoundShown, StoredKept
<1>14. CASE Region!DiscoverDone
  <2>1. /\ inventory = "discoveringHosts" /\ inventory' = "idle" /\ hostsReply # None
        /\ knownHosts' = hostsReply /\ UNCHANGED <<scanned, hostsReply>> /\ UNCHANGED Region!server
    BY <1>14 DEF Region!DiscoverDone
  <2>2. HandlersInv'
    BY <1>1, <2>1, ServerKept
  <2>. QED BY <1>1, <1>3, <2>1, <2>2 DEF Phases, FoundShown, StoredKept
<1>15. CASE Region!DiscoverError
  <2>1. /\ Region!Fails("discover") /\ (scanned = None \/ hostsReply = None)
        /\ inventory' = "idle" /\ UNCHANGED <<scanned, hostsReply>>
    BY <1>15 DEF Region!DiscoverError
  <2>2. HandlersInv'
    BY <1>1, <1>2, <2>1, FailsKeeps
  <2>. QED BY <1>3, <2>1, <2>2 DEF Phases, FoundShown, StoredKept
<1>16. CASE Region!DeviceResolve \/ Region!ResolveGet \/ Region!ResolveDone
  <2>1. UNCHANGED <<inventory, scanned, hostsReply>> /\ UNCHANGED Region!server
    BY <1>16 DEF Region!DeviceResolve, Region!ResolveGet, Region!ResolveDone
  <2>2. HandlersInv' /\ undone' = undone
    BY <1>1, <2>1, ServerKept DEF Region!server
  <2>. QED BY <1>4, <2>1, <2>2
<1>17. CASE Region!ResolveRead
  <2>1. Region!Read("resolve") /\ UNCHANGED <<inventory, scanned, hostsReply>>
    BY <1>17 DEF Region!ResolveRead
  <2>2. HandlersInv' /\ undone' = undone
    BY <1>1, <1>2, <2>1, ReadKeeps DEF Region!Read
  <2>. QED BY <1>4, <2>1, <2>2
<1>18. CASE Region!ResolveAnswer
  <2>1. PICK found \in SUBSET Inventory : Region!Write("resolve", found)
    BY <1>18 DEF Region!ResolveAnswer
  <2>2. UNCHANGED <<inventory, scanned, hostsReply>>
    BY <1>18 DEF Region!ResolveAnswer
  <2>. QED BY <1>1, <1>2, <1>4, <2>1, <2>2, WriteKeeps, WriteUndoes
<1>19. CASE Region!ResolveError
  <2>1. Region!Fails("resolve") /\ UNCHANGED <<inventory, scanned, hostsReply>>
    BY <1>19 DEF Region!ResolveError
  <2>2. HandlersInv' /\ undone' = undone
    BY <1>1, <1>2, <2>1, FailsKeeps DEF Region!Fails
  <2>. QED BY <1>4, <2>1, <2>2
<1>20. CASE Region!Unheard
  <2>1. UNCHANGED <<inventory, scanned, hostsReply>>
    BY <1>20 DEF Region!Unheard
  <2>2. PICK o \in Others : Region!Read(o) \/ \E found \in SUBSET Inventory : Region!Write(o, found)
    BY <1>20 DEF Region!Unheard, Region!HostSets
  <2>3. o \in Region!Handlers /\ o # "discover"
    BY <1>2
  <2>4. CASE Region!Read(o)
    <3>1. HandlersInv' /\ undone' = undone
      BY <1>1, <2>1, <2>3, <2>4, ReadKeeps DEF Region!Read
    <3>. QED BY <1>4, <2>1, <3>1
  <2>5. ASSUME NEW found \in SUBSET Inventory, Region!Write(o, found) PROVE Fine
    BY <1>1, <1>4, <2>1, <2>3, <2>5, WriteKeeps, WriteUndoes
  <2>. QED BY <2>2, <2>4, <2>5
<1>. QED BY <1>5, <1>6, <1>7, <1>8, <1>9, <1>10, <1>11, <1>12, <1>13, <1>14, <1>15, <1>16,
            <1>17, <1>18, <1>19, <1>20 DEF Region!Next

-----------------------------------------------------------------------------
(* The three together *)

ClientInv ==
  /\ StreamInv /\ ConvInv /\ RegionInv
  /\ running = "operations" => OpsInv
  /\ running = "stream" => overlaid = {}

\* It holds when a page is opened.
LEMMA ClientInit == Init => ClientInv
<1>. SUFFICES ASSUME Init PROVE ClientInv
  OBVIOUS
<1>1. Operations!Init /\ Region!Init
  BY DEF Init
<1>2. /\ real \in [Uuids -> {0, 1}] /\ feed = Stream!EmptyMap /\ powerFeed = Stream!EmptyMap
      /\ conn = "none" /\ wire = <<>> /\ source = "connecting" /\ reconnectTimer = FALSE
      /\ retryIndex = 0 /\ closed = FALSE /\ monitor = "connecting"
      /\ deviceStates = Stream!EmptyMap /\ devicePower = Stream!EmptyMap
  BY <1>1 DEF Operations!Init, Operations!StreamInit, Operations!EmptyMap, Stream!EmptyMap
<1>3. StreamInv
  <2>1. wire \in Seq(Event) /\ Len(wire) <= MaxWire /\ retryIndex \in 0 .. Delays - 1
    BY <1>2, StreamBounds
  <2>. QED BY <1>2, <2>1, EmptyTyped DEF StreamInv, StreamSound, Stream!StreamTypeOK,
           Stream!OneConnection, Stream!MonitorFollowsSource
<1>4. ConvInv
  BY <1>2 DEF ConvInv
<1>5. OpsInv
  BY <1>1, <1>2, EmptyTyped DEF Operations!Init, OpsInv, Operations!RollbackOwned,
     Operations!OptimismAnswered
<1>6. RegionInv
  <2>1. copies \in [Region!Handlers -> Copy \cup {None}] /\ copies["discover"] = None
    BY <1>1 DEF Region!Init, Region!Handlers
  <2>. QED BY <1>1, <2>1 DEF Region!Init, Region!HostSets, RegionInv, Stored, Merging
<1>7. overlaid = {}
  BY <1>1 DEF Operations!Init
<1>. QED BY <1>3, <1>4, <1>5, <1>6, <1>7 DEF ClientInv

\* Every step of whichever part runs keeps it, and what a step of the inventory region
\* may not do is not done.
LEMMA ClientStep ==
  ASSUME ClientInv, [Next]_vars
  PROVE  ClientInv' /\ FoundShown /\ StoredKept
<1>. USE DEF ClientInv
<1>1. ASSUME UNCHANGED streamVars, UNCHANGED operationsVars
      PROVE  StreamInv' /\ ConvInv' /\ (OpsInv => OpsInv') /\ overlaid' = overlaid
  <2>1. UNCHANGED <<Operations!streamSpecVars, overlaid>>
    BY <1>1 DEF streamVars, operationsVars, Operations!streamSpecVars, Operations!streamVars,
       Operations!serverVars, Operations!shownVars
  <2>2. StreamInv' /\ ConvInv' /\ UNCHANGED <<deviceStates, closed>>
    BY <2>1, StillStream
  <2>3. UNCHANGED <<operations, activeDeviceUuid, toggleRollback, wanted, answered, overlaid>>
    BY <1>1 DEF operationsVars
  <2>. QED BY <2>2, <2>3, QuietStep
<1>2. ASSUME UNCHANGED inventoryVars
      PROVE  RegionInv' /\ FoundShown /\ StoredKept
  <2>1. UNCHANGED <<inventory, scanned, hostsReply, srvHosts, copies, overlapped, undone>>
    BY <1>2 DEF inventoryVars
  <2>. QED BY <2>1 DEF RegionInv, Stored, Merging, FoundShown, StoredKept
<1>3. CASE running = "stream" /\ Stream!StreamNext /\ UNCHANGED <<running, operationsVars, inventoryVars>>
  <2>1. UNCHANGED overlaid
    BY <1>3 DEF operationsVars
  <2>. QED BY <1>2, <1>3, <2>1, StreamStep
<1>4. CASE running = "operations" /\ Operations!Next /\ UNCHANGED <<running, inventoryVars>>
  BY <1>2, <1>4, OperationsStep
<1>5. CASE running = "inventory" /\ Region!Next /\ UNCHANGED <<running, streamVars, operationsVars>>
  BY <1>1, <1>5, RegionStep
<1>6. CASE UNCHANGED vars
  BY <1>1, <1>2, <1>6 DEF vars
<1>. QED BY <1>3, <1>4, <1>5, <1>6 DEF Next

\* A page never leaves the invariant.
LEMMA ClientInvariant == Spec => []ClientInv
<1>1. ClientInv /\ [Next]_vars => ClientInv'
  BY ClientStep
<1>. QED BY <1>1, ClientInit, PTL DEF Spec

\* The actor has one EventSource or one timer, its delay stays in the list and the
\* banner speaks of the connection in use, for any number of failures and delays.
THEOREM StreamAlwaysSound == Spec => []StreamSound
<1>1. ClientInv => StreamSound
  BY DEF ClientInv, StreamInv
<1>. QED BY <1>1, ClientInvariant, PTL

\* For any devices and readings, whatever connections were lost with events in flight,
\* a connected client that reads its queue shows what the server published, but for an
\* entry a toggle of its own has written over since.
THEOREM ShownAlwaysConverges == Spec => []ShownConverges
<1>1. ClientInv => ShownConverges
  <2>. SUFFICES ASSUME ClientInv PROVE ShownConverges
    OBVIOUS
  <2>1. ASSUME conn = "up", NEW u \in DOMAIN feed \ overlaid
        PROVE  Stream!WillShow(deviceStates, Stream!StatesSaid, u, feed[u])
    BY <2>1, ConvergingShows DEF ClientInv, ConvInv
  <2>2. ASSUME conn = "up", NEW u \in DOMAIN powerFeed
        PROVE  Stream!WillShow(devicePower, Stream!ReadingsSaid, u, powerFeed[u])
    <3>. DEFINE over == {}
    <3>1. Converging(powerFeed, devicePower, Stream!ReadingsSaid, over) /\ u \in DOMAIN powerFeed \ over
      BY <2>2 DEF ClientInv, ConvInv
    <3>. HIDE DEF over
    <3>. QED BY <3>1, ConvergingShows
  <2>3. running = "stream" => Stream!StreamConverges /\ Stream!PowerConverges
    BY <2>1, <2>2 DEF ClientInv, Stream!StreamConverges, Stream!PowerConverges
  <2>4. Operations!ConvergesUnlessOverlaid
    <3>1. Operations!StatesSaid = Stream!StatesSaid
      BY DEF Operations!StatesSaid, Stream!StatesSaid, Operations!StatesIn, Stream!StatesIn,
         Operations!EmptyMap, Stream!EmptyMap
    <3>2. \A shown, said, u, s :
            Operations!WillShow(shown, said, u, s) = Stream!WillShow(shown, said, u, s)
      BY DEF Operations!WillShow, Stream!WillShow, Operations!Speaking, Stream!Speaking
    <3>. QED BY <2>1, <3>1, <3>2 DEF Operations!ConvergesUnlessOverlaid
  <2>. QED BY <2>3, <2>4 DEF ShownConverges
<1>. QED BY <1>1, ClientInvariant, PTL

\* For any devices, a rollback belongs to the toggle under way, and an optimistic entry
\* that outlives its toggle is that of a command the device answered, whatever events,
\* reconnects and failures come between.
THEOREM OptimismAlwaysOwned == Spec => []OptimismOwned
<1>1. ClientInv => OptimismOwned
  BY DEF ClientInv, OpsInv, OptimismOwned
<1>. QED BY <1>1, ClientInvariant, PTL

\* Whatever handlers read and write the config meanwhile, a scan that ends has shown every
\* address it found and has taken none away, unless one of them wrote back what it had
\* read before; for any devices, ranges and handlers.
THEOREM InventoryAlwaysKept == Spec => InventoryKept
<1>1. ClientInv /\ [Next]_vars =>
        [(inventory = "discoveringHosts" /\ inventory' = "idle" /\ scanned # None /\ hostsReply # None)
           => scanned \subseteq knownHosts' \/ undone]_(Region!vars)
  BY ClientStep DEF FoundShown
<1>2. ClientInv /\ [Next]_vars =>
        [scanned = None /\ scanned' # None /\ ~overlapped => srvHosts \subseteq srvHosts']_(Region!vars)
  BY ClientStep DEF StoredKept
<1>. QED BY <1>1, <1>2, ClientInvariant, PTL
         DEF Spec, InventoryKept, Region!FoundHostsShown, Region!StoredHostsKept
=============================================================================
