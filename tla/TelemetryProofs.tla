--------------------------- MODULE TelemetryProofs ---------------------------
(***************************************************************************)
(* Theorems about Telemetry, for any set of topics, any number of seconds  *)
(* and any number of sessions cut short.                                   *)
(*                                                                         *)
(* The properties speak of the queue and of what has been published.  They *)
(* hold because the holder under collection is never one the event loop    *)
(* may have: that is what Collecting adds to them.  That publication is    *)
(* complete and in order needs more: it is in the second part (UncutInv).  *)
(***************************************************************************)
EXTENDS Telemetry, SequenceTheorems, TLAPS

\* The event loop has, or will have, the record ref.
HandedOver(ref) ==
  \/ \E j \in 1 .. Len(telemetry_queue) : telemetry_queue[j] = ref
  \/ processing = "writing" /\ cdh = ref

OneSecond(r) == \A k \in Components : r.data[k] \in {0, r.timestamp}

(* The holder of a topic is of that topic, and it has been handed over     *)
(* only between the two statements that queue it and that replace it.      *)
Collecting ==
  \A t \in Topics : channel_data[t] # 0 =>
    /\ holder[channel_data[t]].topic = t
    /\ HandedOver(channel_data[t]) => callback = "replace" /\ t = sample.topic

(* Samples go to a holder with their timestamp, and what is written is     *)
(* there.                                                                  *)
Hands ==
  /\ callback = "fill" =>
       current # 0 /\ holder[current].timestamp = sample.timestamp
  /\ processing = "writing" => cdh # 0

TelemetryInv ==
  /\ TelemetryTypeOK
  /\ \A i \in 1 .. Len(holder) : OneSecond(holder[i])
  /\ \A i \in 1 .. Len(written) : OneSecond(written[i])
  /\ Collecting
  /\ Hands

-----------------------------------------------------------------------------
(* A holder that has just been made, and one that a component has been     *)
(* filled into, are holders of one second.                                 *)
LEMMA NewHolder ==
  ASSUME NEW s \in Samples
  PROVE  LET h == [topic |-> s.topic, data |-> NoData, timestamp |-> s.timestamp] IN
         h \in Holders /\ OneSecond(h)
<1>1. s.topic \in Topics /\ s.timestamp \in 1 .. LastSecond
  BY DEF Samples
<1>2. NoData \in [Components -> 0 .. LastSecond]
  BY TelemetryAssumption DEF NoData
<1> QED
  BY <1>1, <1>2 DEF Holders, NoData, OneSecond

LEMMA FilledHolder ==
  ASSUME NEW h \in Holders, OneSecond(h), NEW k \in Components
  PROVE  LET g == [h EXCEPT !.data[k] = h.timestamp] IN
         /\ g \in Holders /\ OneSecond(g)
         /\ g.topic = h.topic /\ g.timestamp = h.timestamp
<1>1. h.timestamp \in 0 .. LastSecond
  BY TelemetryAssumption DEF Holders
<1> QED
  BY <1>1 DEF Holders, OneSecond

(* The first state.                                                        *)
LEMMA InitTelemetry == ASSUME Init PROVE TelemetryInv
<1>1. sample \in Samples
  BY DEF Init
<1>2. TelemetryTypeOK
  BY <1>1, TelemetryAssumption DEF Init, TelemetryTypeOK
<1> QED
  BY <1>2 DEF Init, TelemetryInv, Collecting, Hands

-----------------------------------------------------------------------------
(* The station thread.                                                     *)

(* A callback begins.                                                      *)
LEMMA SecdataKeeps == ASSUME TelemetryInv, secdata_callback PROVE TelemetryInv'
<1> USE DEF TelemetryInv
<1>1. TelemetryTypeOK'
  <2>1. sample' \in Samples
    BY DEF secdata_callback, TelemetryTypeOK, Samples
  <2> QED
    BY <2>1 DEF secdata_callback, loop, TelemetryTypeOK
<1>2. Collecting'
  BY DEF secdata_callback, loop, Collecting, HandedOver
<1> QED
  BY <1>1, <1>2 DEF secdata_callback, loop, Hands, OneSecond

(* The record in hand is queued: from here to replace it is handed over.   *)
LEMMA CompareKeeps == ASSUME TelemetryInv, compare PROVE TelemetryInv'
<1> USE DEF TelemetryInv
<1>1. current \in 0 .. Len(holder) /\ sample.topic \in Topics
  BY DEF TelemetryTypeOK, Samples, current
<1>2. CASE current # 0 /\ holder[current].timestamp = sample.timestamp
  <2>1. Hands'
    BY <1>2 DEF compare, loop, Hands, current
  <2> QED
    BY <1>2, <2>1 DEF compare, loop, TelemetryTypeOK, Collecting, HandedOver, OneSecond
<1>3. CASE /\ ~(current # 0 /\ holder[current].timestamp = sample.timestamp)
           /\ current = 0
  BY <1>3 DEF compare, loop, TelemetryTypeOK, Collecting, HandedOver, Hands, OneSecond
<1>4. CASE /\ ~(current # 0 /\ holder[current].timestamp = sample.timestamp)
           /\ current # 0
  <2>1. telemetry_queue' = Append(telemetry_queue, current) /\ callback' = "replace"
    BY <1>4 DEF compare
  <2>2. TelemetryTypeOK'
    BY <1>1, <1>4, <2>1 DEF compare, loop, TelemetryTypeOK
  <2>3. ASSUME NEW ref, HandedOver(ref)' PROVE HandedOver(ref) \/ ref = current
    BY <1>1, <2>1, <2>3 DEF compare, loop, HandedOver, TelemetryTypeOK
  <2>4. Collecting'
    <3> SUFFICES ASSUME NEW t \in Topics, channel_data[t] # 0
                 PROVE  /\ holder[channel_data[t]].topic = t
                        /\ HandedOver(channel_data[t])' => t = sample.topic
      BY <2>1 DEF compare, loop, Collecting, HandedOver
    <3>1. HandedOver(channel_data[t])' => t = sample.topic
      BY <1>1, <1>4, <2>3 DEF compare, loop, Collecting, current
    <3> QED
      BY <3>1 DEF Collecting
  <2> QED
    BY <2>1, <2>2, <2>4 DEF compare, loop, Hands, OneSecond
<1> QED
  BY <1>2, <1>3, <1>4

(* A new holder, which nobody can have been handed.                        *)
LEMMA ReplaceKeeps == ASSUME TelemetryInv, replace PROVE TelemetryInv'
<1> USE DEF TelemetryInv
<1> DEFINE h == [topic |-> sample.topic, data |-> NoData,
                 timestamp |-> sample.timestamp]
           new == Len(holder) + 1
<1>1. h \in Holders /\ OneSecond(h) /\ h.topic = sample.topic
      /\ h.timestamp = sample.timestamp /\ sample.topic \in Topics
  BY NewHolder DEF TelemetryTypeOK, Samples
<1>2. holder' = Append(holder, h)
  BY DEF replace
<1> HIDE DEF h
<1>3. /\ holder \in Seq(Holders) /\ holder' \in Seq(Holders) /\ Len(holder') = new
      /\ new \in Nat \ {0} /\ holder'[new] = h
      /\ \A i \in 1 .. Len(holder) : holder'[i] = holder[i]
  BY <1>1, <1>2 DEF TelemetryTypeOK
<1>4. channel_data' = [channel_data EXCEPT ![sample.topic] = new]
  BY <1>3 DEF replace
<1>5. TelemetryTypeOK'
  BY <1>1, <1>3, <1>4 DEF replace, loop, TelemetryTypeOK
<1>6. \A i \in 1 .. Len(holder') : OneSecond(holder'[i])
  BY <1>1, <1>3
<1>7. Collecting'
  <2>1. \A ref : HandedOver(ref)' <=> HandedOver(ref)
    BY DEF replace, loop, HandedOver
  <2>2. ~HandedOver(new)
    BY <1>3 DEF HandedOver, TelemetryTypeOK
  <2> SUFFICES ASSUME NEW t \in Topics, channel_data'[t] # 0
               PROVE  /\ holder'[channel_data'[t]].topic = t
                      /\ ~HandedOver(channel_data'[t])
    BY <2>1 DEF Collecting
  <2>3. CASE t = sample.topic
    BY <1>1, <1>3, <1>4, <2>2, <2>3 DEF TelemetryTypeOK
  <2>4. CASE t # sample.topic
    <3>1. channel_data'[t] = channel_data[t] /\ channel_data[t] \in 1 .. Len(holder)
      BY <1>4, <2>4 DEF TelemetryTypeOK
    <3>2. holder[channel_data[t]].topic = t /\ ~HandedOver(channel_data[t])
      BY <2>4, <3>1 DEF Collecting
    <3> QED
      BY <1>3, <3>1, <3>2
  <2> QED
    BY <2>3, <2>4
<1>8. Hands'
  <2>1. current' = new
    BY <1>1, <1>4 DEF current, replace, TelemetryTypeOK
  <2> QED
    BY <1>1, <1>3, <2>1 DEF replace, loop, Hands, TelemetryTypeOK
<1> QED
  BY <1>5, <1>6, <1>7, <1>8 DEF replace, loop, OneSecond

(* The samples go to a holder that is not handed over.                     *)
LEMMA FillKeeps == ASSUME TelemetryInv, fill PROVE TelemetryInv'
<1> USE DEF TelemetryInv
<1> DEFINE h == holder[current]
           g == [h EXCEPT !.data[sample.component] = h.timestamp]
<1>1. current \in 1 .. Len(holder) /\ sample.component \in Components
      /\ h.timestamp = sample.timestamp
  BY DEF fill, loop, Hands, TelemetryTypeOK, Samples, current
<1>2. h \in Holders /\ OneSecond(h)
  BY <1>1 DEF TelemetryTypeOK
<1>3. holder' = [holder EXCEPT ![current] = g]
  BY <1>1 DEF fill
<1>4. g \in Holders /\ OneSecond(g) /\ g.topic = h.topic /\ g.timestamp = h.timestamp
  <2> HIDE DEF h
  <2> QED
    BY <1>1, <1>2, FilledHolder
<1> HIDE DEF g
<1>5. /\ holder' \in Seq(Holders) /\ Len(holder') = Len(holder)
      /\ \A i \in 1 .. Len(holder) : holder'[i] = IF i = current THEN g ELSE holder[i]
  BY <1>1, <1>3, <1>4 DEF TelemetryTypeOK
<1>6. TelemetryTypeOK'
  BY <1>5 DEF fill, loop, TelemetryTypeOK
<1>7. \A i \in 1 .. Len(holder') : OneSecond(holder'[i])
  BY <1>4, <1>5
<1>8. Collecting'
  <2> SUFFICES ASSUME NEW t \in Topics, channel_data[t] # 0
               PROVE  /\ holder'[channel_data[t]].topic = t
                      /\ ~HandedOver(channel_data[t])
    BY DEF fill, loop, Collecting, HandedOver
  <2> QED
    BY <1>4, <1>5 DEF fill, loop, Collecting, TelemetryTypeOK
<1> QED
  BY <1>6, <1>7, <1>8 DEF fill, loop, Hands, OneSecond

(* The Q330 goes on to another second.                                     *)
LEMMA SourceKeeps == ASSUME TelemetryInv, NextSecond \/ Cut PROVE TelemetryInv'
<1>1. TelemetryTypeOK'
  BY TelemetryAssumption DEF TelemetryInv, NextSecond, Cut, TelemetryTypeOK, loop
<1> QED
  BY <1>1 DEF TelemetryInv, NextSecond, Cut, Collecting, HandedOver, Hands,
              OneSecond, current, loop

-----------------------------------------------------------------------------
(* The event loop.                                                         *)

(* What is taken from the queue stays handed over.                         *)
LEMMA GetKeeps == ASSUME TelemetryInv, get PROVE TelemetryInv'
<1> USE DEF TelemetryInv
<1>1. /\ telemetry_queue \in Seq(1 .. Len(holder)) /\ telemetry_queue # << >>
      /\ Len(holder) \in Nat /\ holder \in Seq(Holders)
  BY DEF TelemetryTypeOK, get
<1>2. /\ Head(telemetry_queue) \in 1 .. Len(holder)
      /\ Tail(telemetry_queue) \in Seq(1 .. Len(holder))
  BY <1>1
<1>3. TelemetryTypeOK'
  BY <1>1, <1>2 DEF get, station, TelemetryTypeOK
<1>4. ASSUME NEW ref, HandedOver(ref)' PROVE HandedOver(ref)
  <2>1. CASE cdh' = ref
    BY <1>1, <2>1 DEF get, HandedOver
  <2>2. CASE \E j \in 1 .. Len(telemetry_queue') : telemetry_queue'[j] = ref
    BY <1>1, <2>2 DEF get, HandedOver
  <2> QED
    BY <1>4, <2>1, <2>2 DEF HandedOver
<1>5. Collecting'
  BY <1>4 DEF get, station, Collecting
<1> QED
  BY <1>2, <1>3, <1>5 DEF get, station, Hands, OneSecond, current

(* The record that has been written is let go.                             *)
LEMMA WriteKeeps ==
  ASSUME TelemetryInv, set_write \/ set_write_fails PROVE TelemetryInv'
<1> USE DEF TelemetryInv
<1>1. cdh \in 1 .. Len(holder) /\ holder \in Seq(Holders) /\ written \in Seq(Holders)
  BY DEF set_write, set_write_fails, Hands, TelemetryTypeOK
<1>2. holder[cdh] \in Holders /\ OneSecond(holder[cdh])
  BY <1>1
<1>3. TelemetryTypeOK'
  <2>1. written' \in Seq(Holders)
    BY <1>1, <1>2 DEF set_write, set_write_fails
  <2> QED
    BY <2>1 DEF set_write, set_write_fails, station, TelemetryTypeOK
<1>4. \A i \in 1 .. Len(written') : OneSecond(written'[i])
  BY <1>1, <1>2 DEF set_write, set_write_fails, OneSecond
<1>5. Collecting' /\ Hands'
  BY DEF set_write, set_write_fails, station, Collecting, HandedOver, Hands, current
<1> QED
  BY <1>3, <1>4, <1>5 DEF set_write, set_write_fails, OneSecond

-----------------------------------------------------------------------------
(* The invariant holds of every reachable state.                           *)
THEOREM TelemetryInvariant == Spec => []TelemetryInv
<1>1. Init => TelemetryInv
  BY InitTelemetry
<1>2. TelemetryInv /\ [Next]_vars => TelemetryInv'
  <2> SUFFICES ASSUME TelemetryInv, [Next]_vars PROVE TelemetryInv'
    OBVIOUS
  <2>1. CASE Station
    BY <2>1, SecdataKeeps, CompareKeeps, ReplaceKeeps, FillKeeps, SourceKeeps
    DEF Station
  <2>2. CASE EventLoop
    BY <2>2, GetKeeps, WriteKeeps DEF EventLoop
  <2>3. CASE UNCHANGED vars
    BY <2>3 DEF vars, station, loop, TelemetryInv, TelemetryTypeOK, Collecting,
                HandedOver, Hands, OneSecond, current
  <2> QED
    BY <2>1, <2>2, <2>3 DEF Next
<1> QED
  BY <1>1, <1>2, PTL DEF Spec

(* Type correctness, for any number of seconds and topics.                 *)
THEOREM TelemetryTypes == Spec => []TelemetryTypeOK
<1>1. TelemetryInv => TelemetryTypeOK
  BY DEF TelemetryInv
<1> QED
  BY <1>1, TelemetryInvariant, PTL

(* No published record mixes the samples of two seconds.                   *)
THEOREM RecordsOfOneSecond == Spec => []OneSecondPerRecord
<1>1. TelemetryInv => OneSecondPerRecord
  BY DEF TelemetryInv, OneSecond, OneSecondPerRecord
<1> QED
  BY <1>1, TelemetryInvariant, PTL

(* A record that the event loop has, or will have, is not written to.      *)
THEOREM QueuedIsFrozen == Spec => FrozenOnceQueued
<1> DEFINE Frozen == \A i \in 1 .. Len(holder) :
                       HandedOver(i) => holder'[i] = holder[i]
<1>1. TelemetryInv /\ [Next]_vars => Frozen
  <2> SUFFICES ASSUME TelemetryInv, [Next]_vars, NEW i \in 1 .. Len(holder),
                      HandedOver(i)
               PROVE  holder'[i] = holder[i]
    OBVIOUS
  <2>1. CASE fill
    <3>1. current # i /\ holder \in Seq(Holders)
      BY <2>1 DEF fill, TelemetryInv, TelemetryTypeOK, Samples, Collecting,
                  Hands, current
    <3> QED
      BY <2>1, <3>1 DEF fill
  <2>2. CASE replace
    BY <2>2 DEF replace, TelemetryInv, TelemetryTypeOK
  <2>3. CASE UNCHANGED holder
    BY <2>3
  <2> QED
    BY <2>1, <2>2, <2>3 DEF Next, Station, EventLoop, secdata_callback, compare,
         NextSecond, Cut, get, set_write, set_write_fails, vars
<1>2. TelemetryInv /\ [Next]_vars =>
        [\A i \in 1 .. Len(holder) :
           \/ \E j \in 1 .. Len(telemetry_queue) : telemetry_queue[j] = i
           \/ processing = "writing" /\ cdh = i
           => holder'[i] = holder[i]]_vars
  BY <1>1 DEF HandedOver
<1> QED
  BY <1>2, TelemetryInvariant, PTL DEF Spec, FrozenOnceQueued

-----------------------------------------------------------------------------
(* What holds while no session has been cut short.  A record that is out   *)
(* (queued, in hand or published) is complete and older than what its      *)
(* topic collects now; and what is out, is out in order.                   *)

Out ==
  {written[i] : i \in 1 .. Len(written)}
    \union {holder[ref] : ref \in {x \in 1 .. Len(holder) : HandedOver(x)}}

Before(r, s) == r.topic = s.topic => r.timestamp < s.timestamp

\* The sample of topic t and component k is still on its way to its holder.
Awaited(t, k) ==
  callback # "idle" /\ sample.topic = t /\ sample.component = k

(* The holder of a topic has exactly the samples of the second that have   *)
(* come, or it is a complete one of a second before.                       *)
UnderWay ==
  /\ callback # "idle" => sample.timestamp = second
  /\ callback = "replace" /\ current # 0 => holder[current].timestamp # second
  /\ \A t \in Topics : channel_data[t] # 0 =>
       /\ holder[channel_data[t]].timestamp <= second
       /\ holder[channel_data[t]].timestamp < second
            => Complete(holder[channel_data[t]])
  /\ \A t \in Topics, k \in Components :
       <<t, k>> \in arrived /\ ~Awaited(t, k) =>
         /\ channel_data[t] # 0
         /\ holder[channel_data[t]].timestamp = second
         /\ holder[channel_data[t]].data[k] = second

OutIsOlder ==
  \A r \in Out :
    /\ Complete(r)
    /\ IF callback = "replace" /\ r.topic = sample.topic
       THEN r.timestamp < second
       ELSE /\ channel_data[r.topic] # 0
            /\ r.timestamp < holder[channel_data[r.topic]].timestamp

WrittenInOrder ==
  \A i, j \in 1 .. Len(written) : i < j => Before(written[i], written[j])

QueuedInOrder ==
  \A i, j \in 1 .. Len(telemetry_queue) :
    i < j => Before(holder[telemetry_queue[i]], holder[telemetry_queue[j]])

QueuedAfterWritten ==
  \A i \in 1 .. Len(written), j \in 1 .. Len(telemetry_queue) :
    Before(written[i], holder[telemetry_queue[j]])

InHandBetween ==
  processing = "writing" =>
    /\ \A i \in 1 .. Len(written) : Before(written[i], holder[cdh])
    /\ \A j \in 1 .. Len(telemetry_queue) :
         Before(holder[cdh], holder[telemetry_queue[j]])

OutInOrder ==
  WrittenInOrder /\ QueuedInOrder /\ QueuedAfterWritten /\ InHandBetween

UncutInv == cuts = 0 => UnderWay /\ OutIsOlder /\ OutInOrder

(* What is out are records, of topics there are.                           *)
LEMMA OutTypes ==
  ASSUME TelemetryInv
  PROVE  /\ \A i \in 1 .. Len(holder) : /\ holder[i] \in Holders
                                       /\ holder[i].topic \in Topics
                                       /\ holder[i].timestamp \in Nat
         /\ \A r \in Out : r.topic \in Topics /\ r.timestamp \in Nat
         /\ \A i \in 1 .. Len(written) : written[i] \in Out
         /\ \A x : HandedOver(x) => holder[x] \in Out
<1>1. \A h \in Holders : h.topic \in Topics /\ h.timestamp \in Nat
  BY DEF Holders
<1>2. \A i \in 1 .. Len(holder) : holder[i] \in Holders
  BY DEF TelemetryInv, TelemetryTypeOK
<1>3. \A i \in 1 .. Len(written) : written[i] \in Holders /\ written[i] \in Out
  BY DEF TelemetryInv, TelemetryTypeOK, Out
<1>4. \A x : HandedOver(x) => x \in 1 .. Len(holder) /\ holder[x] \in Out
  <2> SUFFICES ASSUME NEW x, HandedOver(x)
               PROVE  x \in 1 .. Len(holder) /\ holder[x] \in Out
    OBVIOUS
  <2>1. /\ telemetry_queue \in Seq(1 .. Len(holder))
        /\ cdh \in 0 .. Len(holder) /\ Len(holder) \in Nat
        /\ processing = "writing" => cdh # 0
    BY DEF TelemetryInv, TelemetryTypeOK, Hands
  <2>2. x \in 1 .. Len(holder)
    BY <2>1 DEF HandedOver
  <2> QED
    BY <2>2 DEF Out
<1>5. Out \subseteq Holders
  BY <1>2, <1>3 DEF Out
<1> QED
  BY <1>1, <1>2, <1>3, <1>4, <1>5

(* A record that is out stays as it is; so the order of what is out can    *)
(* change only where the queue does.                                       *)
LEMMA OutStays ==
  ASSUME TelemetryInv, OutIsOlder, OutInOrder,
         UNCHANGED <<telemetry_queue, cdh, processing, written>>,
         Len(holder') >= Len(holder),
         \A i \in 1 .. Len(holder) : HandedOver(i) => holder'[i] = holder[i]
  PROVE  Out' = Out /\ OutInOrder'
<1>1. \A x : HandedOver(x)' <=> HandedOver(x)
  BY DEF HandedOver
<1>2. \A x : HandedOver(x) => x \in 1 .. Len(holder)
  BY SMTT(30) DEF HandedOver, TelemetryInv, TelemetryTypeOK, Hands
<1>3. \A x : HandedOver(x) => holder'[x] = holder[x]
  BY <1>2
<1>4. Len(holder) \in Nat /\ Len(holder') >= Len(holder)
  BY DEF TelemetryInv, TelemetryTypeOK
<1>5. {x \in 1 .. Len(holder) : HandedOver(x)}' = {x \in 1 .. Len(holder) : HandedOver(x)}
  BY <1>1, <1>2, <1>4, TelemetryAssumption
<1>6. Out' = Out
  BY <1>3, <1>5 DEF Out
<1>7. \A j \in 1 .. Len(telemetry_queue) :
        holder'[telemetry_queue[j]] = holder[telemetry_queue[j]]
  BY <1>3 DEF HandedOver
<1>8. processing = "writing" => holder'[cdh] = holder[cdh]
  BY <1>3 DEF HandedOver
<1>9. OutInOrder'
  <2>1. WrittenInOrder' /\ QueuedAfterWritten'
    BY <1>7 DEF OutInOrder, WrittenInOrder, QueuedAfterWritten, Before
  <2>2. QueuedInOrder'
    BY <1>7 DEF OutInOrder, QueuedInOrder, Before
  <2>3. InHandBetween'
    BY <1>7, <1>8 DEF OutInOrder, InHandBetween, Before
  <2> QED
    BY <2>1, <2>2, <2>3 DEF OutInOrder
<1> QED
  BY <1>6, <1>9

(* The first state.                                                        *)
LEMMA InitUncut == ASSUME Init PROVE UncutInv
<1>1. Out = {}
  BY DEF Init, Out, HandedOver
<1> QED
  BY <1>1 DEF Init, UncutInv, UnderWay, OutIsOlder, OutInOrder, WrittenInOrder,
              QueuedInOrder, QueuedAfterWritten, InHandBetween

(* A callback begins: its sample has come, and is awaited.                 *)
LEMMA SecdataUncut ==
  ASSUME TelemetryInv, UncutInv, cuts = 0, secdata_callback
  PROVE  UnderWay' /\ OutIsOlder' /\ OutInOrder'
<1> USE DEF UncutInv
<1>1. Out' = Out /\ OutInOrder'
  BY OutStays DEF secdata_callback, loop, TelemetryInv, TelemetryTypeOK
<1>2. UnderWay'
  BY DEF secdata_callback, loop, UnderWay, Complete, Awaited
<1>3. OutIsOlder'
  BY <1>1 DEF secdata_callback, loop, OutIsOlder, Complete
<1> QED
  BY <1>1, <1>2, <1>3

(* A record is queued: its topic has gone on to another second, so it is    *)
(* complete, and newer than what went out before.                          *)
LEMMA CompareUncut ==
  ASSUME TelemetryInv, UncutInv, cuts = 0, compare
  PROVE  UnderWay' /\ OutIsOlder' /\ OutInOrder'
<1> USE DEF UncutInv
<1>1. CASE current # 0 /\ holder[current].timestamp = sample.timestamp
  <2>1. Out' = Out /\ OutInOrder'
    BY <1>1, OutStays DEF compare, loop, TelemetryInv, TelemetryTypeOK
  <2>2. UnderWay'
    BY <1>1 DEF compare, loop, UnderWay, Complete, Awaited
  <2>3. OutIsOlder'
    BY <1>1, <2>1 DEF compare, loop, OutIsOlder, Complete
  <2> QED
    BY <2>1, <2>2, <2>3
<1>2. CASE current = 0
  <2>1. Out' = Out /\ OutInOrder'
    BY <1>2, OutStays DEF compare, loop, TelemetryInv, TelemetryTypeOK
  <2>2. UnderWay'
    BY <1>2 DEF compare, loop, UnderWay, Complete, Awaited, current
  <2>3. OutIsOlder'
    BY <1>2, <2>1 DEF compare, loop, OutIsOlder, Complete, current
  <2> QED
    BY <2>1, <2>2, <2>3
<1>3. CASE current # 0 /\ holder[current].timestamp # sample.timestamp
  <2> DEFINE n == Len(telemetry_queue)
             h == holder[current]
  <2>1. /\ current \in 1 .. Len(holder) /\ h \in Holders
        /\ sample.topic \in Topics /\ h.topic = sample.topic
        /\ second \in Nat /\ h.timestamp \in Nat /\ n \in Nat
        /\ telemetry_queue \in Seq(1 .. Len(holder)) /\ Len(holder) \in Nat
    <3>1. current \in 1 .. Len(holder) /\ sample.topic \in Topics
      BY <1>3 DEF TelemetryInv, TelemetryTypeOK, Samples, current
    <3>2. h \in Holders /\ h.timestamp \in Nat
      BY <3>1, OutTypes
    <3>3. h.topic = sample.topic
      BY <1>3, <3>1 DEF TelemetryInv, Collecting, current
    <3> QED
      BY <3>1, <3>2, <3>3 DEF TelemetryInv, TelemetryTypeOK
  <2>2. telemetry_queue' = Append(telemetry_queue, current) /\ callback' = "replace"
        /\ UNCHANGED <<holder, channel_data, sample, second, arrived, cuts, loop>>
        /\ callback = "compare"
    BY <1>3 DEF compare
  <2>3. h.timestamp < second /\ Complete(h)
    BY <1>3, <2>1, <2>2 DEF UnderWay, current
  <2>4. \A r \in Out : r.topic = sample.topic => r.timestamp < h.timestamp
    BY <2>2 DEF OutIsOlder, current
  <2>5. /\ Len(telemetry_queue') = n + 1 /\ telemetry_queue'[n + 1] = current
        /\ \A j \in 1 .. n : telemetry_queue'[j] = telemetry_queue[j]
    BY <2>1, <2>2
  <2>6. Out' \subseteq Out \union {h}
    <3>1. ASSUME NEW x, HandedOver(x)' PROVE HandedOver(x) \/ x = current
      BY <2>1, <2>2, <2>5, <3>1 DEF HandedOver, loop
    <3> QED
      BY <2>2, <3>1 DEF Out, loop
  <2>7. UnderWay'
    BY <1>3, <2>2, <2>3 DEF UnderWay, Complete, Awaited, current
  <2>8. OutIsOlder'
    <3> SUFFICES ASSUME NEW r \in Out'
                 PROVE  /\ Complete(r)
                        /\ IF r.topic = sample.topic
                           THEN r.timestamp < second
                           ELSE /\ channel_data[r.topic] # 0
                                /\ r.timestamp < holder[channel_data[r.topic]].timestamp
      BY <2>2 DEF OutIsOlder, Complete
    <3>1. CASE r = h
      BY <2>1, <2>3, <3>1
    <3>2. CASE r \in Out
      <4>1. r.topic = sample.topic => r.timestamp < second
        <5>1. r.timestamp \in Nat
          BY <3>2, OutTypes
        <5> QED
          BY <2>1, <2>3, <2>4, <3>2, <5>1
      <4> QED
        BY <2>2, <3>2, <4>1 DEF OutIsOlder
    <3> QED
      BY <2>6, <3>1, <3>2
  <2>9. OutInOrder'
    <3>1. /\ \A i \in 1 .. Len(written) : written[i] \in Out
          /\ \A j \in 1 .. n : holder[telemetry_queue[j]] \in Out
          /\ processing = "writing" => holder[cdh] \in Out
      BY OutTypes DEF HandedOver
    <3>2. \A r \in Out : Before(r, h)
      BY <2>1, <2>4 DEF Before
    <3>3. WrittenInOrder'
      BY <2>2 DEF OutInOrder, WrittenInOrder, loop, Before
    <3>4. QueuedInOrder'
      <4> SUFFICES ASSUME NEW i \in 1 .. n + 1, NEW j \in 1 .. n + 1, i < j
                   PROVE  Before(holder[telemetry_queue'[i]], holder[telemetry_queue'[j]])
        BY <2>2, <2>5 DEF QueuedInOrder, Before
      <4>1. i \in 1 .. n /\ (j \in 1 .. n \/ j = n + 1)
        BY <2>1
      <4> QED
        BY <2>5, <3>1, <3>2, <4>1 DEF OutInOrder, QueuedInOrder
    <3>5. QueuedAfterWritten'
      <4> SUFFICES ASSUME NEW i \in 1 .. Len(written), NEW j \in 1 .. n + 1
                   PROVE  Before(written[i], holder[telemetry_queue'[j]])
        BY <2>2, <2>5 DEF QueuedAfterWritten, loop, Before
      <4>1. j \in 1 .. n \/ j = n + 1
        BY <2>1
      <4> QED
        BY <2>5, <3>1, <3>2, <4>1 DEF OutInOrder, QueuedAfterWritten
    <3>6. InHandBetween'
      <4>1. ASSUME processing = "writing", NEW j \in 1 .. n + 1
            PROVE  Before(holder[cdh], holder[telemetry_queue'[j]])
        <5>1. j \in 1 .. n \/ j = n + 1
          BY <2>1
        <5> QED
          BY <2>5, <3>1, <3>2, <4>1, <5>1 DEF OutInOrder, InHandBetween
      <4> QED
        BY <2>2, <2>5, <4>1 DEF OutInOrder, InHandBetween, loop, Before
    <3> QED
      BY <3>3, <3>4, <3>5, <3>6 DEF OutInOrder
  <2> QED
    BY <2>7, <2>8, <2>9
<1> QED
  BY <1>1, <1>2, <1>3

(* The new holder is newer than what is out of its topic, and nothing has  *)
(* come for it but the sample awaited.                                     *)
LEMMA ReplaceUncut ==
  ASSUME TelemetryInv, UncutInv, cuts = 0, replace
  PROVE  UnderWay' /\ OutIsOlder' /\ OutInOrder'
<1> USE DEF UncutInv
<1> DEFINE new == Len(holder) + 1
<1>1. /\ holder \in Seq(Holders) /\ Len(holder) \in Nat
      /\ channel_data \in [Topics -> 0 .. Len(holder)]
      /\ sample.topic \in Topics /\ sample.component \in Components
      /\ second \in Nat /\ sample.timestamp = second
  BY DEF replace, UnderWay, TelemetryInv, TelemetryTypeOK, Samples
<1>2. /\ Len(holder') = new
      /\ holder'[new] = [topic |-> sample.topic, data |-> NoData, timestamp |-> second]
      /\ \A i \in 1 .. Len(holder) : holder'[i] = holder[i]
      /\ channel_data' = [channel_data EXCEPT ![sample.topic] = new]
      /\ callback = "replace" /\ callback' = "fill"
      /\ UNCHANGED <<telemetry_queue, sample, second, arrived, cuts, loop>>
  BY <1>1 DEF replace
<1>3. Out' = Out /\ OutInOrder'
  BY <1>1, <1>2, OutStays DEF loop
<1>4. ASSUME NEW t \in Topics, t # sample.topic, channel_data[t] # 0
      PROVE  channel_data'[t] = channel_data[t]
             /\ holder'[channel_data[t]] = holder[channel_data[t]]
  BY <1>1, <1>2, <1>4
<1>5. channel_data'[sample.topic] = new
  BY <1>1, <1>2
<1>6. UnderWay'
  <2>1. ASSUME NEW t \in Topics, channel_data'[t] # 0
        PROVE  /\ holder'[channel_data'[t]].timestamp <= second
               /\ holder'[channel_data'[t]].timestamp < second
                    => Complete(holder'[channel_data'[t]])
    <3>1. CASE t = sample.topic
      BY <1>1, <1>2, <1>5, <3>1
    <3>2. CASE t # sample.topic
      <4>1. channel_data[t] # 0
        BY <1>1, <1>2, <2>1, <3>2
      <4> QED
        BY <1>4, <3>2, <4>1 DEF UnderWay
    <3> QED
      BY <3>1, <3>2
  <2>2. ASSUME NEW t \in Topics, NEW k \in Components,
               <<t, k>> \in arrived, ~Awaited(t, k)
        PROVE  /\ t # sample.topic /\ channel_data[t] # 0
               /\ holder[channel_data[t]].timestamp = second
               /\ holder[channel_data[t]].data[k] = second
    BY <1>2, <2>2 DEF UnderWay, current
  <2> QED
    BY <1>1, <1>2, <1>4, <2>1, <2>2 DEF UnderWay, Awaited, Complete
<1>7. OutIsOlder'
  <2> SUFFICES ASSUME NEW r \in Out
               PROVE  /\ Complete(r) /\ channel_data'[r.topic] # 0
                      /\ r.timestamp < holder'[channel_data'[r.topic]].timestamp
    BY <1>2, <1>3 DEF OutIsOlder, Complete
  <2>1. r.topic \in Topics /\ Complete(r)
    BY OutTypes DEF OutIsOlder
  <2>2. CASE r.topic = sample.topic
    BY <1>1, <1>2, <1>5, <2>2 DEF OutIsOlder
  <2>3. CASE r.topic # sample.topic
    BY <1>4, <2>1, <2>3 DEF OutIsOlder
  <2> QED
    BY <2>1, <2>2, <2>3
<1> QED
  BY <1>3, <1>6, <1>7

(* The sample has come to its holder.                                      *)
LEMMA FillUncut ==
  ASSUME TelemetryInv, UncutInv, cuts = 0, fill
  PROVE  UnderWay' /\ OutIsOlder' /\ OutInOrder'
<1> USE DEF UncutInv
<1> DEFINE c == sample.component
           h == holder[current]
           g == [h EXCEPT !.data[c] = second]
<1>1. /\ current \in 1 .. Len(holder) /\ holder \in Seq(Holders) /\ h \in Holders
      /\ channel_data \in [Topics -> 0 .. Len(holder)]
      /\ sample.topic \in Topics /\ c \in Components
      /\ current = channel_data[sample.topic]
      /\ h.timestamp = second /\ sample.timestamp = second /\ second \in Nat
  BY DEF fill, UnderWay, TelemetryInv, TelemetryTypeOK, Hands, Samples, current
<1>2. /\ holder' = [holder EXCEPT ![current] = g]
      /\ callback = "fill" /\ callback' = "idle"
      /\ UNCHANGED <<channel_data, telemetry_queue, sample, second, arrived, cuts, loop>>
  BY <1>1 DEF fill
<1>3. /\ g.topic = h.topic /\ g.timestamp = second /\ g.data[c] = second
      /\ \A k \in Components : k # c => g.data[k] = h.data[k]
  BY <1>1 DEF Holders
<1>4. /\ Len(holder') = Len(holder) /\ holder'[current] = g
      /\ \A i \in 1 .. Len(holder) : i # current => holder'[i] = holder[i]
  BY <1>1, <1>2, SMTT(30)
<1>5. \A t \in Topics : channel_data[t] # 0 /\ t # sample.topic =>
        /\ channel_data[t] # current /\ channel_data[t] \in 1 .. Len(holder)
        /\ holder'[channel_data[t]] = holder[channel_data[t]]
  BY <1>1, <1>4 DEF TelemetryInv, Collecting
<1> HIDE DEF g, h, c
<1>6. Out' = Out /\ OutInOrder'
  <2>1. ~HandedOver(current)
    BY <1>1, <1>2 DEF TelemetryInv, Collecting
  <2> QED
    BY <1>1, <1>2, <1>4, <2>1, OutStays DEF loop
<1>7. UnderWay'
  <2>1. ASSUME NEW t \in Topics, channel_data[t] # 0
        PROVE  /\ holder'[channel_data[t]].timestamp <= second
               /\ holder'[channel_data[t]].timestamp < second
                    => Complete(holder'[channel_data[t]])
    <3>1. CASE t = sample.topic
      BY <1>1, <1>3, <1>4, <3>1
    <3>2. CASE t # sample.topic
      BY <1>5, <2>1, <3>2 DEF UnderWay
    <3> QED
      BY <3>1, <3>2
  <2>2. ASSUME NEW t \in Topics, NEW k \in Components, <<t, k>> \in arrived
        PROVE  /\ channel_data[t] # 0
               /\ holder'[channel_data[t]].timestamp = second
               /\ holder'[channel_data[t]].data[k] = second
    <3>1. CASE t = sample.topic /\ k = c
      BY <1>1, <1>3, <1>4, <3>1
    <3>2. CASE t = sample.topic /\ k # c
      BY <1>1, <1>2, <1>3, <1>4, <2>2, <3>2 DEF UnderWay, Awaited, c, h
    <3>3. CASE t # sample.topic
      BY <1>5, <2>2, <3>3 DEF UnderWay, Awaited
    <3> QED
      BY <3>1, <3>2, <3>3
  <2> QED
    BY <1>2, <2>1, <2>2 DEF UnderWay, Complete
<1>8. OutIsOlder'
  <2> SUFFICES ASSUME NEW r \in Out
               PROVE  /\ Complete(r) /\ channel_data[r.topic] # 0
                      /\ r.timestamp < holder'[channel_data[r.topic]].timestamp
    BY <1>2, <1>6 DEF OutIsOlder, Complete
  <2>1. /\ r.topic \in Topics /\ Complete(r) /\ channel_data[r.topic] # 0
        /\ r.timestamp < holder[channel_data[r.topic]].timestamp
    BY <1>2, OutTypes DEF OutIsOlder
  <2> QED
    BY <1>1, <1>3, <1>4, <1>5, <2>1 DEF h
<1> QED
  BY <1>6, <1>7, <1>8

(* The next second begins when all of this one has come.                   *)
LEMMA NextSecondUncut ==
  ASSUME TelemetryInv, UncutInv, cuts = 0, NextSecond
  PROVE  UnderWay' /\ OutIsOlder' /\ OutInOrder'
<1> USE DEF UncutInv
<1>1. Out' = Out /\ OutInOrder'
  BY OutStays DEF NextSecond, loop, TelemetryInv, TelemetryTypeOK
<1>2. UnderWay'
  <2>1. ASSUME NEW t \in Topics
        PROVE  /\ holder[channel_data[t]].timestamp = second
               /\ Complete(holder[channel_data[t]])
    BY DEF NextSecond, UnderWay, Awaited, Complete, Components
  <2>2. second \in Nat
    BY DEF TelemetryInv, TelemetryTypeOK
  <2> QED
    BY <2>1, <2>2 DEF NextSecond, loop, UnderWay, Complete
<1>3. OutIsOlder'
  BY <1>1 DEF NextSecond, loop, OutIsOlder, Complete
<1> QED
  BY <1>1, <1>2, <1>3

(* The event loop takes records from the front of the queue.               *)
LEMMA GetUncut ==
  ASSUME TelemetryInv, UncutInv, cuts = 0, get
  PROVE  UnderWay' /\ OutIsOlder' /\ OutInOrder'
<1> USE DEF UncutInv
<1> DEFINE q == telemetry_queue
<1>1. /\ q \in Seq(1 .. Len(holder)) /\ q # << >> /\ Len(q) \in Nat \ {0}
      /\ Len(holder) \in Nat
  BY DEF get, TelemetryInv, TelemetryTypeOK
<1>2. /\ Len(q') = Len(q) - 1 /\ cdh' = q[1]
      /\ \A j \in 1 .. Len(q) - 1 : q'[j] = q[j + 1]
      /\ processing = "idle" /\ processing' = "writing"
      /\ UNCHANGED <<holder, channel_data, station, written>>
  BY <1>1 DEF get
<1>3. Out' \subseteq Out
  <2>1. ASSUME NEW x, HandedOver(x)' PROVE HandedOver(x)
    BY <1>1, <1>2, <2>1 DEF HandedOver
  <2> QED
    BY <1>2, <2>1 DEF Out
<1>4. UnderWay'
  BY <1>2 DEF UnderWay, Complete, Awaited, station, current
<1>5. OutIsOlder'
  BY <1>2, <1>3 DEF OutIsOlder, Complete, station
<1>6. OutInOrder'
  <2>1. WrittenInOrder'
    BY <1>2 DEF OutInOrder, WrittenInOrder, Before
  <2>2. \A j \in 1 .. Len(q') : j + 1 \in 1 .. Len(q) /\ 1 < j + 1 /\ q'[j] = q[j + 1]
    BY <1>1, <1>2
  <2>3. 1 \in 1 .. Len(q) /\ Len(q') \in Nat
    BY <1>1, <1>2
  <2>4. QueuedInOrder'
    <3> SUFFICES ASSUME NEW i \in 1 .. Len(q'), NEW j \in 1 .. Len(q'), i < j
                 PROVE  Before(holder[q'[i]], holder[q'[j]])
      BY <1>2 DEF QueuedInOrder, Before
    <3>1. i + 1 < j + 1
      BY <2>3
    <3> QED
      BY <2>2, <3>1 DEF OutInOrder, QueuedInOrder
  <2>5. QueuedAfterWritten'
    BY <1>2, <2>2, SMTT(30) DEF OutInOrder, QueuedAfterWritten, Before
  <2>6. InHandBetween'
    <3>1. \A i \in 1 .. Len(written) : Before(written[i], holder[q[1]])
      BY <2>3 DEF OutInOrder, QueuedAfterWritten
    <3>2. \A j \in 1 .. Len(q') : Before(holder[q[1]], holder[q'[j]])
      BY <2>2, <2>3 DEF OutInOrder, QueuedInOrder
    <3> QED
      BY <1>2, <3>1, <3>2 DEF InHandBetween, Before
  <2> QED
    BY <2>1, <2>4, <2>5, <2>6 DEF OutInOrder
<1> QED
  BY <1>4, <1>5, <1>6

(* What is published is newer than what has been, and older than the rest; *)
(* a record that is lost leaves the order as it is.                        *)
LEMMA WriteUncut ==
  ASSUME TelemetryInv, UncutInv, cuts = 0, set_write \/ set_write_fails
  PROVE  UnderWay' /\ OutIsOlder' /\ OutInOrder'
<1> USE DEF UncutInv
<1>1. /\ cdh \in 1 .. Len(holder) /\ written \in Seq(Holders) /\ Len(written) \in Nat
      /\ holder[cdh] \in Holders
      /\ processing = "writing" /\ processing' = "idle"
      /\ UNCHANGED <<holder, channel_data, telemetry_queue, station, cdh>>
  BY DEF set_write, set_write_fails, TelemetryInv, TelemetryTypeOK, Hands
<1>2. written' \in {written, Append(written, holder[cdh])}
  BY DEF set_write, set_write_fails
<1>3. /\ Len(written') \in {Len(written), Len(written) + 1}
      /\ \A i \in 1 .. Len(written) : written'[i] = written[i]
      /\ Len(written') = Len(written) + 1 => written'[Len(written) + 1] = holder[cdh]
  BY <1>1, <1>2
<1>4. Out' \subseteq Out
  <2>1. ASSUME NEW x, HandedOver(x)' PROVE HandedOver(x)
    BY <1>1, <2>1 DEF HandedOver
  <2>2. ASSUME NEW i \in 1 .. Len(written') PROVE written'[i] \in Out
    <3>1. CASE i \in 1 .. Len(written)
      BY <1>3, <3>1 DEF Out
    <3>2. CASE i = Len(written) + 1 /\ written'[i] = holder[cdh]
      BY <1>1, <3>2 DEF Out, HandedOver
    <3> QED
      BY <1>1, <1>3, <3>1, <3>2
  <2> QED
    BY <1>1, <2>1, <2>2 DEF Out
<1>5. UnderWay'
  BY <1>1 DEF UnderWay, Complete, Awaited, station, current
<1>6. OutIsOlder'
  BY <1>1, <1>4 DEF OutIsOlder, Complete, station
<1>7. OutInOrder'
  <2>1. WrittenInOrder'
    <3> SUFFICES ASSUME NEW i \in 1 .. Len(written'), NEW j \in 1 .. Len(written'), i < j
                 PROVE  Before(written'[i], written'[j])
      BY DEF WrittenInOrder, Before
    <3>1. i \in 1 .. Len(written)
      BY <1>1, <1>3
    <3>2. \/ j \in 1 .. Len(written)
          \/ j = Len(written) + 1 /\ Len(written') = Len(written) + 1
      BY <1>1, <1>3
    <3> QED
      BY <1>1, <1>3, <3>1, <3>2 DEF OutInOrder, WrittenInOrder, InHandBetween
  <2>2. QueuedInOrder' /\ InHandBetween'
    BY <1>1 DEF OutInOrder, QueuedInOrder, InHandBetween, Before
  <2>3. QueuedAfterWritten'
    BY <1>1, <1>3, SMTT(30) DEF OutInOrder, QueuedAfterWritten, InHandBetween, Before
  <2> QED
    BY <2>1, <2>2, <2>3 DEF OutInOrder
<1> QED
  BY <1>5, <1>6, <1>7

(* While no session has been cut short, the station thread keeps ahead of  *)
(* the event loop: what is out is older than what is collected.            *)
THEOREM UncutInvariant == Spec => []UncutInv
<1>1. Init => UncutInv
  BY InitUncut
<1>2. TelemetryInv /\ UncutInv /\ [Next]_vars => UncutInv'
  <2> SUFFICES ASSUME TelemetryInv, UncutInv, [Next]_vars, cuts' = 0
               PROVE  UnderWay' /\ OutIsOlder' /\ OutInOrder'
    BY DEF UncutInv
  <2>1. ~Cut /\ cuts = 0
    BY DEF Next, Station, EventLoop, secdata_callback, compare, replace, fill,
           NextSecond, Cut, get, set_write, set_write_fails, vars, station,
           TelemetryInv, TelemetryTypeOK
  <2>2. CASE Station
    BY <2>1, <2>2, SecdataUncut, CompareUncut, ReplaceUncut, FillUncut,
       NextSecondUncut DEF Station
  <2>3. CASE EventLoop
    BY <2>1, <2>3, GetUncut, WriteUncut DEF EventLoop
  <2>4. CASE UNCHANGED vars
    <3>1. Out' = Out /\ OutInOrder'
      BY <2>1, <2>4, OutStays DEF vars, loop, station, UncutInv, TelemetryInv,
                                  TelemetryTypeOK
    <3> QED
      BY <2>1, <2>4, <3>1 DEF vars, loop, station, UncutInv, UnderWay, OutIsOlder,
                              Complete, Awaited, current
  <2> QED
    BY <2>2, <2>3, <2>4 DEF Next
<1> QED
  BY <1>1, <1>2, TelemetryInvariant, PTL DEF Spec

(* Without a cut, what the topics publish is complete and in order.        *)
THEOREM PublishedInOrder == Spec => []CompleteAndInOrder
<1>1. TelemetryInv /\ UncutInv => CompleteAndInOrder
  <2> SUFFICES ASSUME TelemetryInv, UncutInv, cuts = 0, NEW i \in 1 .. Len(written)
               PROVE  /\ Complete(written[i])
                      /\ \A j \in 1 .. i - 1 : Before(written[j], written[i])
    BY DEF CompleteAndInOrder, Before
  <2>1. Len(written) \in Nat
    BY DEF TelemetryInv, TelemetryTypeOK
  <2>2. Complete(written[i])
    BY DEF UncutInv, OutIsOlder, Out
  <2> QED
    BY <2>1, <2>2 DEF UncutInv, OutInOrder, WrittenInOrder
<1> QED
  BY <1>1, TelemetryInvariant, UncutInvariant, PTL
=============================================================================
