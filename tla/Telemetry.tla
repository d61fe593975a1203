------------------------------- MODULE Telemetry -------------------------------
(***************************************************************************)
(* From the one-second data of the station thread to the telemetry topics: *)
(* secdata_callback and _process_samples on the station thread, and        *)
(* process_telemetry on the event loop (q330_connector.py), with the       *)
(* thread-safe queue between them.                                         *)
(*                                                                         *)
(* The two run concurrently under the interpreter lock, one statement of   *)
(* either at a time.  Records are Python objects: channel_data and the     *)
(* queue hold references to them, and holder holds the objects.            *)
(*                                                                         *)
(* The Q330 delivers, second by second, the components of every topic in   *)
(* any order.  A session may be cut short anywhere; the next one continues *)
(* with the next second or with one already delivered (see Stream, where a *)
(* new registration starts with the oldest packet not acknowledged), and   *)
(* the rest of the second that was cut is ignored by the library, which    *)
(* waits for the next timing blockette.                                    *)
(***************************************************************************)
EXTENDS Naturals, Sequences

CONSTANTS Topics,       \* the keys of channel_data
          LastSecond,   \* bound: seconds of data
          MaxCuts       \* bound: sessions cut short

ASSUME TelemetryAssumption == LastSecond \in Nat \ {0} /\ MaxCuts \in Nat

Components == {"E", "N", "Z"}

VARIABLES
  holder,               \* the ChannelDataHolder objects made so far
  channel_data,         \* topic -> reference
  telemetry_queue,      \* references
  sample,               \* what the station thread calls back with
  callback,             \* how far _process_samples has come
  cdh,                  \* the record process_telemetry has in hand
  processing,           \* how far process_telemetry has come
  written,              \* what the topics have published, in order
  second, arrived,      \* the second under way, and what of it has come
  cuts

station == <<sample, callback, second, arrived, cuts>>
loop == <<cdh, processing, written>>
vars == <<holder, channel_data, telemetry_queue, station, loop>>

\* A holder: each component is the second its samples are of, 0 for none.
\* __init__ makes one without a topic name, which reference 0 stands for.
Holders == [topic : Topics, timestamp : 1 .. LastSecond,
            data : [Components -> 0 .. LastSecond]]

Samples == [topic : Topics, component : Components, timestamp : 1 .. LastSecond]

NoData == [k \in Components |-> 0]

\* The reference channel_data has for the topic of the sample.
current == channel_data[sample.topic]

-----------------------------------------------------------------------------
(* The station thread.                                                     *)

secdata_callback ==
  /\ callback = "idle"
  /\ \E t \in Topics, k \in Components :
       /\ <<t, k>> \notin arrived
       /\ arrived' = arrived \union {<<t, k>>}
       /\ sample' = [topic |-> t, component |-> k, timestamp |-> second]
  /\ callback' = "compare"
  /\ UNCHANGED <<holder, channel_data, telemetry_queue, second, cuts, loop>>

\* Fault: the timestamp is only looked at for the first record.
compare_fault2 ==
  /\ callback = "compare"
  /\ callback' = IF current # 0 THEN "fill" ELSE "replace"
  /\ telemetry_queue' = IF current # 0 THEN Append(telemetry_queue, current)
                                       ELSE telemetry_queue
  /\ UNCHANGED <<holder, channel_data, sample, second, arrived, cuts, loop>>

\* Another timestamp: what has been collected is put in the queue.
compare ==
  /\ callback = "compare"
  /\ IF current # 0 /\ holder[current].timestamp = sample.timestamp
     THEN callback' = "fill" /\ UNCHANGED telemetry_queue
     ELSE /\ callback' = "replace"
          /\ telemetry_queue' = IF current # 0
                                THEN Append(telemetry_queue, current)
                                ELSE telemetry_queue
  /\ UNCHANGED <<holder, channel_data, sample, second, arrived, cuts, loop>>

\* Fault: the holder is used again.
replace_fault ==
  /\ callback = "replace"
  /\ holder' = IF current = 0
               THEN Append(holder, [topic |-> sample.topic, data |-> NoData,
                                    timestamp |-> sample.timestamp])
               ELSE [holder EXCEPT ![current].data = NoData,
                                   ![current].timestamp = sample.timestamp]
  /\ channel_data' = [channel_data EXCEPT ![sample.topic] =
                        IF @ = 0 THEN Len(holder') ELSE @]
  /\ callback' = "fill"
  /\ UNCHANGED <<telemetry_queue, sample, second, arrived, cuts, loop>>

replace ==
  /\ callback = "replace"
  /\ holder' = Append(holder, [topic |-> sample.topic, data |-> NoData,
                               timestamp |-> sample.timestamp])
  /\ channel_data' = [channel_data EXCEPT ![sample.topic] = Len(holder')]
  /\ callback' = "fill"
  /\ UNCHANGED <<telemetry_queue, sample, second, arrived, cuts, loop>>

fill ==
  /\ callback = "fill"
  /\ holder' = [holder EXCEPT ![current].data[sample.component] =
                                sample.timestamp]
  /\ callback' = "idle"
  /\ UNCHANGED <<channel_data, telemetry_queue, sample, second, arrived, cuts, loop>>

-----------------------------------------------------------------------------
(* The Q330 and the library.                                               *)

NextSecond ==
  /\ callback = "idle"
  /\ arrived = Topics \X Components /\ second < LastSecond
  /\ second' = second + 1 /\ arrived' = {}
  /\ UNCHANGED <<holder, channel_data, telemetry_queue, sample, callback, cuts, loop>>

Cut ==
  /\ callback = "idle" /\ cuts < MaxCuts
  /\ second' \in 1 .. second + 1 /\ second' <= LastSecond
  /\ arrived' = {}
  /\ cuts' = cuts + 1
  /\ UNCHANGED <<holder, channel_data, telemetry_queue, sample, callback, loop>>

-----------------------------------------------------------------------------
(* The event loop.                                                         *)

\* Fault: the newest record first.
get_fault ==
  /\ processing = "idle" /\ telemetry_queue # << >>
  /\ cdh' = telemetry_queue[Len(telemetry_queue)]
  /\ telemetry_queue' = SubSeq(telemetry_queue, 1, Len(telemetry_queue) - 1)
  /\ processing' = "writing"
  /\ UNCHANGED <<holder, channel_data, station, written>>

\* Fault: the last record stays in the queue.
get_fault2 ==
  /\ processing = "idle" /\ Len(telemetry_queue) > 1
  /\ cdh' = Head(telemetry_queue) /\ telemetry_queue' = Tail(telemetry_queue)
  /\ processing' = "writing"
  /\ UNCHANGED <<holder, channel_data, station, written>>

get ==
  /\ processing = "idle" /\ telemetry_queue # << >>
  /\ cdh' = Head(telemetry_queue) /\ telemetry_queue' = Tail(telemetry_queue)
  /\ processing' = "writing"
  /\ UNCHANGED <<holder, channel_data, station, written>>

set_write ==
  /\ processing = "writing"
  /\ written' = Append(written, holder[cdh])
  /\ processing' = "idle"
  /\ UNCHANGED <<holder, channel_data, telemetry_queue, station, cdh>>

\* The write raises an exception, or the task is cancelled in it: the record
\* is gone.
set_write_fails ==
  /\ processing = "writing"
  /\ processing' = "idle"
  /\ UNCHANGED <<holder, channel_data, telemetry_queue, station, cdh, written>>

-----------------------------------------------------------------------------
Init ==
  /\ holder = << >> /\ channel_data = [t \in Topics |-> 0]
  /\ telemetry_queue = << >>
  /\ sample \in {s \in Samples : s.component = "E" /\ s.timestamp = 1}
  /\ callback = "idle" /\ cdh = 0 /\ processing = "idle" /\ written = << >>
  /\ second = 1 /\ arrived = {} /\ cuts = 0

Station == secdata_callback \/ compare \/ replace \/ fill \/ NextSecond \/ Cut
EventLoop == get \/ set_write \/ set_write_fails
Next == Station \/ EventLoop
Spec == Init /\ [][Next]_vars

\* The event loop calls read_data again and again.
FairSpec == Spec /\ WF_vars(EventLoop)

-----------------------------------------------------------------------------
Complete(r) == \A k \in Components : r.data[k] = r.timestamp

(* The variables hold what the code puts there.                            *)
TelemetryTypeOK ==
  /\ holder \in Seq(Holders) /\ written \in Seq(Holders)
  /\ channel_data \in [Topics -> 0 .. Len(holder)]
  /\ telemetry_queue \in Seq(1 .. Len(holder)) /\ cdh \in 0 .. Len(holder)
  /\ sample \in Samples /\ callback \in {"idle", "compare", "replace", "fill"}
  /\ processing \in {"idle", "writing"}
  /\ second \in 1 .. LastSecond /\ cuts \in 0 .. MaxCuts
  /\ arrived \subseteq Topics \X Components

(* The components of a published record are of the second of its           *)
(* timestamp, or missing: samples of two seconds, or of two sessions, are  *)
(* never mixed, whenever the session was cut.                              *)
OneSecondPerRecord ==
  \A i \in 1 .. Len(written), k \in Components :
    written[i].data[k] \in {0, written[i].timestamp}

(* A record is not changed any more from the moment it is in the queue:    *)
(* process_telemetry reads its fields one by one while the station thread  *)
(* goes on collecting under the same topic.                                *)
FrozenOnceQueued ==
  [][\A i \in 1 .. Len(holder) :
       \/ \E j \in 1 .. Len(telemetry_queue) : telemetry_queue[j] = i
       \/ processing = "writing" /\ cdh = i
       => holder'[i] = holder[i]]_vars

(* Without a cut the telemetry of a topic is complete, and every second is *)
(* published at most once and in order.                                    *)
CompleteAndInOrder ==
  cuts = 0 =>
    \A i \in 1 .. Len(written) :
      /\ Complete(written[i])
      /\ \A j \in 1 .. i - 1 :
           written[j].topic = written[i].topic
             => written[j].timestamp < written[i].timestamp

(* No record stays in the queue, where it would hold memory and come late. *)
QueueDrains == []<>(telemetry_queue = << >>)

(* Data "is collected and queued for sending as telemetry when channel     *)
(* data with a newer timestamp is received" (_process_samples).            *)
NewerTimestamp ==
  [][Len(telemetry_queue') > Len(telemetry_queue)
       => holder[current].timestamp < sample.timestamp]_vars

(* A holder is "used to collect all component data until all three have    *)
(* arrived" (ChannelDataHolder): what is queued is complete.               *)
QueuedIsComplete ==
  \A i \in 1 .. Len(telemetry_queue) : Complete(holder[telemetry_queue[i]])

(* process_telemetry is to "check the queue for pending telemetry and      *)
(* write it if there is any".                                              *)
QueuedIsWritten ==
  \A t \in Topics, s \in 1 .. LastSecond :
    (\E i \in 1 .. Len(telemetry_queue) :
       holder[telemetry_queue[i]].topic = t /\ holder[telemetry_queue[i]].timestamp = s)
      ~> (\E i \in 1 .. Len(written) : written[i].topic = t /\ written[i].timestamp = s)
================================================================================
