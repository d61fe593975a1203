------------------------------ MODULE EventRing ------------------------------
(***************************************************************************)
(* The pre-event buffers of a channel of lib330 (finish_record and ringman *)
(* of libsample.c).  The last records of a channel are kept in a ring; a   *)
(* record in which the control detector was on is sent as event data, with *)
(* the records still in the ring before it and the one that follows it.    *)
(*                                                                         *)
(* A record is known by the sequence number in its header.  The channel    *)
(* has an output of event records (scd_evt is not 0) and may have one of   *)
(* all records (scd_cont).                                                 *)
(***************************************************************************)
EXTENDS Integers, Sequences, FiniteSets

CONSTANTS
  PreEvent,             \* pre_event_buffers
  Continuous,           \* some output of the channel gets all records
  MaxRecords            \* bound: records finished

EventRingAssumption == PreEvent \in Nat /\ Continuous \in BOOLEAN

Buffers == PreEvent + 1
NoRecord == 0

VARIABLES
  rings,                \* the records in the ring, NoRecord where not full
  ring,                 \* com->ring, the buffer under construction
  records_written,
  gen_on, gen_last_on,  \* the detector in this record, and a run being sent
  gen_next,             \* the next record to be sent as event data
  on,                   \* the control detector when it was last evaluated
  triggered,            \* the records in which it was on
  event, cont           \* the records sent, with their event flags

vars == <<rings, ring, records_written, gen_on, gen_last_on, gen_next, on,
          triggered, event, cont>>

link(b) == (b + 1) % Buffers

Init ==
  /\ rings = [b \in 0..(Buffers - 1) |-> NoRecord] /\ ring = 0
  /\ records_written = 0
  /\ gen_on = FALSE /\ gen_last_on = FALSE /\ gen_next = 0
  /\ on = FALSE /\ triggered = {} /\ event = << >> /\ cont = << >>

\* evaluate_detector_stack, as a frame is completed: on is what the control
\* detector says now, and it sticks to the record.
Evaluate ==
  /\ on' \in BOOLEAN
  /\ gen_on' = (gen_on \/ on')
  /\ UNCHANGED <<rings, ring, records_written, gen_last_on, gen_next,
                 triggered, event, cont>>

\* The kth of a set of numbers.
Kth(S, k) == CHOOSE i \in S : Cardinality({j \in S : j <= i}) = k

(* The records ringman sends, the oldest first: in a run only the newest,  *)
(* else all in the ring that have not been sent.                           *)
Due(full, contig, next) ==
  LET old(i) == full[(ring + i) % Buffers]
      due == {i \in (IF contig THEN {Buffers} ELSE 1 .. Buffers) :
                old(i) # NoRecord /\ old(i) >= next}
  IN [k \in 1 .. Cardinality(due) |-> old(Kth(due, k))]

\* fault: the run ends with the last record in which the detector was on
ringman_fault(full, now_on, was_on, next) ==
  LET due == IF now_on THEN Due(full, was_on, next) ELSE << >>
  IN [sent |-> [i \in DOMAIN due |-> [rec |-> due[i], begin |-> ~was_on /\ i = 1]],
      was_on |-> now_on,
      next |-> IF due = << >> THEN next ELSE due[Len(due)] + 1]

(* ringman with the record just finished in the ring: what is sent, and    *)
(* the new gen_last_on and gen_next.  A run goes on while the detector is  *)
(* on and ends with the first record in which it is off.                   *)
ringman(full, now_on, was_on, next) ==
  LET due == IF now_on \/ was_on THEN Due(full, was_on, next) ELSE << >>
  IN [sent |-> [i \in DOMAIN due |-> [rec |-> due[i], begin |-> ~was_on /\ i = 1]],
      was_on |-> now_on /\ (was_on \/ due # << >>),
      next |-> IF due = << >> THEN next ELSE due[Len(due)] + 1]

\* the event flags of a record in the continuous output
Flagged(r, now) ==
  [rec |-> r, begin |-> now /\ ~gen_last_on, end |-> ~now /\ gen_last_on]

(* finish_record; the control detector is evaluated once more (again) when *)
(* no record has been written since the second began.                      *)
finish_record(again) ==
  /\ records_written < MaxRecords
  /\ records_written' = records_written + 1
  /\ on' \in (IF again THEN BOOLEAN ELSE {on})
  /\ LET now == gen_on \/ (again /\ on')
         full == [rings EXCEPT ![ring] = records_written + 1]
         r == ringman(full, now, gen_last_on, gen_next)
     IN /\ event' = event \o r.sent
        /\ gen_last_on' = r.was_on /\ gen_next' = r.next
        /\ triggered' = IF now THEN triggered \cup {records_written'} ELSE triggered
        /\ cont' = IF Continuous
                   THEN Append(cont, Flagged(records_written', now))
                   ELSE cont
        /\ ring' = link(ring)
        /\ rings' = [full EXCEPT ![link(ring)] = NoRecord]
  /\ gen_on' = FALSE

Next == Evaluate \/ \E again \in BOOLEAN : finish_record(again)

Spec == Init /\ [][Next]_vars

-----------------------------------------------------------------------------
\* The buffer under construction is never taken for a finished record, and the
\* others hold the last records in order: a trigger finds what came before it.
EventRingTypeOK ==
  /\ rings[ring] = NoRecord
  /\ \A i \in 1..PreEvent :
       rings[(ring - i) % Buffers] =
         IF records_written >= i THEN records_written - i + 1 ELSE NoRecord

SentAsEvent == {event[i].rec : i \in DOMAIN event}

\* The event output is exactly the records near a trigger: those in which the
\* detector was on, up to PreEvent before each and the one after it, whatever
\* the runs of triggers and the distance between them.
EventOutputIsExact ==
  SentAsEvent = {r \in 1..records_written :
                   \E t \in triggered : t - PreEvent <= r /\ r <= t + 1}

\* Records are sent in the order they were made and none twice, also when two
\* triggers share their pre-event records.
SentOnceInOrder ==
  \A i \in 1..(Len(event) - 1) : event[i].rec < event[i + 1].rec

\* A reader can cut the event output into its events by the flags: a record
\* that does not begin an event follows the one before it without a gap.
RunsAreFlagged ==
  \A i \in DOMAIN event :
    ~event[i].begin => i > 1 /\ event[i].rec = event[i - 1].rec + 1

\* In the continuous output events begin and end in turn, each on its record.
BeginsAndEndsAlternate ==
  \A i \in DOMAIN cont :
    /\ ~(cont[i].begin /\ cont[i].end)
    /\ cont[i].begin => \A j \in 1 .. i - 1 : cont[j].begin => \E k \in j + 1 .. i - 1 : cont[k].end
    /\ cont[i].end => \E j \in 1 .. i - 1 : cont[j].begin /\ \A k \in j + 1 .. i - 1 : ~cont[k].end
=============================================================================
