------------------------------- MODULE Seconds -------------------------------
(***************************************************************************)
(* How lib330 turns the data packets of a Q330, in the order the data link *)
(* hands them on, into seconds of data (proc_insequence of libslider.c,    *)
(* process_one and process_mult of libsample.c).  A second is spread over  *)
(* Segments packets that all carry its data sequence number.  The first    *)
(* one also brings the time of the second, the one numbered Whole the data *)
(* of a channel of a low rate, and each one brings one segment of a        *)
(* channel of a high rate, which is processed when they are complete.      *)
(*                                                                         *)
(* The Q330 is external: after a new registration it repeats the packets   *)
(* it has no acknowledgement of, and when it runs out of memory it drops   *)
(* the oldest.  Its time is a fixed function of the second.                *)
(* A registration is always followed by the reading of the tokens, so the  *)
(* channels are made anew and restored from the continuity kept when they  *)
(* were removed, in the same thread or, from the file, in another one.     *)
(***************************************************************************)
EXTENDS Integers, Sequences, SequencesExt, FiniteSetsExt

CONSTANTS
  Segments,             \* packets in a second
  Whole,                \* the packet that brings all of the low channel
  MAXSPREAD,            \* 128
  Resend,               \* how many packets may be unacknowledged
  SkipOnResume,         \* whether the Q330 may have dropped some by then
  UntimedEnd,           \* whether a registration may end in an unknown time
  FirstSecond, LastSecond, \* bound: the seconds of data there are
  MaxLinks              \* bound: how often the link is opened again

SecondsAssumption ==
  /\ Segments \in Nat \ {0, 1} /\ MAXSPREAD \in Nat /\ Resend \in Nat
  /\ Whole \in 1..Segments /\ FirstSecond \in Nat \ {0} /\ LastSecond \in Nat
  /\ SkipOnResume \in BOOLEAN /\ UntimedEnd \in BOOLEAN
  \* the packets that may be repeated are of MAXSPREAD seconds at most: the
  \* window of the data link has WINBUFS of them, which is 128 too
  /\ Resend <= MAXSPREAD * Segments

NoSequence == -1

VARIABLES
  dt_data_sequence, lastseq, data_timetag,
  one,                  \* dtsequence of the low channel
  mult,                 \* the segmented channel
  held                  \* whether its dholdq->ppkt is set

VARIABLES
  pos,                  \* the next packet: its second and its segment
  oldest,               \* the number of the oldest packet that may be repeated
  links,                \* registrations after the first
  ones, merged          \* what has been processed: second, time tag, segments

lib == <<dt_data_sequence, lastseq, data_timetag, one, mult, held>>
vars == <<lib, pos, oldest, links, ones, merged>>

TimeOf(sec) == 1000 + sec

After(p) == IF p[2] = Segments THEN <<p[1] + 1, 1>> ELSE <<p[1], p[2] + 1>>
Number(p) == p[1] * Segments + p[2] - 1
Packets == (FirstSecond..LastSecond) \X (1..Segments)

init_lcq == [dtsequence |-> 0, seg_seq |-> NoSequence, pseg |-> << >>,
             seg_count |-> 0, seg_high |-> 0]

Init ==
  /\ dt_data_sequence = 0 /\ lastseq = 0 /\ data_timetag = 0
  /\ one = 0 /\ mult = init_lcq /\ held = FALSE
  /\ pos = <<FirstSecond, 1>> /\ oldest = Number(pos) /\ links = 0
  /\ ones = << >> /\ merged = << >>

-----------------------------------------------------------------------------
\* fault: the time tag of the second before is kept over a gap
Timetag_fault(sec, first) == IF first THEN TimeOf(sec) ELSE data_timetag

(* The time tag under which a packet is processed.  It is unknown after a  *)
(* gap, and when a second begins without its first packet, until the next  *)
(* time arrives; the first packet after the link was opened again is not   *)
(* looked at as closely.                                                   *)
Timetag(sec, first) ==
  LET gap == sec # dt_data_sequence /\ sec # dt_data_sequence + 1
      missed == lastseq # 0 /\ sec = dt_data_sequence + 1 /\ ~first
  IN IF first THEN TimeOf(sec) ELSE IF gap \/ missed THEN 0 ELSE data_timetag

\* the test process_one and process_mult begin with
Fresh(sec, dtsequence) == sec > dtsequence

\* and what it leaves of dtsequence when it fails
Stale(sec, dtsequence) == IF dtsequence - sec > MAXSPREAD THEN sec ELSE dtsequence

\* process_one, and process_comp, which differ in the data only
process_one(sec, tag) ==
  IF tag < 1 THEN UNCHANGED <<one, ones>>
  ELSE IF Fresh(sec, one)
  THEN one' = sec /\ ones' = Append(ones, [sec |-> sec, tag |-> tag])
  ELSE one' = Stale(sec, one) /\ UNCHANGED ones

\* the first segment goes to the front, another one before the first above it
Insert(list, k) ==
  LET above == {i \in DOMAIN list : k = 1 \/ list[i] > k}
  IN InsertAt(list, IF above = {} THEN Len(list) + 1 ELSE Min(above), k)

\* the collection, without what is left of another second
Purged(sec) ==
  IF sec = mult.seg_seq THEN mult
  ELSE [mult EXCEPT !.pseg = << >>, !.seg_count = 0, !.seg_high = 0]

\* how many segments a second has that ends with segment k
LastSegment(k) == k

\* the segments of this second with one more
Collect(sec, k) ==
  [Purged(sec) EXCEPT !.seg_seq = sec, !.pseg = Insert(@, k), !.seg_count = @ + 1,
                      !.seg_high = IF k = Segments THEN LastSegment(k) ELSE @]

Complete(m) == m.seg_high # 0 /\ m.seg_high = m.seg_count

(* process_mult.  A last segment that comes before the others is put on    *)
(* hold and yet handled at once, and the hold ends with the call.          *)
process_mult(sec, k, tag) ==
  IF tag < 1 THEN UNCHANGED <<mult, held, merged>>
  ELSE IF ~Fresh(sec, mult.dtsequence)
  THEN /\ mult' = [mult EXCEPT !.dtsequence = Stale(sec, @)]
       /\ UNCHANGED <<held, merged>>
  ELSE LET m == Collect(sec, k)
           have_first == Contains(m.pseg, 1)
       IN /\ mult' = IF ~Complete(m) THEN m
                     ELSE [m EXCEPT !.seg_count = 0, !.seg_seq = NoSequence,
                                    !.dtsequence = IF have_first THEN sec ELSE @]
          /\ merged' = IF Complete(m) /\ have_first
                       THEN Append(merged, [sec |-> sec, tag |-> tag, segs |-> m.pseg])
                       ELSE merged
          /\ held' = FALSE

\* proc_insequence with the next packet; on a running link the Q330 may have
\* run out of memory and dropped some before it
Data ==
  \E p \in Packets :
    /\ Number(p) >= Number(pos)
    /\ Number(p) <= Number(pos) + (IF lastseq = 0 THEN 0 ELSE 2 * Segments)
    /\ oldest' = IF Number(p) > Number(pos) THEN Number(p) ELSE oldest
    /\ LET sec == p[1]  k == p[2]  tag == Timetag(sec, k = 1)
       IN /\ data_timetag' = tag
          /\ dt_data_sequence' = sec /\ lastseq' = sec
          /\ IF k = Whole THEN process_one(sec, tag) ELSE UNCHANGED <<one, ones>>
          /\ process_mult(sec, k, tag)
    /\ pos' = After(p)
    /\ UNCHANGED links

\* restore_continuity, which is done only when the time was known at the end
Restored(dtsequence) == IF data_timetag > 0 THEN dtsequence ELSE 0

(* A new registration: reset_link, the tokens, check_continuity.  The Q330 *)
(* goes on with the oldest packet it has and has no acknowledgement of.    *)
Restart ==
  /\ links < MaxLinks /\ links' = links + 1
  /\ data_timetag > 0 \/ UntimedEnd
  /\ lastseq' = 0 /\ held' = FALSE
  /\ one' = Restored(one)
  /\ mult' = [init_lcq EXCEPT !.dtsequence = Restored(mult.dtsequence)]
  /\ \E p \in Packets :
       /\ Number(p) >= oldest /\ Number(p) >= Number(pos) - Resend
       /\ Number(p) <= Number(pos) + (IF SkipOnResume THEN Segments ELSE 0)
       /\ pos' = p
       /\ oldest' = Number(p)
  /\ UNCHANGED <<dt_data_sequence, data_timetag, ones, merged>>

Next == Data \/ Restart

Spec == Init /\ [][Next]_vars

-----------------------------------------------------------------------------
\* The collection counts what it holds, and never holds more segments than a
\* second has, for which segbuf has room.
SecondsTypeOK ==
  /\ data_timetag \in {0} \cup {TimeOf(s) : s \in FirstSecond..LastSecond}
  /\ mult.seg_count \in 0..Segments
  /\ mult.seg_seq # NoSequence => mult.seg_count = Len(mult.pseg)

\* Whatever is processed carries the time of its own second, however packets
\* were dropped or repeated before: data are late or lost, never misdated.
SecondsAreTimed ==
  /\ \A i \in DOMAIN ones : ones[i].tag = TimeOf(ones[i].sec)
  /\ \A i \in DOMAIN merged : merged[i].tag = TimeOf(merged[i].sec)

\* A second is processed once and the seconds in order, also when the Q330
\* repeats some of them after a new registration.
SecondsOnceInOrder ==
  /\ \A i \in 1..(Len(ones) - 1) : ones[i].sec < ones[i + 1].sec
  /\ \A i \in 1..(Len(merged) - 1) : merged[i].sec < merged[i + 1].sec

\* A second of the segmented channel is put together from all its segments,
\* each once and in order.
MergedIsComplete ==
  \A i \in DOMAIN merged : merged[i].segs = [k \in 1..Segments |-> k]

\* A second all of whose segments have come is not lost: the last one to come
\* completes it.
WholeSecondsAreProcessed ==
  [][(pos' = <<mult.seg_seq + 1, 1>> /\ links' = links /\ mult.seg_count = Segments - 1)
       => Len(merged') = Len(merged) + 1]_vars

\* What the comments say of a last segment that comes before all others: the
\* packet is put on hold.
LastSegmentIsHeld ==
  [][(mult'.pseg = <<Segments>> /\ mult' # mult) => held']_vars
=============================================================================
