-------------------------------- MODULE Record --------------------------------
(***************************************************************************)
(* How lib330 cuts a channel into miniSEED records and dates them          *)
(* (libsample.c).  Words of compressed samples fill frames, frames fill a  *)
(* record, and a record is finished when it is full or the channel is      *)
(* flushed.  The header gives the time of the first sample, worked out     *)
(* from the best time mark in the record; a record without a time mark of  *)
(* its own is dated from the record before it.                             *)
(*                                                                         *)
(* Times are counted in sample periods of the channel.  A channel of Rate  *)
(* samples a second, Rate > 1, receives each second already compressed; a  *)
(* channel of one sample a second compresses its own, which wait until     *)
(* MAXSAMPPERWORD of them are there.  What is in a word is in Compress:    *)
(* here a word holds any number of samples the format allows.  The delay   *)
(* of the filters, a constant shift, is left out.                          *)
(***************************************************************************)
EXTENDS Integers, Sequences, SequencesExt

CONSTANTS
  Rate,                 \* samples a second
  MAXSAMPPERWORD,       \* samples in a word: 7
  WORDS_PER_FRAME,      \* words of a frame, one of them the flags: 16
  MaxFrames,            \* com->maxframes: 7
  GapSecs,              \* q->gap_secs, in sample periods
  Jumps,                \* how much a time tag may be off the one expected
  Quals,                \* clock qualities
  FirstTag,             \* the time of the first second
  MaxSeconds            \* bound: seconds of data

RecordAssumption ==
  /\ {Rate, MAXSAMPPERWORD, MaxFrames, GapSecs} \subseteq Nat \ {0}
  /\ WORDS_PER_FRAME \in Nat /\ WORDS_PER_FRAME > 3
  /\ Quals \subseteq Nat \ {0} /\ Jumps \subseteq Int
  /\ \A j \in Jumps : j = 0 \/ j > GapSecs \/ -j > GapSecs

VARIABLES
  q,                    \* the channel, tlcq and its tcom_packet
  times,                \* the times of the samples in the record begun
  waiting,              \* and of those that wait for a word
  out,                  \* the records finished by the last step
  seconds, input        \* seconds so far and the samples of the last step

vars == <<q, times, waiting, out, seconds, input>>

-----------------------------------------------------------------------------
\* the ways to put n samples into words
RECURSIVE Words(_)
Words(n) ==
  IF n = 0 THEN {<< >>}
  ELSE UNION {{<<k>> \o w : w \in Words(n - k)} : k \in 1..n}

WordsOf(n) == {w \in Words(n) : \A i \in DOMAIN w : w[i] <= MAXSAMPPERWORD}

\* what a function of the source works on: the channel, the samples in it
\* and the records it has finished
State == [q |-> q, times |-> times, waiting |-> waiting, out |-> << >>]

Becomes(s) ==
  q' = s.q /\ times' = s.times /\ waiting' = s.waiting /\ out' = s.out

\* fault: the backup tag is the time of the mark, not of the next record
install_header_fault(c) ==
  LET tag == IF c.timetag < 1 THEN c.backup_tag ELSE c.timetag
  IN [c EXCEPT !.backup_tag = tag, !.timetag = 0, !.timequal = 0,
               !.blockette_count = 0]

(* install_header: the record takes its time, the next one a backup of it. *)
install_header(c) ==
  LET tag == IF c.timetag < 1 THEN c.backup_tag ELSE c.timetag
      qual == IF c.timetag < 1 THEN c.backup_qual ELSE c.timequal
  IN [c EXCEPT !.backup_tag = tag + c.next_compressed_sample - 1,
               !.backup_qual = qual, !.timetag = 0, !.timequal = 0,
               !.blockette_count = 0]

\* set_timetag: the time of the first sample, from that of the marked one
starting_time(c) ==
  (IF c.timetag < 1 THEN c.backup_tag ELSE c.timetag) - (c.time_mark_sample - 1)

finish_record(s) ==
  [s EXCEPT !.q = [install_header(s.q) EXCEPT !.frame = 1,
                                              !.next_compressed_sample = 1],
            !.times = << >>,
            !.out = Append(@, [start |-> starting_time(s.q), times |-> s.times,
                               samples |-> s.q.next_compressed_sample - 1,
                               qual |-> IF s.q.timetag < 1 THEN s.q.backup_qual
                                        ELSE s.q.timequal,
                               frames |-> s.q.frame - 1,
                               blockettes |-> s.q.blockette_count])]

FinishIfFull(s) == IF s.q.frame >= MaxFrames + 1 THEN finish_record(s) ELSE s

(* A word of n samples, by compress_block or build_blocks: the first word  *)
(* of a record comes after the two reverse integration constants, the last *)
(* one of a frame stores the frame.                                        *)
AddWord(s, n) ==
  LET c == s.q
      first == c.frame = c.blockette_count + 1 /\ c.block <= 1
      next == (IF first THEN 3 ELSE c.block) + 1
      full == next >= WORDS_PER_FRAME
  IN FinishIfFull(
       [s EXCEPT !.q = [c EXCEPT !.block = IF full THEN 1 ELSE next,
                                 !.frame = IF full THEN @ + 1 ELSE @,
                                 !.next_compressed_sample = @ + n],
                 !.times = @ \o SubSeq(s.waiting, 1, n),
                 !.waiting = SubSeq(@, n + 1, Len(@))])

AddWords(s, words) == FoldLeft(AddWord, s, words)

(* flush_lcq; words is how the waiting samples are packed.                 *)
flush_lcq(s, words) ==
  LET e == AddWords(s, words)
      partial == e.q.block > 1 /\ e.q.block < WORDS_PER_FRAME
  IN IF e.q.next_compressed_sample > 1
     THEN finish_record(IF partial
                        THEN [e EXCEPT !.q.frame = @ + 1, !.q.block = 1]
                        ELSE e)
     ELSE e

Gap(c, tag) ==
  /\ c.last_timetag > 1
  /\ \/ tag - c.last_timetag - Rate > GapSecs
     \/ c.last_timetag + Rate - tag > GapSecs

\* the time mark of a second: the first one of a record, or a better one
Mark(s, tag, qual) ==
  IF qual > s.q.timequal \/ s.q.timetag = 0
  THEN [s EXCEPT !.q.timetag = tag, !.q.timequal = qual,
                 !.q.time_mark_sample = Len(s.waiting) + s.q.next_compressed_sample]
  ELSE s

-----------------------------------------------------------------------------
Init ==
  /\ q = [timetag |-> 0, timequal |-> 0, backup_tag |-> 0, backup_qual |-> 0,
          last_timetag |-> 0, time_mark_sample |-> 0, frame |-> 1, block |-> 1,
          next_compressed_sample |-> 1, blockette_count |-> 0]
  /\ times = << >> /\ waiting = << >> /\ out = << >>
  /\ seconds = 0 /\ input = << >>

Tag(jump) == IF seconds = 0 THEN FirstTag ELSE q.last_timetag + Rate + jump

(* process_lcq on a second of data: a gap closes the record begun, the     *)
(* second is marked, and its samples are put into words, those of a        *)
(* channel of one sample a second when there are enough of them.           *)
process_lcq(jump, qual) ==
  LET tag == Tag(jump)
      new == [i \in 1..Rate |-> tag + i - 1]
  IN /\ seconds < MaxSeconds /\ tag > 1
     /\ seconds' = seconds + 1 /\ input' = new
     /\ \E flushed \in WordsOf(IF Gap(q, tag) THEN Len(waiting) ELSE 0) :
          LET s == IF Gap(q, tag) THEN flush_lcq(State, flushed) ELSE State
              m == Mark([s EXCEPT !.q.last_timetag = tag], tag, qual)
              e == [m EXCEPT !.waiting = @ \o new]
          IN IF Rate > 1
             THEN \E words \in WordsOf(Rate) : Becomes(AddWords(e, words))
             ELSE IF Len(e.waiting) < MAXSAMPPERWORD THEN Becomes(e)
             ELSE \E n \in 1..MAXSAMPPERWORD : Becomes(AddWord(e, n))

\* flush_lcqs, when the station stops or its data are flushed on request
Flush ==
  /\ input' = << >> /\ UNCHANGED seconds
  /\ \E words \in WordsOf(Len(waiting)) : Becomes(flush_lcq(State, words))

(* add_blockette: an event or calibration blockette takes a frame in front *)
(* of the data; a record on its last frame is flushed first.               *)
AddBlockette ==
  /\ input' = << >> /\ UNCHANGED seconds
  /\ \E words \in WordsOf(IF q.frame >= MaxFrames THEN Len(waiting) ELSE 0) :
       LET s == IF q.frame >= MaxFrames THEN flush_lcq(State, words) ELSE State
       IN Becomes(FinishIfFull([s EXCEPT !.q.blockette_count = @ + 1,
                                         !.q.frame = @ + 1]))

Next == \/ \E jump \in Jumps, qual \in Quals : process_lcq(jump, qual)
        \/ Flush
        \/ AddBlockette

Spec == Init /\ [][Next]_vars

-----------------------------------------------------------------------------
\* The counters that drive the stores into the record buffer stay inside it:
\* no frame is written behind the last one, no word behind a frame.
RecordTypeOK ==
  /\ q.frame \in 1..MaxFrames /\ q.block \in 1..(WORDS_PER_FRAME - 1)
  /\ q.blockette_count \in 0..(q.frame - 1)
  /\ q.next_compressed_sample = Len(times) + 1
  /\ Len(waiting) < MAXSAMPPERWORD
  /\ \A i \in DOMAIN out : out[i].frames \in 1..MaxFrames

\* The header of a record with data says when its first sample was taken,
\* whichever second its time comes from, however the record was closed and
\* whether or not a second began in it.
RecordsAreDated ==
  \A i \in DOMAIN out : out[i].times # << >> => out[i].start = out[i].times[1]

\* A reader spreads the samples of a record evenly from its start: the record
\* says how many there are, and no gap in the data falls inside it.
RecordsAreContiguous ==
  \A i \in DOMAIN out :
    /\ out[i].samples = Len(out[i].times)
    /\ \A k \in 1..(Len(out[i].times) - 1) :
         out[i].times[k + 1] = out[i].times[k] + 1

\* Every sample that comes in leaves in one record, in the order it came:
\* finishing a record in the middle of a second, of a word count or of a
\* flush neither drops nor repeats one.
SamplesAreKept ==
  [][FoldLeft(LAMBDA a, r : a \o r.times, << >>, out') \o times' \o waiting'
       = times \o waiting \o input']_vars
=============================================================================
