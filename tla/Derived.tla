-------------------------------- MODULE Derived --------------------------------
(***************************************************************************)
(* Channels that are made of others (process_lcq, set_slip, create_fir,    *)
(* mac_and_shift): each sample of the source goes into the buffer of a     *)
(* FIR filter; when that is full one sample comes out and as many as the   *)
(* filter decimates by are dropped.  The source of a chain is a channel of *)
(* the digitizer; if that has one sample a second, channels below it begin *)
(* at a second that their rate divides, and again after a gap.             *)
(* Samples are known by the second and number of the digitizer's sample    *)
(* that is the newest in them.                                             *)
(***************************************************************************)
EXTENDS Integers, Sequences, SequencesExt

CONSTANTS
  RootRate,             \* samples a second of the digitizer's channel
  Chain,                \* the channels, each derived from the one before: [rate, fdec, flen]
  RecordSamples,        \* bound: samples in a record (thousands)
  LastSecond, MaxGaps, MaxStarts, \* bounds
  LongestGap

VARIABLES
  data_timetag,         \* the second
  root,                 \* last_timetag of the digitizer's channel
  chs,                  \* of every channel: see Fresh
  discs,                \* LIBMSG_TIMEDISC in this second: the channel and its last_timetag
  called,               \* call_secdata in this second: samples that are in it, and copied
  skipped,              \* the second before which others were lost last
  gaps, starts          \* counted for the bounds

vars == <<data_timetag, root, chs, discs, called, skipped, gaps, starts>>

DerivedAssumption ==
  /\ RootRate \in Nat \ {0} /\ RecordSamples \in Nat \ {0}
  /\ \A k \in DOMAIN Chain : Chain[k].fdec \in 1 .. Chain[k].flen /\ Chain[k].rate \in Int \ {0}
  /\ LastSecond \in Nat /\ MaxGaps \in Nat /\ MaxStarts \in Nat /\ LongestGap \in Nat

-----------------------------------------------------------------------------
Abs(n) == IF n < 0 THEN -n ELSE n

Zero == <<0, 0>>

\* a negative rate is that of so many seconds for a sample
SourceRate(k) == IF k = 1 THEN RootRate ELSE Chain[k - 1].rate

\* init_lcq: only below one sample a second
slip_modulus(k) == IF RootRate = 1 THEN Abs(Chain[k].rate) ELSE 0

gap_offset(k) == IF SourceRate(k) > 0 THEN 1 ELSE Abs(SourceRate(k))

\* with the usual gap_threshold of one half
IsGap(rate, offset, last, now) ==
  /\ last > 0
  /\ IF rate > 0 THEN 2 * Abs(now - last - offset) * rate > 1 ELSE 2 * Abs(now - last - offset) > Abs(rate)

\* fcount of the buffer are charged, create_fir
Fresh(k) ==
  [last |-> 0, slipping |-> slip_modulus(k) # 0, fcount |-> Chain[k].flen - 1,
   fbuf |-> [j \in 1 .. Chain[k].flen |-> Zero],
   timemark_occurred |-> FALSE,
   record |-> << >>, mark |-> Zero, \* its samples; position and second of its time tag
   window |-> << >>]    \* what the newest sample was made of

Init ==
  /\ data_timetag \in 1 .. 4 /\ root = 0 /\ chs = [k \in DOMAIN Chain |-> Fresh(k)]
  /\ discs = {} /\ called = {} /\ skipped = 0 /\ gaps = 0 /\ starts = 0

-----------------------------------------------------------------------------
(* process_lcq of a derived channel.                                       *)

\* fault: a record goes on after a gap
flush_lcq_fault(q) == [q EXCEPT !.mark = Zero]

flush_lcq(q) == [q EXCEPT !.record = << >>, !.mark = Zero]

Restarted(q, k) == [flush_lcq(q) EXCEPT !.slipping = TRUE, !.fcount = Chain[k].flen - 1]

\* the channels below k
set_slip(all, k) ==
  [j \in DOMAIN all |-> IF j > k /\ slip_modulus(j) # 0 THEN Restarted(all[j], j) ELSE all[j]]

\* the modulus has been reached; it has one sample a second or less
Synced(k, now) == now % slip_modulus(k) = slip_modulus(k) - 1

\* fault: the time of the last data is kept at gaps only
Checked_fault(acc, k, now) ==
  LET q == acc.chs[k]
      gap == IsGap(Chain[k].rate, gap_offset(k), q.last, now)
      cut == IF gap THEN set_slip([acc.chs EXCEPT ![k] = flush_lcq(@)], k) ELSE acc.chs
  IN  IF acc.samp > 1 THEN acc
      ELSE [acc EXCEPT !.chs = [cut EXCEPT ![k].last = IF gap \/ @ = 0 THEN now ELSE @, ![k].timemark_occurred = TRUE],
                       !.discs = IF gap THEN @ \cup {[chan |-> k, last |-> q.last]} ELSE @]

\* a gap in what comes in, looked for with the first sample of a second
Checked(acc, k, now) ==
  LET q == acc.chs[k]
      gap == IsGap(Chain[k].rate, gap_offset(k), q.last, now)
      cut == IF gap THEN set_slip([acc.chs EXCEPT ![k] = flush_lcq(@)], k) ELSE acc.chs
  IN  IF acc.samp > 1 THEN acc
      ELSE [acc EXCEPT !.chs = [cut EXCEPT ![k].last = now, ![k].timemark_occurred = TRUE],
                       !.discs = IF gap THEN @ \cup {[chan |-> k, last |-> q.last]} ELSE @]

\* mac_and_shift and what it leaves in the buffer
Shifted(q, k) ==
  LET flen == Chain[k].flen
      fdec == Chain[k].fdec
  IN  [q EXCEPT !.fbuf = [j \in 1 .. flen |-> IF j <= flen - fdec THEN @[j + fdec] ELSE @[j]],
                !.fcount = @ - fdec, !.window = q.fbuf]

\* the first time tag of a record is its time
Marked(q, now) ==
  IF q.timemark_occurred
  THEN [q EXCEPT !.timemark_occurred = FALSE, !.mark = IF @ = Zero THEN <<Len(q.record) + 1, now>> ELSE @]
  ELSE q

\* a record that is full was finished
Recorded(q, v, now) ==
  LET p == IF Len(q.record) = RecordSamples THEN flush_lcq(q) ELSE q
  IN  [Marked(p, now) EXCEPT !.record = Append(@, v)]

\* my_secdata_callback of the shim goes by the rate
Copied(k) == IF Chain[k].rate < 0 THEN 1 ELSE Chain[k].rate

\* one sample for channel k, number acc.samp of what its source has just made
process_lcq(acc, k) ==
  LET now == acc.now
      in == [acc.chs[k] EXCEPT !.slipping = FALSE]
      checked == Checked([acc EXCEPT !.chs[k] = in], k, now)
      q == [checked.chs[k] EXCEPT !.fbuf[checked.chs[k].fcount + 1] = acc.sample, !.fcount = @ + 1]
  IN  IF ~acc.alive \/ (acc.chs[k].slipping /\ ~Synced(k, now)) THEN [acc EXCEPT !.alive = FALSE]
      ELSE IF q.fcount < Chain[k].flen THEN [checked EXCEPT !.chs[k] = q, !.alive = FALSE]
      ELSE [checked EXCEPT !.chs[k] = Recorded(Shifted(q, k), acc.sample, now), !.samp = 1,
                           !.called = @ \cup {[valid |-> 1, copied |-> Copied(k)]}]

\* one sample of the digitizer's channel goes down the chain
Through(acc, i) ==
  FoldLeft(process_lcq, [acc EXCEPT !.alive = TRUE, !.samp = i, !.sample = <<acc.now, i>>], [k \in DOMAIN Chain |-> k])

\* all samples of a second
Processed(all, now) ==
  LET gap == IsGap(RootRate, 1, root, now)
      acc == [chs |-> IF gap THEN set_slip(all, 0) ELSE all, now |-> now, alive |-> TRUE, samp |-> 1,
              sample |-> Zero, discs |-> {}, called |-> {}]
  IN  FoldLeft(Through, acc, [i \in 1 .. RootRate |-> i])

\* the next second of data, or a later one
Second ==
  /\ \E lost \in 0 .. LongestGap :
       /\ lost > 0 => gaps < MaxGaps /\ root > 0
       /\ data_timetag' = data_timetag + lost + 1
       /\ gaps' = IF lost > 0 THEN gaps + 1 ELSE gaps
       /\ skipped' = IF lost > 0 THEN data_timetag' ELSE skipped
  /\ data_timetag' <= LastSecond
  /\ LET done == Processed(chs, data_timetag')
     IN  chs' = done.chs /\ discs' = done.discs /\ called' = done.called
  /\ root' = data_timetag' /\ UNCHANGED starts

\* the session ends, records are flushed; the next one has the continuity or not
Restart ==
  /\ starts < MaxStarts /\ starts' = starts + 1
  /\ \/ chs' = [k \in DOMAIN chs |-> flush_lcq(chs[k])] /\ root' = root
     \/ chs' = [k \in DOMAIN chs |-> Fresh(k)] /\ root' = 0
  /\ discs' = {} /\ called' = {} /\ UNCHANGED <<data_timetag, skipped, gaps>>

Next == Second \/ Restart
Spec == Init /\ [][Next]_vars

-----------------------------------------------------------------------------
Number(v) == v[1] * RootRate + v[2]

\* samples of the digitizer's channel for one of channel k
Decimation(k) == FoldLeft(LAMBDA n, c : n * c.fdec, 1, SubSeq(Chain, 1, k))

\* The samples of a record are one period apart: gaps are between records, below
\* the digitizer's channel, too (process_lcq, set_slip).
RecordIsContinuous ==
  \A k \in DOMAIN chs : \A j \in 2 .. Len(chs[k].record) :
    Number(chs[k].record[j]) = Number(chs[k].record[j - 1]) + Decimation(k)

\* A derived channel of less than one sample a second has its samples at the
\* seconds that its rate divides, whatever was lost (slip_modulus).
SamplesAreAligned ==
  \A k \in DOMAIN chs : slip_modulus(k) # 0 =>
    \A j \in DOMAIN chs[k].record : (chs[k].record[j][1] + 1) % slip_modulus(k) = 0

\* The time of a record is that of the sample that it is given for (timemark_occurred).
TimeIsOfSample ==
  \A k \in DOMAIN chs :
    LET mark == chs[k].mark
    IN  mark[1] \in DOMAIN chs[k].record => chs[k].record[mark[1]] = <<mark[2], 1>>

\* A gap is found only where seconds were lost since the last data of the channel.
GapIsGap == \A d \in discs : d.last < skipped

\* What a filter is applied to are samples in the order of time, or the zeros it
\* was made with: "must restore fir filter to waiting to start state" (set_slip).
WindowIsInOrder ==
  \A k \in DOMAIN chs : \A j \in 2 .. Len(chs[k].window) :
    chs[k].window[j - 1] = Zero \/ Number(chs[k].window[j - 1]) < Number(chs[k].window[j])

\* As many samples of a call are used as are in it (total_size, rate).
CopiedAreValid == \A c \in called : c.copied <= c.valid
=============================================================================
