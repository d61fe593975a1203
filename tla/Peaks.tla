-------------------------------- MODULE Peaks --------------------------------
(***************************************************************************)
(* Where the P-T values of the Murdock-Hutt detector come from (E_detect,  *)
(* libdetect.c): samples, scaled, are followed from turn to turn; the      *)
(* swing between two turns is a value, with the place of the later turn.   *)
(* Swings up to the threshold thx measure the noise, and the thresholds    *)
(* follow it (P_two, Xth).  What becomes of the values is in Murdock;      *)
(* here an event may be on or not whenever that matters.  Records are      *)
(* counted modulo CUR_MAX.  Integers have Width bits.                      *)
(***************************************************************************)
EXTENDS Integers, Sequences, FiniteSetsExt, Functions

CONSTANTS
  Samples, DataPts,     \* values of samples, and how many a record has
  Width, SHIFT,         \* of integers; DET_SCALE_SHIFT
  CUR_MAX,
  Swings,               \* of which the largest measures the noise
  val_avg,              \* how many of those are averaged
  Noise,                \* the estimate of a new detector
  xth,                  \* of th1, th2, th3 and thx, in eighths
  MaxSamples            \* bound

Thresholds == {"th1", "th2", "th3", "thx"}
Scale == 2 ^ SHIFT

PeaksAssumption ==
  /\ Samples \subseteq Int /\ {DataPts, Width, CUR_MAX, Swings, val_avg, Noise} \subseteq Nat \ {0}
  /\ {SHIFT, MaxSamples} \subseteq Nat /\ xth \in [Thresholds -> Nat]

VARIABLES
  con,                  \* con_sto
  sam_no,               \* of the record, the next sample
  values,               \* the values so far: swing, place of the turn and its record
  seen                  \* ghost: the samples

vars == <<con, sam_no, values, seen>>

Wrap(n) == ((n + 2 ^ (Width - 1)) % 2 ^ Width) - 2 ^ (Width - 1)
Abs(n) == IF n < 0 THEN -n ELSE n

FirstTh == [t \in Thresholds |-> IF t = "thx" THEN 2 * Noise ELSE (5 * Noise) \div 3]

\* a new detector: what was measured of nothing, and thresholds to begin with
Init ==
  /\ con = [last_y |-> 0, max_y |-> 0, prev_slope |-> "neither", last_x |-> 0, rec_last_x |-> 0,
            cur_rec |-> 0, maxamp |-> 0, index |-> 0, kk |-> 0, twosd |-> Noise,
            tsstak |-> [i \in 0 .. val_avg - 1 |-> (10 * Noise) \div 3],
            th |-> FirstTh]
  /\ sam_no = DataPts /\ values = << >> /\ seen = << >>

-----------------------------------------------------------------------------
\* a threshold of x eighths of the noise, added up from shifted parts
Xth(twosd, x) ==
  LET bit(k) == (x \div 2 ^ k) % 2
      whole == [k \in 3 .. 7 |-> bit(k) * twosd * 2 ^ (k - 3)]
      part == [k \in 0 .. 2 |-> bit(k) * (twosd \div 2 ^ (3 - k))]
  IN Wrap(MapThenSumSet(LAMBDA k : whole[k], 3 .. 7) + MapThenSumSet(LAMBDA k : part[k], 0 .. 2))

Estimate(stack) ==
  LET avg == MapThenSumSet(LAMBDA i : stack[i], DOMAIN stack) \div val_avg
  IN IF avg <= 0 THEN 1000000 ELSE avg

P_two(c, amp) ==
  LET stack == [c.tsstak EXCEPT ![c.kk] = amp]
      twosd == Estimate(stack)
  IN [c EXCEPT !.tsstak = stack, !.kk = (@ + 1) % val_avg, !.twosd = twosd,
               !.th = [t \in Thresholds |-> Xth(twosd, xth[t])]]

\* a swing up to thx; after a number of them the noise is measured, unless an
\* event is on
Quiet(c, amp, evon) ==
  LET largest == IF amp > c.maxamp THEN amp ELSE c.maxamp
      counted == [c EXCEPT !.maxamp = largest, !.index = @ + 1]
  IN IF counted.index < Swings THEN counted
     ELSE [IF largest > 0 /\ ~evon THEN P_two(counted, largest) ELSE counted
             EXCEPT !.maxamp = 0, !.index = 0]

\* the next record, or the next sample of this one
Record(c) == IF sam_no < DataPts THEN c ELSE [c EXCEPT !.cur_rec = (@ + 1) % CUR_MAX]
Sample == IF sam_no < DataPts THEN sam_no ELSE 0

\* the sample becomes the last one
Last(c, in_data, n) == [c EXCEPT !.last_y = in_data, !.last_x = n, !.rec_last_x = c.cur_rec]

Turn(c, slope, in_data, n) ==
  Last([c EXCEPT !.prev_slope = slope, !.max_y = c.last_y], in_data, n)

E_detect ==
  \E x \in Samples, evon \in BOOLEAN :
    LET c == Record(con)
        in_data == Wrap(x * Scale)
        del_amp == Wrap(in_data - c.last_y)
        slope == IF del_amp < 0 THEN "neg" ELSE "pos"
        s_amp == Wrap(c.max_y - c.last_y)
        turned == Turn(c, slope, in_data, Sample)
    IN /\ Len(seen) < MaxSamples /\ seen' = Append(seen, x) /\ sam_no' = Sample + 1
       /\ IF slope # c.prev_slope
          THEN /\ values' = Append(values, [amp |-> s_amp, tim |-> c.last_x, rec |-> c.rec_last_x])
               /\ con' = IF Abs(s_amp) > c.th["thx"] THEN turned ELSE Quiet(turned, Abs(s_amp), evon)
          ELSE con' = Last(c, in_data, Sample) /\ UNCHANGED values

Next == E_detect

Spec == Init /\ [][Next]_vars

-----------------------------------------------------------------------------
(* What an onset says of its values: Onset.                                *)

\* the place of a value, from the beginning of this record
Dated(v) == v.tim - DataPts * ((con.cur_rec - v.rec) % CUR_MAX)

\* the signal to noise ratio
Snr(v) ==
  LET base(i) == con.twosd - con.twosd \div 2 + i * con.twosd
      above == {i \in 0 .. 8 : Abs(v.amp) < base(i)}
  IN IF above = {} THEN 9 ELSE Min(above)

-----------------------------------------------------------------------------
(* What must hold.                                                         *)

\* samples and the differences of any two fit
Fit == \A i \in DOMAIN seen : Abs(seen[i]) * Scale < 2 ^ (Width - 2)

\* the turns: the zero before all samples, and samples on both sides of which the
\* slopes differ; a level counts as rising
Level(i) == IF i = 0 THEN 0 ELSE seen[i]
Rises(i) == Level(i + 1) >= Level(i)
Turns == {i \in 0 .. Len(seen) - 1 : i = 0 \/ Rises(i - 1) # Rises(i)}
TurnNo(k) == CHOOSE i \in Turns : Cardinality({j \in Turns : j <= i}) = k
Begun == Len(seen) - sam_no             \* samples before this record

\* libdetect.c, E_detect: the values are the differences of neighbouring peaks
\* and troughs of the samples, across records, and none is missing
SwingsAreExact ==
  Fit => /\ Len(values) = Cardinality(Turns)
         /\ \A k \in DOMAIN values :
              values[k].amp = IF k = 1 THEN 0
                              ELSE Scale * (Level(TurnNo(k - 1)) - Level(TurnNo(k)))

\* libdetect.c, Onset: a turn is dated by its own sample while it is less than
\* CUR_MAX records old
TurnsAreDated ==
  Fit => \A k \in 2 .. Len(values) :
           LET at == TurnNo(k) - 1
           IN Begun - at <= DataPts * (CUR_MAX - 1) => Dated(values[k]) = at - Begun

\* libdetect.c, P_two and Xth: once measured, the noise lies among what was
\* measured, and each threshold is its share of it, less what three shifts round off, as long as it fits a number
ThresholdsFollow ==
  con.th # FirstTh =>
    /\ con.twosd \in Min(Range(con.tsstak)) .. Max(Range(con.tsstak))
    /\ \A t \in Thresholds :
       con.twosd * xth[t] < 2 ^ (Width + 2) => con.twosd * xth[t] - 8 * con.th[t] \in 0 .. 17

\* libdetect.c, Onset: the ratio is that of the swing to the noise, rounded, up to 9
RatioIsRounded ==
  \A k \in DOMAIN values :
    LET twice == 2 * Abs(values[k].amp) - 2 * con.twosd * Snr(values[k])
    IN twice >= -con.twosd - 1 /\ (Snr(values[k]) < 9 => twice <= con.twosd)
=============================================================================
