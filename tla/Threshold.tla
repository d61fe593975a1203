------------------------------ MODULE Threshold ------------------------------
(***************************************************************************)
(* The threshold detector (libdetect.c, Te_detect) and the loop that feeds *)
(* it a second of a channel (libsample.c, detect_record).  The detector    *)
(* leaves its loop at every onset and is called again for the rest.  An    *)
(* event begins after n_hits samples over a limit and ends after wait_blk  *)
(* samples on the right side of it; one counter, waitdly, serves both      *)
(* limits.  A sample is chosen when it is looked at.                       *)
(***************************************************************************)
EXTENDS Integers

CONSTANTS
  Samples,              \* values of samples
  filhi, fillo, iwin,   \* limits and hysteresis
  n_hits, wait_blk,
  DataPts               \* samples of a record

ThresholdAssumption ==
  /\ Samples \subseteq Int /\ {filhi, fillo} \subseteq Int /\ fillo < filhi
  /\ {iwin, wait_blk} \subseteq Nat /\ {n_hits, DataPts} \subseteq Nat \ {0}

VARIABLES
  tcs,                  \* threshold_control_struc
  sam_no, remaining,    \* of the detector: the next sample, whether to call again
  have_detection, result, onset, \* of detect_record
  detector_on, detector_enabled,
  pc,                   \* idle, call, loop or done
  overs, quiet,         \* ghost: samples over a limit in a row, and beyond it since
  seen, onsets          \* ghost: samples looked at and onsets, of this record

vars == <<tcs, sam_no, remaining, have_detection, result, onset, detector_on, detector_enabled,
          pc, overs, quiet, seen, onsets>>

Sides == {"hi", "lo"}

Init ==
  /\ tcs = [over |-> [s \in Sides |-> 0], evon |-> [s \in Sides |-> FALSE], waitdly |-> 0,
            new_onset |-> FALSE]
  /\ sam_no = 0 /\ remaining = FALSE /\ have_detection = FALSE /\ result = FALSE /\ onset = -1
  /\ detector_on = FALSE /\ detector_enabled = TRUE /\ pc = "idle"
  /\ overs = [s \in Sides |-> 0] /\ quiet = [s \in Sides |-> 0]
  /\ seen = 0 /\ onsets = << >>

Over(s, x) == IF s = "hi" THEN x > filhi ELSE x < fillo
Beyond(s, x) == IF s = "hi" THEN x < filhi - iwin ELSE x > fillo + iwin

-----------------------------------------------------------------------------
(* One sample.  A side of the detector gives its state and whether the     *)
(* loop is left.                                                           *)

Begins(t, s) == ~t.evon[s] /\ t.over[s] + 1 >= n_hits

\* the sample is over the limit
Hit(t, s) ==
  IF Begins(t, s)
  THEN [t EXCEPT !.over[s] = @ + 1, !.evon[s] = TRUE, !.new_onset = TRUE]
  ELSE [t EXCEPT !.over[s] = IF t.evon[s] THEN @ ELSE @ + 1, !.waitdly = 0]

Miss(t, s, x) ==
  IF ~(t.evon[s] /\ Beyond(s, x)) THEN t
  ELSE IF t.waitdly + 1 > wait_blk
       THEN [t EXCEPT !.waitdly = @ + 1, !.over[s] = 0, !.evon[s] = FALSE]
       ELSE [t EXCEPT !.waitdly = @ + 1]

Side(t, s, x) == IF Over(s, x) THEN Hit(t, s) ELSE Miss(t, s, x)
Breaks(t, s, x) == Over(s, x) /\ Begins(t, s)

Counted(n) == IF n > wait_blk THEN n ELSE n + 1

-----------------------------------------------------------------------------
\* A second of data: detect_record begins, unless the detector is disabled.
detect_record ==
  /\ pc = "idle" /\ onset' = -1 /\ seen' = 0 /\ onsets' = << >>
  /\ have_detection' = FALSE /\ result' = FALSE
  /\ IF detector_enabled THEN pc' = "call" /\ UNCHANGED detector_on
                         ELSE detector_on' = FALSE /\ UNCHANGED pc
  /\ UNCHANGED <<tcs, sam_no, remaining, detector_enabled, overs, quiet>>

\* where the loop goes on
Resumed == IF remaining THEN sam_no ELSE 0

Te_detect ==
  /\ pc = "call" /\ pc' = "loop"
  /\ tcs' = [tcs EXCEPT !.new_onset = FALSE]
  /\ sam_no' = Resumed
  /\ UNCHANGED <<remaining, have_detection, result, onset, detector_on, detector_enabled, overs,
                 quiet, seen, onsets>>

\* the first onset of a record is kept
Kept(t) == t.new_onset /\ ~have_detection

\* the call ends before sample n
Return(t, n) ==
  LET on == t.evon["hi"] \/ t.evon["lo"]
  IN /\ remaining' = (n < DataPts)
     /\ result' = (result \/ on)
     /\ have_detection' = (have_detection \/ (on /\ t.new_onset))
     /\ onset' = IF on /\ Kept(t) THEN n - 1 - (n_hits - 1) ELSE onset   \* gettime
     /\ pc' = IF n < DataPts THEN "call" ELSE "done"

Sample ==
  \E x \in Samples :
    LET hi == Side(tcs, "hi", x)
        t == IF Breaks(tcs, "hi", x) THEN hi ELSE Side(hi, "lo", x)
        breaks == Breaks(tcs, "hi", x) \/ Breaks(hi, "lo", x)
    IN /\ pc = "loop" /\ tcs' = t /\ sam_no' = sam_no + 1
       /\ IF breaks \/ sam_no + 1 = DataPts THEN Return(t, sam_no + 1)
          ELSE UNCHANGED <<remaining, have_detection, result, onset, pc>>
       /\ overs' = [s \in Sides |-> IF ~Over(s, x) THEN 0
                                    ELSE IF overs[s] = n_hits THEN n_hits ELSE overs[s] + 1]
       /\ quiet' = [s \in Sides |-> IF Over(s, x) THEN 0
                                    ELSE IF Beyond(s, x) THEN Counted(quiet[s]) ELSE quiet[s]]
       /\ seen' = seen + 1
       /\ onsets' = IF breaks /\ onsets = << >> THEN <<seen - (n_hits - 1)>> ELSE onsets
       /\ UNCHANGED <<detector_on, detector_enabled>>

Finish ==
  /\ pc = "done" /\ pc' = "idle" /\ detector_on' = (result \/ have_detection)
  /\ UNCHANGED <<tcs, sam_no, remaining, have_detection, result, onset, detector_enabled, overs,
                 quiet, seen, onsets>>

\* between two records
lib_changeenable ==
  /\ pc = "idle" /\ detector_enabled' = ~detector_enabled
  /\ UNCHANGED <<tcs, sam_no, remaining, have_detection, result, onset, detector_on, pc, overs,
                 quiet, seen, onsets>>

Next == detect_record \/ Te_detect \/ Sample \/ Finish \/ lib_changeenable

Spec == Init /\ [][Next]_vars

-----------------------------------------------------------------------------
Ends(s) == tcs.evon[s] /\ ~tcs'.evon[s]

\* A detector that leaves its loop at every onset still looks at every sample
\* of the record once, and the onset that is kept is the first.
EverySampleOnce ==
  pc = "done" =>
    /\ seen = DataPts
    /\ have_detection = (onsets # << >>)
    /\ have_detection => onset = onsets[1]

\* An event ends after wait_blk samples beyond its limit ("controls
\* re-activation of detector", libsampglob.h).
WaitsForBlock == [][\A s \in Sides : Ends(s) => quiet'[s] > wait_blk]_vars

\* An event begins with n_hits samples over the limit in a row: n_hits is the
\* "threshold min. dur.", and gettime dates the onset n_hits - 1 samples back.
MinDuration ==
  [][\A s \in Sides : ~tcs.evon[s] /\ tcs'.evon[s] => overs'[s] >= n_hits]_vars
=============================================================================
