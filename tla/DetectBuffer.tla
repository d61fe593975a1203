----------------------------- MODULE DetectBuffer -----------------------------
(***************************************************************************)
(* How the samples of a channel reach the Murdock-Hutt detector            *)
(* (run_detector_chain and detect_record of libsample.c, E_detect and      *)
(* initialize_detector of libdetect.c).  A channel of few samples a second *)
(* is buffered until MINPOINTS are there.  The detector leaves its loop    *)
(* with an event, anywhere in the buffer, and is called again while        *)
(* remaining says so.  Samples are their numbers; when an event is seen    *)
(* and how long it lasts is any (module Murdock).                          *)
(***************************************************************************)
EXTENDS Integers, Sequences

CONSTANTS
  Rate,                 \* samples a second, 0 for less than one
  Processed,            \* the samples come one by one, from a filter
  MINPOINTS,
  MaxSamples            \* bound

DetectBufferAssumption ==
  Rate \in Nat /\ Processed \in BOOLEAN /\ {MINPOINTS, MaxSamples} \subseteq Nat \ {0}

VARIABLES
  arrived,              \* samples so far
  insamps, sampcnt,     \* the buffer and what of it is filled
  sam_no, remaining,
  itc,                  \* whether an event still counts down
  new_onset, have_detection, result,
  detector_on, first_detection, detection_declared,
  pc, last,             \* ghost: where detect_record is, the sample looked at last
  quiet                 \* ghost: a call without a detection has been made

vars == <<arrived, insamps, sampcnt, sam_no, remaining, itc, new_onset, have_detection, result,
          detector_on, first_detection, detection_declared, pc, last, quiet>>
detection == <<detector_on, first_detection, detection_declared>>

\* grpsize, 0 if the samples are not buffered, and datapts
Single == Rate = 0 \/ Processed
grpsize == IF Single THEN 1 ELSE IF Rate >= MINPOINTS THEN 0 ELSE Rate
datapts ==
  IF Rate >= MINPOINTS THEN Rate
  ELSE LET j == MINPOINTS \div grpsize
       IN IF grpsize * j = MINPOINTS THEN MINPOINTS ELSE grpsize * (j + 1)
Arriving == IF Single THEN 1 ELSE Rate

Init ==
  /\ arrived = 0 /\ insamps = [i \in 0 .. datapts - 1 |-> 0] /\ sampcnt = 0
  /\ sam_no = 0 /\ remaining = FALSE /\ itc = TRUE
  /\ new_onset = FALSE /\ have_detection = FALSE /\ result = FALSE
  /\ detector_on = FALSE /\ first_detection = TRUE /\ detection_declared = FALSE
  /\ pc = "idle" /\ last = 0 /\ quiet = FALSE

-----------------------------------------------------------------------------
\* samples arrive
run_detector_chain ==
  /\ pc = "idle" /\ arrived + Arriving <= MaxSamples
  /\ arrived' = arrived + Arriving /\ pc' = "call"
  /\ have_detection' = FALSE /\ result' = FALSE
  /\ UNCHANGED <<insamps, sampcnt, sam_no, remaining, itc, new_onset, detection, last, quiet>>

\* whether there is more
More(found, more) == more

\* The call ends: with found, an event was seen or goes on; with more, there
\* are samples left.
Return(found, onset, more) ==
  /\ remaining' = More(found, more) /\ new_onset' = onset
  /\ result' = (result \/ found) /\ have_detection' = (have_detection \/ (found /\ onset))
  /\ pc' = IF More(found, more) THEN "call" ELSE "done"

\* fault: the loop begins with the first sample again
Start_fault == 0

\* where the loop begins without a buffer
Start == IF remaining THEN sam_no ELSE 0

\* the group that arrived, put behind what is in the buffer
Buffered ==
  [i \in 0 .. datapts - 1 |->
     IF i \in sampcnt .. sampcnt + grpsize - 1 THEN arrived - grpsize + 1 + i - sampcnt
     ELSE insamps[i]]

E_detect ==
  /\ pc = "call"
  /\ IF grpsize = 0
     THEN /\ sam_no' = Start /\ pc' = "loop" /\ new_onset' = FALSE
          /\ insamps' = [i \in 0 .. datapts - 1 |-> arrived - datapts + 1 + i]
          /\ UNCHANGED <<sampcnt, remaining, result, have_detection>>
     ELSE /\ insamps' = Buffered
          /\ sam_no' = IF sampcnt = 0 THEN 0 ELSE sam_no
          /\ IF sampcnt + grpsize >= datapts
             THEN /\ sampcnt' = 0 /\ pc' = "loop" /\ new_onset' = FALSE
                  /\ UNCHANGED <<remaining, result, have_detection>>
             ELSE sampcnt' = sampcnt + grpsize /\ Return(itc, FALSE, FALSE)
  /\ UNCHANGED <<arrived, itc, detection, last, quiet>>

Sample ==
  \E event, more \in BOOLEAN :
    /\ pc = "loop" /\ last' = insamps[sam_no] /\ sam_no' = sam_no + 1
    /\ itc' = (event \/ (itc /\ more))
    /\ IF event \/ sam_no + 1 = datapts THEN Return(event \/ itc, event, sam_no + 1 < datapts)
       ELSE /\ result' = (result \/ itc)
            /\ UNCHANGED <<remaining, new_onset, have_detection, pc>>
    /\ UNCHANGED <<arrived, insamps, sampcnt, detection, quiet>>

\* a detection that ends is not the first any more
First == first_detection /\ ~(detector_on /\ ~(result \/ have_detection))

Finish ==
  LET on == result \/ have_detection
  IN /\ pc = "done" /\ pc' = "idle"
     /\ detector_on' = on /\ first_detection' = First
     /\ detection_declared' = (on /\ ~First)
     /\ quiet' = (quiet \/ ~on)
     /\ UNCHANGED <<arrived, insamps, sampcnt, sam_no, remaining, itc, new_onset, have_detection,
                    result, last>>

Next == run_detector_chain \/ E_detect \/ Sample \/ Finish

Spec == Init /\ [][Next]_vars

-----------------------------------------------------------------------------
\* The detector looks at the samples in their order, each once, and none is
\* lost: what it has not looked at is in the buffer (remaining, "true if more
\* samples to process in current rec").
SamplesInOrder == [][last' # last => last' = last + 1]_vars
NoneIsLost == pc = "idle" => last + sampcnt = arrived

\* The detection that begins with the start of the program is not declared
\* (first_detection, "if this is first detection after startup").
DeclaredAfterQuiet == detection_declared => quiet
=============================================================================
