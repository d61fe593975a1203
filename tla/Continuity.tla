------------------------------ MODULE Continuity ------------------------------
(***************************************************************************)
(* The Q330 continuity of lib330 (libcont.c): when the channels are removed*)
(* what they need to go on without a gap is kept as a list of records in   *)
(* memory, and is written to a file at once or later; when channels are    *)
(* made it is restored from the list, which the first time is read from    *)
(* the file, and the first data after that mark it as used.                *)
(*                                                                         *)
(* A part is one record of a channel: its queue, a filter, a detector or a *)
(* full buffer of its pre-event ring.  The value of a part is the second   *)
(* of data up to which it goes; what else it holds is left out.  The check *)
(* sum of a record tells whether the record was written completely.        *)
(***************************************************************************)
EXTENDS Integers, Sequences, SequencesExt

CONSTANTS
  Parts,                \* a sequence: the parts that are always saved
  RingPart,             \* one that is saved only when it is full
  Size,                 \* of the record of each part, and of "SYSTEM"
  Crashes, TornWrites,  \* whether the program may end at any time, also
                        \* while it writes the file
  MediaErrors,          \* whether the file may fail to open
  MaxSecond, MaxReboots, MaxStarts, MaxBuffers \* bounds

AllParts == Range(Parts) \cup {RingPart}

ContinuityAssumption ==
  /\ Parts # << >> /\ RingPart \notin Range(Parts) /\ "SYSTEM" \notin AllParts
  /\ Size \in [AllParts \cup {"SYSTEM"} -> Nat \ {0}]
  /\ Crashes \in BOOLEAN /\ TornWrites \in BOOLEAN /\ MediaErrors \in BOOLEAN
  /\ MaxSecond \in Nat /\ MaxReboots \in Nat /\ MaxStarts \in Nat /\ MaxBuffers \in Nat

Garbage == -1

VARIABLES
  phase,                \* "down", "idle" without channels, "run" with them
  channels,             \* the value of every part
  contingood, first_data,
  conthead,             \* the list: a buffer and a record each
  contfree,             \* the free list: buffers
  allocsize,            \* of every buffer
  q330cont_updated,
  file                  \* a sequence of records

VARIABLES
  latest,               \* the last second processed since the Q330 started
  reboots, starts       \* of the Q330, of the program

memory == <<conthead, contfree, allocsize, q330cont_updated>>
session == <<phase, channels, contingood, first_data>>
vars == <<session, memory, file, latest, reboots, starts>>

\* what a record holds: which part, of which second; a system record also the
\* reboots of the Q330 and whether it is CTY_SYSTEM or CTY_PURGED
System(second, n, purged) ==
  [part |-> "SYSTEM", second |-> second, reboots |-> n, purged |-> purged, whole |-> TRUE]
Record(part, second) ==
  [part |-> part, second |-> second, reboots |-> 0, purged |-> FALSE, whole |-> TRUE]

Fresh == [p \in AllParts |-> 0]

Init ==
  /\ phase = "down" /\ channels = Fresh /\ contingood = FALSE /\ first_data = FALSE
  /\ conthead = << >> /\ contfree = << >> /\ allocsize = << >>
  /\ q330cont_updated = FALSE /\ file = << >>
  /\ latest = 0 /\ reboots = 0 /\ starts = 0

-----------------------------------------------------------------------------
(* The list in memory.                                                     *)

Without(s, i) == SubSeq(s, 1, i - 1) \o SubSeq(s, i + 1, Len(s))

\* the place in the free list of the buffer to use: the first of the right
\* size, else the first of the smallest that is large enough, else none
Fits_fault(free, alloc, size) == IF free = << >> THEN 0 ELSE 1

Fits(free, alloc, size) ==
  LET Exact == {i \in DOMAIN free : alloc[free[i]] = size}
      Large == {i \in DOMAIN free : alloc[free[i]] > size}
      First(S) == CHOOSE i \in S : \A j \in S : i <= j
      Best == {i \in Large : \A j \in Large : alloc[free[i]] <= alloc[free[j]]}
  IN IF Exact # {} THEN First(Exact) ELSE IF Large # {} THEN First(Best) ELSE 0

\* q330cont_write of one record, with the list and the buffers before it
q330cont_write(m, r) ==
  LET i == Fits(m.free, m.alloc, Size[r.part])
  IN IF i = 0
     THEN [head |-> Append(m.head, [buf |-> Len(m.alloc) + 1, rec |-> r]),
           free |-> m.free, alloc |-> Append(m.alloc, Size[r.part])]
     ELSE [head |-> Append(m.head, [buf |-> m.free[i], rec |-> r]),
           free |-> Without(m.free, i), alloc |-> m.alloc]

Contents == [i \in DOMAIN conthead |-> conthead[i].rec]

\* a file that could not be opened is left as it is
write_q330_cont ==
  \/ file' = [i \in DOMAIN conthead' |-> conthead'[i].rec] /\ q330cont_updated' = FALSE
  \/ MediaErrors /\ UNCHANGED file /\ q330cont_updated' = TRUE

(* read_q330_cont: a record that is not whole is the last one to be read.  *)
(* It is in the list; the result says whether there was a good one.        *)
ReadLimit ==
  LET Bad == {i \in DOMAIN file : ~file[i].whole}
  IN IF Bad = {} THEN Len(file) ELSE CHOOSE i \in Bad : \A j \in Bad : i <= j

read_q330_cont ==
  /\ conthead' = [i \in 1..ReadLimit |-> [buf |-> i, rec |-> file[i]]]
  /\ allocsize' = [i \in 1..ReadLimit |-> Size[file[i].part]]
  /\ q330cont_updated' = FALSE /\ UNCHANGED contfree

\* what check_continuity asks of the system record
Matches(s) == s.whole /\ ~s.purged /\ s.reboots = reboots

\* what a record of the list does for its part, one that is broken too
Value(r) == IF r.whole THEN r.second ELSE Garbage

\* restore_continuity: the last record of a part counts
Restored(list) ==
  [p \in AllParts |->
     LET At == {i \in 2..Len(list) : list[i].rec.part = p}
     IN IF At = {} THEN 0 ELSE Value(list[CHOOSE i \in At : \A j \in At : j <= i].rec)]

-----------------------------------------------------------------------------
Start ==
  /\ phase = "down" /\ starts < MaxStarts
  /\ phase' = "idle" /\ starts' = starts + 1
  /\ UNCHANGED <<channels, contingood, first_data, memory, file, latest, reboots>>

\* decode_cfg: the channels are made and, when the time is known, restored
MakeChannels ==
  /\ phase = "idle" /\ phase' = "run" /\ first_data' = TRUE
  /\ IF conthead # << >> THEN UNCHANGED memory
     ELSE \/ read_q330_cont
          \/ (MediaErrors \/ file = << >>) /\ UNCHANGED memory
  /\ contingood' = (/\ conthead' # << >> /\ Matches(conthead'[1].rec)
                    /\ conthead'[1].rec.second > 0)
  /\ channels' = IF contingood' THEN Restored(conthead') ELSE Fresh
  /\ UNCHANGED <<file, latest, reboots, starts>>

purge_continuity ==
  conthead' = IF conthead # << >> /\ conthead[1].rec.whole
              THEN [conthead EXCEPT ![1].rec.purged = TRUE] ELSE conthead

\* a second of data; the ring part may be emptied by the event that it was for
Data ==
  /\ phase = "run" /\ latest < MaxSecond
  /\ latest' = latest + 1
  /\ \E full \in BOOLEAN :
       channels' = [p \in AllParts |-> IF p = RingPart /\ ~full THEN 0 ELSE latest']
  /\ first_data' = FALSE
  /\ IF first_data THEN purge_continuity ELSE UNCHANGED conthead
  /\ UNCHANGED <<phase, contingood, contfree, allocsize, q330cont_updated,
                 file, reboots, starts>>

\* save_continuity begins by moving the list to the free list
Freed == [head |-> << >>, free |-> contfree \o [i \in DOMAIN conthead |-> conthead[i].buf],
          alloc |-> allocsize]

SavedRing ==
  IF channels[RingPart] = 0 THEN << >> ELSE <<Record(RingPart, channels[RingPart])>>

\* the records saved: the time is the one of the queue of the first channel
Saved ==
  <<System(channels[Parts[1]], reboots, FALSE)>>
    \o [i \in DOMAIN Parts |-> Record(Parts[i], channels[Parts[i]])]
    \o SavedRing

\* deallocate_sg, with save_continuity
RemoveChannels ==
  /\ phase = "run" /\ phase' = "idle"
  /\ LET m == FoldLeft(q330cont_write, Freed, Saved)
     IN /\ conthead' = m.head /\ contfree' = m.free /\ allocsize' = m.alloc
  /\ \/ write_q330_cont                                 \* long enough ago
     \/ UNCHANGED file /\ q330cont_updated' = TRUE
  /\ contingood' = FALSE /\ first_data' = FALSE /\ channels' = Fresh
  /\ UNCHANGED <<latest, reboots, starts>>

continuity_timer ==
  /\ phase # "down" /\ q330cont_updated
  /\ UNCHANGED <<conthead, contfree, allocsize>> /\ write_q330_cont
  /\ UNCHANGED <<session, latest, reboots, starts>>

Ended == /\ phase' = "down" /\ channels' = Fresh
         /\ contingood' = FALSE /\ first_data' = FALSE
         /\ conthead' = << >> /\ contfree' = << >> /\ allocsize' = << >>
         /\ q330cont_updated' = FALSE

\* save_thread_continuity
LastWrite ==
  \/ file' = IF q330cont_updated THEN Contents ELSE file
  \/ MediaErrors /\ file' = file

\* the thread ends
Stop ==
  /\ phase = "idle"
  /\ LastWrite /\ Ended
  /\ UNCHANGED <<latest, reboots, starts>>

\* fault: the file is written over what was in it
Truncated_fault(written) == written \o SubSeq(file, Len(written) + 1, Len(file))

\* the file is created anew
Truncated(written) == written

\* The program ends.  If it is writing the file, the file holds some of the
\* records, the last of them perhaps in part.
Crash ==
  /\ Crashes /\ phase # "down" /\ Ended
  /\ \/ UNCHANGED file
     \/ /\ TornWrites /\ q330cont_updated
        /\ \E n \in 0..(Len(conthead) - 1), torn \in BOOLEAN :
             file' = Truncated(SubSeq(Contents, 1, n)
                       \o IF torn THEN <<[Contents[n + 1] EXCEPT !.whole = FALSE]>> ELSE << >>)
  /\ UNCHANGED <<latest, reboots, starts>>

\* the Q330 starts again and numbers its data from the beginning
Q330Reboot ==
  /\ phase # "run" /\ reboots < MaxReboots
  /\ reboots' = reboots + 1 /\ latest' = 0
  /\ UNCHANGED <<session, memory, file, starts>>

Next ==
  \/ Start \/ MakeChannels \/ Data \/ RemoveChannels \/ continuity_timer
  \/ Stop \/ Crash \/ Q330Reboot

Spec == Init /\ [][Next]_vars

-----------------------------------------------------------------------------
\* Every buffer is in one of the two lists, once, and is large enough for the
\* record it holds; there are never more buffers than MaxBuffers.
ContinuityTypeOK ==
  LET used == [i \in DOMAIN conthead |-> conthead[i].buf]
  IN /\ phase \in {"down", "idle", "run"}
     /\ IsInjective(used \o contfree)
     /\ Range(used \o contfree) = DOMAIN allocsize
     /\ \A i \in DOMAIN conthead : Size[conthead[i].rec.part] <= allocsize[conthead[i].buf]
     /\ Len(allocsize) <= MaxBuffers

Restoring == phase = "run" /\ first_data /\ contingood

\* Channels go on where they were: what is restored is what the last second of
\* data left, or there was none since the Q330 started.  A continuity that data
\* have been processed with is not used again.
RestoredIsLatest ==
  Restoring => \A p \in AllParts \ {RingPart} : channels[p] = latest

\* Only records that were written completely are restored.
RestoredIsWhole == Restoring => \A p \in AllParts : channels[p] # Garbage

\* What is restored is of one moment: no part goes further than another.
RestoredIsCoherent ==
  Restoring => \A p, q \in AllParts :
    channels[p] > 0 /\ channels[q] > 0 => channels[p] = channels[q]

\* Nothing is restored of the time before the Q330 started.
RestoredIsOfThisQ330 ==
  Restoring => \A p \in AllParts : channels[p] <= latest
=============================================================================
