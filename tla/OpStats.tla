------------------------------- MODULE OpStats -------------------------------
(***************************************************************************)
(* The operation statistics of a station: counts per minute, kept for the  *)
(* last hour, and per hour, kept for the last day (libstats.c); how they   *)
(* are reported as figures per minute, hour and day (update_op_stats); and *)
(* how they survive a restart of the program that lasted some minutes      *)
(* (libcont.c, process_status).  Of the kinds of statistics there are two: *)
(* a count, and the communication efficiency, which is measured and may be *)
(* unknown for a minute.                                                   *)
(***************************************************************************)
EXTENDS Integers, Sequences, SequencesExt, FiniteSetsExt

CONSTANTS
  MinutesPerHour, HoursPerDay,  \* 60 and 24
  MaxEfficiency,                \* measured while the link is good
  Crashes,                      \* whether the program may end unexpectedly
  MaxDown, MaxMinutes, MaxStarts \* bounds

INVALID_ENTRY == -1

OpStatsAssumption ==
  /\ MinutesPerHour \in Nat \ {0} /\ HoursPerDay \in Nat \ {0, 1}
  /\ MaxEfficiency \in Nat \ {0} /\ Crashes \in BOOLEAN
  /\ MaxDown \in Nat /\ MaxMinutes \in Nat /\ MaxStarts \in Nat

Minutes == 0..(MinutesPerHour - 1)
Hours == 0..(HoursPerDay - 1)
MINS_PER_DAY == MinutesPerHour * HoursPerDay
Kinds == {"count", "comeff"}

VARIABLES
  up,                   \* whether the program runs
  accum,                \* the count of the current minute
  minutes, hours,       \* per kind: of each minute, of each hour
  stat_minutes, stat_hours, total_minutes,
  file,                 \* the thread continuity: none or one record
  down,                 \* minutes since it was written
  recent,               \* what was counted in the last minutes of this run
  ran, starts           \* minutes at all, runs

stats == <<minutes, hours, stat_minutes, stat_hours, total_minutes>>
vars == <<up, accum, stats, file, down, recent, ran, starts>>

Zero == [k \in Kinds |-> [m \in Minutes |-> 0]]
ZeroHours == [k \in Kinds |-> [h \in Hours |-> 0]]
SumOver(f, S) == FoldSet(LAMBDA i, n : n + f[i], 0, S)

Init ==
  /\ up = TRUE /\ accum = 0 /\ minutes = Zero /\ hours = ZeroHours
  /\ stat_minutes = 0 /\ stat_hours = 0 /\ total_minutes = 0
  /\ file = << >> /\ down = 0 /\ recent = << >> /\ ran = 0 /\ starts = 1

-----------------------------------------------------------------------------
(* Counting.                                                               *)

add_status == up /\ accum = 0 /\ accum' = 1 /\ UNCHANGED <<up, stats, file, down, recent, ran, starts>>

Valid(f) == {i \in DOMAIN f : f[i] # INVALID_ENTRY}

\* what an hour's minutes make: the efficiency is extended to the minutes
\* without a measurement
Extended(f) ==
  IF Valid(f) = {} THEN INVALID_ENTRY
  ELSE (SumOver(f, Valid(f)) * MinutesPerHour) \div Cardinality(Valid(f))

HourTotal(kind, f) == IF kind = "count" THEN SumOver(f, Minutes) ELSE Extended(f)

Place_fault == (stat_minutes + 1) % MinutesPerHour

Place == stat_minutes

HourPlace_fault == (stat_hours + 1) % HoursPerDay

HourPlace == stat_hours

\* the sixth ten-second timer: the minute, and with it the hour, may be over
lib_stats_timer ==
  /\ up /\ ran < MaxMinutes
  /\ \E efficiency \in {INVALID_ENTRY, MaxEfficiency} :
       LET new == [minutes EXCEPT !["count"][Place] = accum, !["comeff"][Place] = efficiency]
           next == (stat_hours + 1) % HoursPerDay
       IN  /\ minutes' = new
           /\ stat_minutes' = (stat_minutes + 1) % MinutesPerHour
           /\ IF stat_minutes' = 0
              THEN /\ stat_hours' = next
                   /\ hours' = [k \in Kinds |->
                                 [hours[k] EXCEPT ![HourPlace] = HourTotal(k, new[k]), ![next] = 0]]
              ELSE UNCHANGED <<hours, stat_hours>>
  /\ total_minutes' = total_minutes + 1 /\ accum' = 0
  /\ recent' = Append(IF Len(recent) < MinutesPerHour THEN recent ELSE Tail(recent), accum)
  /\ ran' = ran + 1 /\ down' = (IF file = << >> THEN down ELSE down + 1)
  /\ UNCHANGED <<up, file, starts>>

-----------------------------------------------------------------------------
(* The end of the program and the next start.                              *)

\* save_thread_continuity at an orderly end; otherwise the file stays as it was
Stop ==
  /\ up /\ up' = FALSE
  /\ \/ /\ file' = <<[minutes |-> minutes, hours |-> hours, stat_minutes |-> stat_minutes,
                      stat_hours |-> stat_hours, total_minutes |-> total_minutes]>>
        /\ down' = 0
     \/ Crashes /\ UNCHANGED <<file, down>>
  /\ UNCHANGED <<accum, stats, recent, ran, starts>>

Down == ~up /\ down < MaxDown /\ down' = down + 1
        /\ UNCHANGED <<up, accum, stats, file, recent, ran, starts>>

Unknown == [Zero EXCEPT !["comeff"] = [m \in Minutes |-> INVALID_ENTRY]]

Unmeasured == Unknown

\* Moved(f, n, from, to, base): base with the last n entries of f, the last of them
\* before place from, put before place to; both arrays are circular
Moved(f, n, from, to, base) ==
  LET size == Cardinality(DOMAIN f)
      back(i) == (to - 1 - i) % size      \* distance of place i before "to"
  IN  [i \in DOMAIN f |-> IF back(i) < n THEN f[(from - 1 - back(i)) % size] ELSE base[i]]

MinutePlace(total) == total % MinutesPerHour

\* process_status: nothing is used of a day ago, of a time still to come, or when
\* the time that went by leaves nothing; else the minutes are taken to have been
\* the last ones
process_status(f, tdiff) ==
  LET new     == IF f.total_minutes + tdiff > MINS_PER_DAY
                 THEN MINS_PER_DAY ELSE f.total_minutes + tdiff
      useable == new - tdiff
      thours  == new \div MinutesPerHour
      tmins   == MinutePlace(new)
      uhours  == useable \div MinutesPerHour
      empty   == [ZeroHours EXCEPT !["comeff"] = [h \in Hours |-> INVALID_ENTRY]]
  IN  IF tdiff >= MINS_PER_DAY \/ tdiff < 0 \/ useable <= 0
      THEN /\ minutes' = Zero /\ hours' = ZeroHours
           /\ stat_minutes' = 0 /\ stat_hours' = 0 /\ total_minutes' = 0
      ELSE /\ total_minutes' = new /\ stat_minutes' = MinutePlace(new)
           /\ stat_hours' = thours % HoursPerDay
           /\ IF uhours > 0
              THEN /\ minutes' = f.minutes
                   /\ hours' = [k \in Kinds |->
                        Moved(f.hours[k], uhours, f.stat_hours, thours, empty[k])]
              ELSE /\ minutes' = [k \in Kinds |->
                        Moved(f.minutes[k], useable, f.stat_minutes, tmins, Unmeasured[k])]
                   /\ hours' = empty

\* the clock may have been set back since the file was written
Start ==
  /\ ~up /\ up' = TRUE /\ starts < MaxStarts /\ starts' = starts + 1
  /\ IF file = << >>
     THEN /\ minutes' = Zero /\ hours' = ZeroHours
          /\ stat_minutes' = 0 /\ stat_hours' = 0 /\ total_minutes' = 0
     ELSE \E tdiff \in {down, -1} : process_status(file[1], tdiff)
  /\ accum' = 0 /\ recent' = << >>
  /\ UNCHANGED <<file, down, ran>>

Next ==
  \/ add_status
  \/ lib_stats_timer
  \/ Stop
  \/ Down
  \/ Start

Spec == Init /\ [][Next]_vars

-----------------------------------------------------------------------------
(* The report: update_op_stats.                                            *)

AtMost(n, limit) == IF n > limit THEN limit ELSE n

\* the minutes there are, as a count and as an efficiency
Measured(f, n) == Valid([m \in 0..(n - 1) |-> f[m]])

AD_HOUR(kind) ==
  LET valids == AtMost(total_minutes, MinutesPerHour)
      f      == minutes[kind]
  IN  IF valids = 0 \/ (kind = "comeff" /\ Measured(f, valids) = {}) THEN INVALID_ENTRY
      ELSE IF kind = "comeff"
           THEN SumOver(f, Measured(f, valids)) \div Cardinality(Measured(f, valids))
           ELSE SumOver(f, 0..(valids - 1))

\* what the last hour adds to the day, once there is a whole day
LastHour(kind) ==
  IF AD_HOUR(kind) = INVALID_ENTRY \/ kind = "count" THEN AD_HOUR(kind)
  ELSE LET valids == AtMost(total_minutes, MinutesPerHour)
       IN  (SumOver(minutes[kind], Measured(minutes[kind], valids)) * MinutesPerHour)
             \div Cardinality(Measured(minutes[kind], valids))

\* the day's efficiency; the sum starts with the last hour, known or not
AD_DAY_comeff ==
  LET valids == AtMost(total_minutes \div MinutesPerHour, HoursPerDay)
      start  == IF valids = HoursPerDay THEN LastHour("comeff") ELSE 0
      known  == {h \in 0..(valids - 1) :
                   h # stat_hours /\ hours["comeff"][h] # INVALID_ENTRY}
      now    == {h \in 0..(valids - 1) : h = stat_hours /\ start # INVALID_ENTRY}
      total  == start + SumOver(hours["comeff"], known)
  IN  IF valids = 0 \/ total = INVALID_ENTRY \/ known \cup now = {} THEN INVALID_ENTRY
      ELSE total \div (MinutesPerHour * Cardinality(known \cup now))

-----------------------------------------------------------------------------
(* What must hold.                                                         *)

\* libstats.c: the types of the statistics; the places are those the totals say
\* they are, also after a restart
OpStatsTypeOK ==
  /\ accum \in 0..1 /\ total_minutes \in Nat
  /\ stat_minutes = total_minutes % MinutesPerHour
  /\ stat_hours = (total_minutes \div MinutesPerHour) % HoursPerDay
  /\ \A m \in Minutes : minutes["count"][m] \in 0..1
                        /\ minutes["comeff"][m] \in {INVALID_ENTRY, 0, MaxEfficiency}
  /\ \A h \in Hours : hours["count"][h] \in 0..MinutesPerHour

\* libstats.c, update_op_stats: after an hour of a run the hour's figure is the
\* count of the last sixty minutes, whatever was restored at its start; and in
\* a first run the count of the minutes there were
HourIsRecent ==
  (up /\ (Len(recent) = MinutesPerHour \/ starts = 1) /\ recent # << >>)
    => AD_HOUR("count") = FoldSeq(LAMBDA a, b : a + b, 0, recent)

\* libstats.c, lib_stats_timer: an hour that a run was up for is kept, for the
\* day's figure, as the count of its own minutes
HourIsKept ==
  (up /\ Len(recent) = MinutesPerHour /\ stat_minutes = 0)
    => hours["count"][(stat_hours - 1) % HoursPerDay] = FoldSeq(LAMBDA a, b : a + b, 0, recent)

\* libstats.c, libcont.c: minutes without a measurement, and those the program
\* was down for, do not lower the efficiency of the hour
HourEffIsMeasured == AD_HOUR("comeff") \in {INVALID_ENTRY, MaxEfficiency}

\* libclient.h, INVALID_ENTRY: the same of the day
DayEffIsMeasured == AD_DAY_comeff \in {INVALID_ENTRY, MaxEfficiency}
=============================================================================
