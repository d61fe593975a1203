--------------------------------- MODULE Gps ---------------------------------
(***************************************************************************)
(* What a station tells of the GPS receiver of its Q330.  It learns it on  *)
(* two ways that do not keep step: status answers, which are a snapshot    *)
(* and may be late (update_gps_stats, libstats.c), and notices of power    *)
(* changes in the stream of data, which come once and in order             *)
(* (process_gps_phase_change).  A status only corrects what it             *)
(* contradicts, so that the reason a notice gave is kept.  What is told    *)
(* outlives sessions (topstat is not cleared), but for the age of the fix. *)
(***************************************************************************)
EXTENDS Integers, Sequences

CONSTANTS
  Reasons,              \* for which the receiver is powered on or off
  Places,               \* what a status may say of the position
  Forgets,              \* whether the Q330 may lose its data between sessions
  MaxChanges, MaxStatus, MaxStops \* bounds

PhaseStat == [OFFLOCK |-> "OFF_LOCK", OFFPLL |-> "OFF_PLL", OFFMAX |-> "OFF_LIMIT",
              OFFCMD |-> "OFF_CMD", COLD |-> "COLDSTART", ONAUTO |-> "ON_AUTO",
              ONCMD |-> "ON_CMD"]
OnReasons == {"COLD", "ONAUTO", "ONCMD"}
OffStats == {"OFF", "OFF_LOCK", "OFF_PLL", "OFF_LIMIT", "OFF_CMD"}
PlainOnStats == {"ON", "ON_AUTO", "ON_CMD"}

\* a position has degrees, minutes in units of their last digit, and a side; the
\* text of one may be of another form
Sides == {"N", "S", "E", "W"}
Coordinates == [deg : Nat, min : Nat, side : Sides, ok : BOOLEAN]

GpsAssumption ==
  /\ Reasons \subseteq DOMAIN PhaseStat /\ Forgets \in BOOLEAN
  /\ \A p \in Places : p.lat \in Coordinates /\ p.long \in Coordinates
  /\ {MaxChanges, MaxStatus, MaxStops} \subseteq Nat

VARIABLES
  gps,                  \* the Q330: on, dimensions of its fix, whether it ever had one
  notices,              \* in the stream of data, oldest first
  answer,               \* a status on its way: none or one
  opstat,               \* what the station tells
  running,              \* whether it is in RUN
  agreed,               \* ghost: a status since the last change said what is
  told,                 \* ghost: the last status; the last fix there was while on
  changes, statuses, stops

counts == <<changes, statuses, stops>>
vars == <<gps, notices, answer, opstat, running, agreed, told, counts>>

Init ==
  /\ gps \in [on : BOOLEAN, dim : {0}, good : BOOLEAN] /\ notices = << >> /\ answer = << >>
  /\ opstat = [gps_stat |-> "OFF", gps_fix |-> "LF", aged |-> FALSE, lat |-> 0, long |-> 0]
  /\ running = TRUE /\ agreed = FALSE /\ told = [status |-> << >>, last |-> 0]
  /\ changes = 0 /\ statuses = 0 /\ stops = 0

-----------------------------------------------------------------------------
(* The Q330.                                                               *)

Power ==
  /\ changes < MaxChanges /\ changes' = changes + 1
  /\ \E r \in Reasons :
       /\ gps.on # (r \in OnReasons)
       /\ gps' = [gps EXCEPT !.on = ~@, !.dim = 0] /\ notices' = Append(notices, r)
  /\ agreed' = FALSE /\ UNCHANGED <<answer, opstat, running, told, statuses, stops>>

Fix ==
  /\ gps.on /\ changes < MaxChanges /\ changes' = changes + 1
  /\ \E d \in 0 .. 3 : d # gps.dim /\ gps' = [gps EXCEPT !.dim = d, !.good = @ \/ d > 0]
  /\ UNCHANGED <<notices, answer, opstat, running, agreed, told, statuses, stops>>

Status ==
  /\ running /\ answer = << >> /\ statuses < MaxStatus /\ statuses' = statuses + 1
  /\ \E p \in Places : answer' = <<[gps |-> gps, place |-> p]>>
  /\ UNCHANGED <<gps, notices, opstat, running, agreed, told, changes, stops>>

Lost == answer # << >> /\ answer' = << >>
        /\ UNCHANGED <<gps, notices, opstat, running, agreed, told, counts>>

-----------------------------------------------------------------------------
(* The station.                                                            *)

\* the power, corrected where a status contradicts it
Corrected(stat, on) ==
  IF on /\ stat \in OffStats THEN "ON"
  ELSE IF ~on /\ stat \in PlainOnStats THEN "OFF" ELSE stat

\* a fix ends the cold start
Warm(stat, dim) == IF dim > 0 /\ stat = "COLDSTART" THEN "ON" ELSE stat

FixOf == <<"1D", "2D", "3D">>
LastFixOf == <<"1DF", "2DF", "3DF">>

\* whether the fix that was had d dimensions
Kept(fix, d) == fix \in {FixOf[d], LastFixOf[d]}

\* while the receiver is off the last fix is kept
NewFix(previous, s) ==
  CASE s.dim > 0 -> FixOf[s.dim]
    [] s.dim = 0 /\ s.on -> IF s.good THEN "ON" ELSE "NL"
    [] s.dim = 0 /\ ~s.on ->
         IF \E d \in 1 .. 3 : Kept(previous, d)
         THEN LastFixOf[CHOOSE d \in 1 .. 3 : Kept(previous, d)]
         ELSE IF s.good THEN "OFF" ELSE "LF"

\* of the text the side and the digit before it are cut off
Read(c) == (c.deg * 6000 + 10 * (c.min \div 10)) * IF c.side \in {"S", "W"} THEN -1 ELSE 1

update_gps_stats ==
  /\ running /\ answer # << >> /\ answer' = << >>
  /\ LET s == answer[1].gps
         p == answer[1].place
         read == p.lat.ok /\ p.long.ok
     IN /\ opstat' = [gps_stat |-> Warm(Corrected(opstat.gps_stat, s.on), s.dim),
                      gps_fix |-> NewFix(opstat.gps_fix, s), aged |-> s.good,
                      lat |-> IF read THEN Read(p.lat) ELSE 0,
                      long |-> IF read THEN Read(p.long) ELSE 0]
        /\ agreed' = (s.on = gps.on)
        /\ told' = [status |-> answer, last |-> IF s.on THEN s.dim ELSE told.last]
  /\ UNCHANGED <<gps, notices, running, counts>>

process_gps_phase_change ==
  /\ running /\ notices # << >> /\ notices' = Tail(notices)
  /\ opstat' = [opstat EXCEPT !.gps_stat = PhaseStat[Head(notices)]]
  /\ UNCHANGED <<gps, answer, running, agreed, told, counts>>

\* a session ends, by whichever cause, and the next one begins
Stop ==
  /\ running /\ stops < MaxStops /\ stops' = stops + 1 /\ running' = FALSE /\ answer' = << >>
  /\ notices' \in {notices} \cup IF Forgets THEN {<< >>} ELSE {}
  /\ opstat' = [opstat EXCEPT !.aged = FALSE]
  /\ UNCHANGED <<gps, agreed, told, changes, statuses>>

Start == ~running /\ running' = TRUE
         /\ UNCHANGED <<gps, notices, answer, opstat, agreed, told, counts>>

Next ==
  \/ Power
  \/ Fix
  \/ Status
  \/ Lost
  \/ update_gps_stats
  \/ process_gps_phase_change
  \/ Stop
  \/ Start

Spec == Init /\ [][Next]_vars

-----------------------------------------------------------------------------
(* What must hold.                                                         *)

\* libstats.c, "current status is wrong": once a status has said whether the
\* receiver is on and the notices have come, in any order and also late, the
\* station tells what is
OnIsKnown ==
  (running /\ agreed /\ notices = << >>) => (gps.on <=> opstat.gps_stat \notin OffStats)

\* libtypes.h, tgps_fix: the fix that is told is that of the last status, and
\* while the receiver is off the last one it had before, over any number of
\* statuses and sessions
FixIsLast ==
  LET s == told.status[1].gps
  IN told.status # << >> =>
       opstat.gps_fix = CASE s.dim > 0 -> FixOf[s.dim]
                          [] s.dim = 0 /\ s.on -> IF s.good THEN "ON" ELSE "NL"
                          [] ~s.on /\ told.last > 0 -> LastFixOf[told.last]
                          [] ~s.on /\ told.last = 0 -> IF s.good THEN "OFF" ELSE "LF"

Exact(c) == (c.deg * 6000 + c.min) * IF c.side \in {"S", "W"} THEN -1 ELSE 1
Near(x, c) == x - Exact(c) \in -9 .. 9

\* libstats.c: the position is that of the last status to less than a unit of
\* its last digit but one, or none at all
PositionIsRead ==
  LET p == told.status[1].place
  IN told.status # << >> =>
       IF p.lat.ok /\ p.long.ok THEN Near(opstat.lat, p.lat) /\ Near(opstat.long, p.long)
       ELSE opstat.lat = 0 /\ opstat.long = 0

\* libstats.c, "remove last character": nothing but the side is cut off
PositionIsExact ==
  LET p == told.status[1].place
  IN (told.status # << >> /\ p.lat.ok /\ p.long.ok) =>
       opstat.lat = Exact(p.lat) /\ opstat.long = Exact(p.long)
=============================================================================
