-------------------------------- MODULE Timing --------------------------------
(***************************************************************************)
(* The timing records of a station (libslider.c, the timing update of      *)
(* proc_insequence; liblogs.c, log_clock and finish_log_clock): a record   *)
(* of the channel ACE for every jump of the time tags, for every day and   *)
(* for changes of the clock quality.  A jump is sent at once; the others   *)
(* wait in timing_buf for the satellites of the next status of the Q330.   *)
(* Each carries the number of seconds since the one before.                *)
(***************************************************************************)
EXTENDS Integers, Sequences, SequencesExt

CONSTANTS
  ONE,                  \* a second, in the units of the time tags
  Steps,                \* from one time tag to the next
  JumpThresh,           \* deviation that is logged
  HOUR, HoursPerDay,    \* in seconds, in hours
  Qualities,            \* of the clock
  KnownQualities,       \* those that stand for a state of the clock; a quality
                        \* in between counts the minutes without it
  ClockFilt,            \* minimum seconds between clock messages
  MaxSeconds, MaxSessions \* bounds

NO_LAST_DATA_QUAL == "none"

TimingAssumption ==
  /\ ONE \in Nat \ {0, 1} /\ Steps \subseteq Nat \ {0} /\ ONE \in Steps
  /\ JumpThresh \in Nat \ {0} /\ HOUR \in Nat \ {0} /\ HoursPerDay \in Nat \ {0, 1}
  /\ KnownQualities \subseteq Qualities /\ NO_LAST_DATA_QUAL \notin Qualities
  /\ ClockFilt \in Nat /\ MaxSeconds \in Nat /\ MaxSessions \in Nat

VARIABLES
  t,                    \* the time tag of the last second
  lasttime,             \* the same, 0 at the start of a session and after a gap
  daily_done, last_update, last_data_qual, except_count,
  need_sats,            \* whether timing_buf waits for satellites
  timing_buf,
  sat_requested,        \* whether the status that is asked for has them
  sent,                 \* the records sent
  session,
  seconds, uncounted    \* processed at all, after the last record of a session

state == [lasttime |-> lasttime, daily_done |-> daily_done, last_update |-> last_update,
          last_data_qual |-> last_data_qual, except_count |-> except_count,
          need_sats |-> need_sats, timing_buf |-> timing_buf, sent |-> sent]
vars == <<t, lasttime, daily_done, last_update, last_data_qual, except_count, need_sats,
          timing_buf, sat_requested, sent, session, seconds, uncounted>>

NoRecord == [kind |-> "none", time |-> 0, exception_count |-> 0, session |-> 0]

\* what clear_sg and a new link leave
Fresh(records) ==
  [lasttime |-> 0, daily_done |-> FALSE, last_update |-> 0,
   last_data_qual |-> NO_LAST_DATA_QUAL, except_count |-> 0,
   need_sats |-> FALSE, timing_buf |-> NoRecord, sent |-> records]

Init ==
  /\ lasttime = 0 /\ daily_done = FALSE /\ last_update = 0
  /\ last_data_qual = NO_LAST_DATA_QUAL /\ except_count = 0
  /\ need_sats = FALSE /\ timing_buf = NoRecord /\ sent = << >>
  /\ t \in {1, ONE * HOUR} /\ sat_requested = FALSE
  /\ session = 1 /\ seconds = 0 /\ uncounted = 0

Becomes(s) ==
  /\ lasttime' = s.lasttime /\ daily_done' = s.daily_done /\ last_update' = s.last_update
  /\ last_data_qual' = s.last_data_qual /\ except_count' = s.except_count
  /\ need_sats' = s.need_sats /\ timing_buf' = s.timing_buf /\ sent' = s.sent

-----------------------------------------------------------------------------
(* One second.  The operators map the state before to the state after.     *)

\* the record goes out, now with the satellites
finish_log_clock(s) ==
  IF s.need_sats THEN [s EXCEPT !.need_sats = FALSE, !.sent = Append(@, s.timing_buf)] ELSE s

log_clock(s, kind, time) ==
  LET Record == [kind |-> kind, time |-> time, exception_count |-> s.except_count,
                 session |-> session]
      Start  == [finish_log_clock(s) EXCEPT !.except_count = 0, !.timing_buf = Record,
                                            !.last_update = time]
  IN  IF kind = "JUMP" THEN [Start EXCEPT !.sent = Append(@, Record)]
                       ELSE [Start EXCEPT !.need_sats = TRUE]

Distance(a, b) == IF a > b THEN a - b ELSE b - a

\* a jump of the time, by more than half a second or by the threshold; the first
\* second of a session and the first after a gap have nothing to compare with
Jumped(s, time) ==
  s.lasttime # 0 /\ LET d == Distance(time - s.lasttime, ONE) IN 2 * d > ONE \/ d >= JumpThresh

Hour(time) == (time \div (ONE * HOUR)) % HoursPerDay

Daily(s, time) ==
  IF ~s.daily_done /\ Hour(time) = 0
  THEN log_clock([s EXCEPT !.daily_done = TRUE], "DAILY", time)
  ELSE IF Hour(time) > 0 THEN [s EXCEPT !.daily_done = FALSE] ELSE s

Filtered(s, time) == s.last_update + ClockFilt >= time

Quality(s, time, quality) ==
  IF Filtered(s, time) THEN s
  ELSE LET Logged == IF /\ quality # s.last_data_qual
                        /\ quality \in KnownQualities \/ s.last_data_qual = NO_LAST_DATA_QUAL
                     THEN log_clock(s, "VALID", time) ELSE s
       IN  [Logged EXCEPT !.last_data_qual = quality]

\* a jump or a new day is the clock message of this second
TimingUpdate(s, time, quality) ==
  LET Jump    == IF Jumped(s, time) THEN log_clock(s, "JUMP", time) ELSE s
      Counted == [Jump EXCEPT !.lasttime = time, !.except_count = @ + 1]
      Day     == Daily(Counted, time)
      IsDay   == ~Counted.daily_done /\ Hour(time) = 0
  IN  IF Jumped(s, time) \/ IsDay THEN Day ELSE Quality(Day, time, quality)

Second ==
  /\ seconds < MaxSeconds
  /\ \E step \in Steps, quality \in Qualities :
       t' = t + step /\ Becomes(TimingUpdate(state, t + step, quality))
  /\ seconds' = seconds + 1
  /\ UNCHANGED <<sat_requested, session, uncounted>>

\* data were lost: their time cannot be compared with what comes after
Gap ==
  /\ lasttime # 0 /\ seconds < MaxSeconds
  /\ lasttime' = 0 /\ t' = t + 2 * ONE
  /\ UNCHANGED <<daily_done, last_update, last_data_qual, except_count, need_sats,
                 timing_buf, sat_requested, sent, session, seconds, uncounted>>

-----------------------------------------------------------------------------
(* The status of the Q330, and the end of a session.                       *)

\* statuses without satellites change nothing here
RequestStatus ==
  /\ need_sats /\ ~sat_requested /\ sat_requested' = TRUE
  /\ UNCHANGED <<t, lasttime, daily_done, last_update, last_data_qual, except_count,
                 need_sats, timing_buf, sent, session, seconds, uncounted>>

Status ==
  /\ sat_requested /\ sat_requested' = FALSE
  /\ Becomes(finish_log_clock(state))
  /\ UNCHANGED <<t, session, seconds, uncounted>>

\* deallocate_sg, and a new registration: the structure is cleared
EndSession ==
  /\ session < MaxSessions /\ session' = session + 1
  /\ uncounted' = uncounted + except_count
  /\ Becomes(Fresh(finish_log_clock(state).sent)) /\ sat_requested' = FALSE
  /\ UNCHANGED <<t, seconds>>

Next ==
  \/ Second
  \/ Gap
  \/ RequestStatus
  \/ Status
  \/ EndSession

\* the station asks for the status again and again, until it is answered
Spec == Init /\ [][Next]_vars /\ WF_vars(RequestStatus) /\ WF_vars(Status)

-----------------------------------------------------------------------------
(* What must hold.                                                         *)

Records == IF need_sats THEN Append(sent, timing_buf) ELSE sent
Kinds == {"DAILY", "VALID", "JUMP"}

\* liblogs.c, libslider.c: the types of the timing state
TimingTypeOK ==
  /\ t \in Nat /\ lasttime \in {0, t} /\ daily_done \in BOOLEAN /\ last_update \in 0..t
  /\ last_data_qual \in Qualities \cup {NO_LAST_DATA_QUAL}
  /\ except_count \in 0..seconds /\ need_sats \in BOOLEAN /\ sat_requested \in BOOLEAN
  /\ need_sats => timing_buf.kind \in {"DAILY", "VALID"}
  /\ \A r \in Range(sent) : r.kind \in Kinds /\ r.time \in 1..t /\ r.session \in 1..session

\* liblogs.c, exception_count: the records that were sent, the one that waits
\* and the counter account for every second, so no record is lost because
\* another one, or the end of the session, came before the satellites
CountsAddUp ==
  FoldSeq(LAMBDA r, n : n + r.exception_count, 0, Records)
    + except_count + uncounted = seconds

\* libslider.c, daily_done: a session has at most one daily timemark for a day
DailyOnce ==
  \A i, j \in DOMAIN Records :
    (/\ i # j /\ Records[i].kind = "DAILY" /\ Records[j].kind = "DAILY"
     /\ Records[i].session = Records[j].session)
      => Records[i].time \div (ONE * HOUR * HoursPerDay)
           # Records[j].time \div (ONE * HOUR * HoursPerDay)

\* libslider.c, last_update: a change of the quality is logged only when the
\* minimum time has gone by since the record before it, of whatever kind
ValidIsSparse ==
  \A i \in 2..Len(Records) :
    (Records[i].kind = "VALID" /\ Records[i - 1].session = Records[i].session)
      => Records[i].time > Records[i - 1].time + ClockFilt

\* liblogs.c, need_sats: a record that waits for satellites is sent, by the next
\* status, by the next record or by the end of the session
WaitingIsFinished == need_sats ~> ~need_sats
=============================================================================
