--------------------------- MODULE ThreadContinuity ---------------------------
(***************************************************************************)
(* The channels that belong to the station thread and not to a session     *)
(* (dplcqs): the messages and the statistics of the data port.  They are   *)
(* restored from a file when the thread leaves IDLE for the first time,    *)
(* changed by the tokens of every session, and saved when the thread ends  *)
(* (libcont.c, libtokens.c, libsampcfg.c).  A channel is its name, what is *)
(* recorded on it and how many records it has; records, tokens and the     *)
(* static part of the file are left out otherwise.                         *)
(***************************************************************************)
EXTENDS Integers, Sequences, SequencesExt

CONSTANTS
  Stats,                \* the statistics, AC_FIRST to AC_STATUS_LATENCY
  TokenSets,            \* each with the name of the log, or none, and channels
  LOG,                  \* the name given to the log at first
  Blank,                \* a name of zeros
  None, Msg,            \* no name; MESSAGE_STREAM
  TornWrites,           \* whether a record of the file may be broken
  MediaErrors,          \* whether the file may fail to open
  MaxStarts, MaxRecords \* bounds

VARIABLES
  phase,                \* "down", "idle", "open" with the channels, "run"
  dplcqs,               \* a sequence of channels
  msg_lcq,              \* the name of the log's channel
  ds_lcq,               \* of every statistic, the name of its channel
  log_seedname,         \* of the tokens
  file,                 \* "t": a sequence of records
  starts

VARIABLES
  given,                \* ghost: the records every name has
  kept                  \* ghost: names whose number is known to the file

channels == <<dplcqs, msg_lcq, ds_lcq, log_seedname>>
ghosts == <<given, kept>>
vars == <<phase, channels, file, starts, ghosts>>

Names == {LOG, Blank} \cup UNION {{t.log} \cup {t.stats[i].name : i \in DOMAIN t.stats} : t \in TokenSets}

ThreadContinuityAssumption ==
  /\ None \notin {t.log : t \in TokenSets} => Blank \notin {t.log : t \in TokenSets}
  /\ \A t \in TokenSets : \A i \in DOMAIN t.stats : t.stats[i].src \in Stats
  /\ Msg \notin Stats /\ TornWrites \in BOOLEAN /\ MediaErrors \in BOOLEAN
  /\ MaxStarts \in Nat /\ MaxRecords \in Nat

\* ready: the channel has a buffer for its record
Channel(name, src, count, ready) ==
  [name |-> name, src |-> src, count |-> count, validated |-> TRUE, ready |-> ready]

NoSlots == [s \in Stats |-> None]

Init ==
  /\ phase = "down" /\ dplcqs = << >> /\ msg_lcq = None /\ ds_lcq = NoSlots
  /\ log_seedname = LOG /\ file = << >> /\ starts = 0
  /\ given = [n \in Names |-> 0] /\ kept = {}

-----------------------------------------------------------------------------
Place(list, name) == SelectInSeq(list, LAMBDA c : c.name = name)

IsMsg(c) == c.src = Msg

\* init_dplcq, for the statistic: the channel is the one of its statistic
Slotted(slots, c) == IF IsMsg(c) THEN slots ELSE [slots EXCEPT ![c.src] = c.name]

SlottedAll(slots, list) == FoldLeft(Slotted, slots, list)

Ready(list) == [i \in DOMAIN list |-> [list[i] EXCEPT !.ready = TRUE]]

-----------------------------------------------------------------------------
(* restore_thread_continuity, pass 2, with purge_thread_continuity.        *)

Loaded(r) == Channel(r.name, r.src, r.count, FALSE)

Usable(r) == r.whole /\ ~r.purged

FirstBad ==
  LET bad == {i \in DOMAIN file : ~Usable(file[i])}
  IN  IF bad = {} THEN Len(file) + 1 ELSE CHOOSE i \in bad : \A j \in bad : i <= j

FromFile == [i \in 1 .. FirstBad - 1 |-> Loaded(file[i])]

\* build_fake_log_lcq
WithLog(list) == IF \E i \in DOMAIN list : IsMsg(list[i]) THEN list ELSE Append(list, Channel(LOG, Msg, 0, FALSE))

\* init_dplcqs: at the end, or with the log's channel that had to be made
Initialized(list, complete) ==
  IF complete \/ Len(WithLog(list)) > Len(list) THEN Ready(WithLog(list)) ELSE list

Becomes(list) ==
  /\ dplcqs' = list
  /\ ds_lcq' = SlottedAll(NoSlots, SelectSeq(list, LAMBDA c : c.ready))
  /\ msg_lcq' = list[SelectLastInSeq(list, IsMsg)].name

\* fault: the file is not marked
Purged_fault == file

\* the first record is marked
Purged == [i \in DOMAIN file |-> IF i = 1 THEN [file[i] EXCEPT !.purged = TRUE] ELSE file[i]]

Counts(list) == [n \in Names |-> IF Place(list, n) = 0 THEN 0 ELSE list[Place(list, n)].count]

LeaveIdle ==
  /\ phase = "idle" /\ phase' = "open"
  /\ \/ /\ Becomes(Initialized(FromFile, FirstBad > Len(file)))
        /\ file' = Purged /\ UNCHANGED kept
     \/ /\ MediaErrors /\ Becomes(Ready(WithLog(<< >>)))
        /\ kept' = {} /\ UNCHANGED file
  /\ UNCHANGED <<log_seedname, starts, given>>

-----------------------------------------------------------------------------
(* decode_cfg.                                                             *)

\* read_dplcq and add_msg_tim_lcqs: of the same name, or a new one
Decoded(list, ch) ==
  LET i == Place(list, ch.name)
  IN  IF i = 0 THEN Append(list, ch)
      ELSE [list EXCEPT ![i].src = ch.src, ![i].validated = TRUE]

NotValidated(list) == [i \in DOMAIN list |-> [list[i] EXCEPT !.validated = FALSE]]

\* the statistics of a channel that is not in the tokens
Removed(slots, list) ==
  [s \in Stats |-> IF \E i \in DOMAIN list : list[i].name = slots[s] /\ ~list[i].validated /\ ~IsMsg(list[i])
                   THEN None ELSE slots[s]]

FromToken(tok) == Channel(tok.name, tok.src, 0, TRUE)

decode_cfg(t) ==
  LET stats == [i \in DOMAIN t.stats |-> FromToken(t.stats[i])]
      log   == IF t.log = None THEN log_seedname ELSE t.log
      list  == FoldLeft(Decoded, NotValidated(dplcqs), Append(stats, Channel(log, Msg, 0, TRUE)))
  IN  /\ phase = "open" /\ phase' = "run"
      /\ dplcqs' = list /\ msg_lcq' = log /\ log_seedname' = log
      /\ ds_lcq' = Removed(SlottedAll(ds_lcq, stats), list)
      /\ kept' = {n \in kept : Place(list, n) # 0}
      /\ UNCHANGED <<file, starts, given>>

\* deallocate_sg, with clear_sg
EndSession ==
  /\ phase = "run" /\ phase' = "open" /\ log_seedname' = Blank
  /\ UNCHANGED <<dplcqs, msg_lcq, ds_lcq, file, starts, ghosts>>

-----------------------------------------------------------------------------
\* process_dpstat or log_message complete a record of the channel
Record(name) ==
  LET i == Place(dplcqs, name)
  IN  /\ phase \in {"open", "run"} /\ i # 0 /\ dplcqs[i].ready /\ dplcqs[i].count < MaxRecords
      /\ dplcqs' = [dplcqs EXCEPT ![i].count = @ + 1]
      /\ given' = [given EXCEPT ![name] = dplcqs'[i].count]
      /\ UNCHANGED <<phase, msg_lcq, ds_lcq, log_seedname, file, starts, kept>>

lib_stats_timer == \E s \in Stats : Record(ds_lcq[s])
log_message == Record(msg_lcq)

-----------------------------------------------------------------------------
Start ==
  /\ phase = "down" /\ starts < MaxStarts /\ starts' = starts + 1 /\ phase' = "idle"
  /\ UNCHANGED <<channels, file, ghosts>>

Ended ==
  /\ phase' = "down" /\ dplcqs' = << >> /\ msg_lcq' = None /\ ds_lcq' = NoSlots /\ log_seedname' = LOG
  /\ UNCHANGED starts

Saved(c) == [name |-> c.name, src |-> c.src, count |-> c.count, whole |-> TRUE, purged |-> FALSE]

Validated == SelectSeq(dplcqs, LAMBDA c : c.validated)

Contents == [i \in DOMAIN Validated |-> Saved(Validated[i])]

\* save_thread_continuity
Stop ==
  /\ phase = "open" /\ Ended
  /\ given' = Counts(dplcqs)
  /\ \/ file' = Contents /\ kept' = {Validated[i].name : i \in DOMAIN Validated}
     \/ MediaErrors /\ UNCHANGED file /\ kept' = {}

\* The program ends; the file may be being written.
Crash ==
  /\ phase # "down" /\ Ended /\ UNCHANGED given
  /\ \/ UNCHANGED file /\ kept' = IF phase = "idle" THEN kept ELSE {}
     \/ /\ phase = "open" /\ kept' = {}
        /\ \E n \in 0 .. Len(Contents) : file' = SubSeq(Contents, 1, n)
     \/ /\ TornWrites /\ phase = "open" /\ kept' = {}
        /\ \E i \in DOMAIN Contents : file' = [Contents EXCEPT ![i].whole = FALSE]

Next ==
  \/ Start \/ LeaveIdle \/ (\E t \in TokenSets : decode_cfg(t)) \/ EndSession
  \/ lib_stats_timer \/ log_message \/ Stop \/ Crash

Spec == Init /\ [][Next]_vars

-----------------------------------------------------------------------------
At(name) == dplcqs[Place(dplcqs, name)]

\* Names are found once, and during a session messages go to the one channel of
\* the tokens that is for them; the log is there before, too (decode_cfg,
\* restore_thread_continuity).
OneLog ==
  /\ \A i, j \in DOMAIN dplcqs : dplcqs[i].name = dplcqs[j].name => i = j
  /\ phase \in {"open", "run"} => Place(dplcqs, msg_lcq) # 0 /\ IsMsg(At(msg_lcq))
  /\ phase = "run" => {i \in DOMAIN dplcqs : IsMsg(dplcqs[i]) /\ dplcqs[i].validated} = {Place(dplcqs, msg_lcq)}

\* No statistic is recorded on a channel that the tokens do not have any more,
\* wherever that channel came from (decode_cfg).
RemovedIsSilent ==
  phase = "run" => \A s \in Stats : ds_lcq[s] # None => At(ds_lcq[s]).validated

\* A channel records one statistic (init_dplcq, decode_cfg).
OneStatistic == \A s \in Stats : ds_lcq[s] # None => At(ds_lcq[s]).src = s

\* A channel that was restored goes on behind its last record: a file is used
\* once, and of what a crash left only what is up to date (purge_thread_continuity).
RestoredIsLatest ==
  [][phase = "idle" /\ phase' = "open" =>
       \A i \in DOMAIN dplcqs' : dplcqs'[i].count > 0 => dplcqs'[i].count = given[dplcqs'[i].name]]_vars

\* The numbers of a channel that was saved are not given again
\* (save_thread_continuity).
NumbersGoOn ==
  phase \in {"open", "run"} => \A n \in kept : Place(dplcqs, n) # 0 => At(n).count >= given[n]

\* Every channel has a buffer for its record (init_dplcqs).
ChannelsAreReady == \A i \in DOMAIN dplcqs : dplcqs[i].ready

\* The log has a name in every session (clear_sg).
LogHasName == msg_lcq # Blank
=============================================================================
