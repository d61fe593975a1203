------------------------------- MODULE EpDelays -------------------------------
(***************************************************************************)
(* Delays of the channels of an environmental processor (libsampcfg.c):    *)
(* the EP measures them and the Q330 reports them (C2_RQEPD).  If one that *)
(* the tokens need is missing the EP's configuration is read, this data    *)
(* port is added to the channel's mask and the configuration is written    *)
(* back (C2_RQEPCFG, C2_SEPCFG).  Samples of a channel whose delay is not  *)
(* known are ignored; the time of a record is that of its last samples     *)
(* less the delay.                                                         *)
(***************************************************************************)
EXTENDS Integers, FiniteSets, Sequences, SequencesExt

CONSTANTS
  EpChannels,           \* of the EP
  TokenSets,            \* sets of them that tokens may enable
  Delays,               \* what the EP may measure, numbers above 0
  Port, Other,          \* data ports: this one, one of another computer
  InitialMasks,         \* configurations of the EP at first
  EP_MAXCHAN,           \* channels that a configuration can hold
  EP_UPDATE_TIME,       \* seconds (2 instead of 120)
  FirDelay,             \* of a channel derived from one of the EP
  MaxSessions, MaxTokens, MaxChanges, MaxOther \* bounds

VARIABLES
  state,                \* "open", "cfg" (tokens are read), "run"
  liberr,               \* why the session was ended: "none" or "tokens"
  cmdq,                 \* commands, answered in order
  lcqs,                 \* enabled channels of the EP
  delay, derived_delay, \* of them and of those derived from them, 0 if not known
  record,               \* delays of the samples in the record of a channel
  epdelay,              \* as reported
  epcfg,                \* a sequence of channels and masks: share.epcfg
  update_ep_timer

VARIABLES
  qcfg,                 \* the EP's configuration in the Q330
  qdelay,               \* delays it has, 0 if not
  epdly,                \* SRB_EPDLY, it has others than before
  sessions, changes, others \* counted for the bounds

thread == <<state, liberr, cmdq, lcqs, delay, derived_delay, record, epdelay, epcfg, update_ep_timer>>
q330 == <<qcfg, qdelay, epdly, changes, others>>
vars == <<thread, q330, sessions>>

Chans(cfg) == {cfg[i].chan : i \in DOMAIN cfg}

EpAssumption ==
  /\ \A set \in TokenSets : set \subseteq EpChannels
  /\ Delays \subseteq Nat \ {0} /\ Port # Other /\ EP_UPDATE_TIME \in Nat \ {0} /\ FirDelay \in Nat
  /\ \A cfg \in InitialMasks : Len(cfg) <= EP_MAXCHAN /\ Cardinality(Chans(cfg)) = Len(cfg)

Larger(a, b) == IF a > b THEN a ELSE b

NoDelays == [c \in EpChannels |-> 0]

Init ==
  /\ state = "open" /\ liberr = "none" /\ cmdq = << >> /\ lcqs = {} /\ delay = NoDelays
  /\ derived_delay = NoDelays /\ record = [c \in EpChannels |-> {}] /\ epdelay = NoDelays
  /\ epcfg = << >> /\ update_ep_timer = 0
  /\ qcfg \in InitialMasks /\ qdelay = NoDelays /\ epdly = FALSE
  /\ sessions = 0 /\ changes = 0 /\ others = 0

-----------------------------------------------------------------------------
(* update_ep_delays                                                        *)

\* fault: the record goes on
Flushed_fault(rec, last, new) == rec

\* flush_lcq when the delay becomes another; without one there is nothing in it
Flushed(rec, last, new) == IF new # last /\ last # 0 THEN {} ELSE rec

\* the delays that known has of channels set, whose delays are old
Updated(set, old, known) == [c \in EpChannels |-> IF c \in set /\ known[c] # 0 THEN known[c] ELSE old[c]]

\* after the rest of the queue q; it ends the waiting that init_lcq has begun
update_ep_delays(set, old, known, update, q) ==
  /\ update_ep_timer' = 0
  /\ delay' = Updated(set, old, known)
  /\ record' = [c \in EpChannels |-> Flushed(record[c], old[c], Updated(set, old, known)[c])]
  /\ cmdq' = IF update /\ \E c \in set : known[c] = 0 THEN Append(q, "RQEPCFG") ELSE q

HasRoom(cfg) == Len(cfg) < EP_MAXCHAN

\* the mask of one channel
Masked(cfg, c) ==
  IF c \in Chans(cfg)
  THEN [i \in DOMAIN cfg |-> IF cfg[i].chan = c THEN [cfg[i] EXCEPT !.mask = @ \cup {Port}] ELSE cfg[i]]
  ELSE IF HasRoom(cfg) THEN Append(cfg, [chan |-> c, mask |-> {Port}]) ELSE cfg

\* verify_epcfg: what the configuration is to be
Verified(cfg) == FoldLeft(Masked, cfg, SetToSeq(lcqs))

-----------------------------------------------------------------------------
(* The thread.                                                             *)

\* registration: the fixed information says that there is an EP
Register ==
  /\ state = "open" /\ sessions < MaxSessions /\ sessions' = sessions + 1
  /\ state' = "cfg" /\ liberr' = "none" /\ cmdq' = <<"RQEPD", "RQMEM">>
  /\ UNCHANGED <<lcqs, delay, derived_delay, record, epdelay, epcfg, update_ep_timer, q330>>

\* init_lcq at the end of decode_cfg
Decode ==
  /\ cmdq # << >> /\ Head(cmdq) = "RQMEM" /\ state' = "run"
  /\ \E set \in TokenSets : lcqs' = set /\ update_ep_delays(set, NoDelays, epdelay, liberr # "tokens", Tail(cmdq))
  /\ derived_delay' = [c \in EpChannels |-> FirDelay]
  /\ UNCHANGED <<liberr, epdelay, epcfg, q330, sessions>>

Loaded == qdelay

RqepdAnswered ==
  /\ cmdq # << >> /\ Head(cmdq) = "RQEPD" /\ epdelay' = qdelay
  /\ update_ep_delays(lcqs, delay, Loaded, TRUE, Tail(cmdq))
  /\ UNCHANGED <<state, liberr, lcqs, derived_delay, epcfg, q330, sessions>>

Written(q) == IF Verified(qcfg) # qcfg THEN Append(q, "SEPCFG") ELSE q

RqepcfgAnswered ==
  /\ cmdq # << >> /\ Head(cmdq) = "RQEPCFG" /\ epcfg' = qcfg /\ cmdq' = Written(Tail(cmdq))
  /\ UNCHANGED <<state, liberr, lcqs, delay, derived_delay, record, epdelay, update_ep_timer, q330, sessions>>

\* newepcfg was made of epcfg when that was read
SepcfgAnswered ==
  /\ cmdq # << >> /\ Head(cmdq) = "SEPCFG" /\ cmdq' = Tail(cmdq)
  /\ qcfg' = Verified(epcfg) /\ epcfg' = Verified(epcfg)
  /\ UNCHANGED <<state, liberr, lcqs, delay, derived_delay, record, epdelay, update_ep_timer, qdelay, epdly, changes, others, sessions>>

\* a status that says so
EpDelayChange ==
  /\ state = "run" /\ epdly /\ epdly' = FALSE /\ cmdq' = Append(cmdq, "RQEPD")
  /\ UNCHANGED <<state, liberr, lcqs, delay, derived_delay, record, epdelay, epcfg, update_ep_timer, qcfg, qdelay, changes, others, sessions>>

\* lib_one_timer
SecondPasses ==
  /\ state = "run"
  /\ IF update_ep_timer = 1
     THEN update_ep_delays(lcqs, delay, epdelay, TRUE, cmdq)
     ELSE update_ep_timer' = Larger(update_ep_timer - 1, 0) /\ UNCHANGED <<delay, record, cmdq>>
  /\ UNCHANGED <<state, liberr, lcqs, derived_delay, epdelay, epcfg, q330, sessions>>

\* process_one: a sample goes into the record of its channel
Sample(c) ==
  /\ state = "run" /\ c \in lcqs /\ delay[c] # 0
  /\ record' = [record EXCEPT ![c] = @ \cup {delay[c]}]
  /\ UNCHANGED <<state, liberr, cmdq, lcqs, delay, derived_delay, epdelay, epcfg, update_ep_timer, q330, sessions>>

RecordFull(c) ==
  /\ record[c] # {} /\ record' = [record EXCEPT ![c] = {}]
  /\ UNCHANGED <<state, liberr, cmdq, lcqs, delay, derived_delay, epdelay, epcfg, update_ep_timer, q330, sessions>>

\* deallocate_sg, which flushes the records, and what it clears
Given(back) ==
  /\ state' = back /\ lcqs' = {} /\ record' = [c \in EpChannels |-> {}] /\ delay' = NoDelays /\ derived_delay' = NoDelays
  /\ UNCHANGED <<epdelay, epcfg, update_ep_timer, q330>>

\* SRB_TOKEN: the tokens are read again without a registration
TokensChange ==
  /\ state = "run" /\ sessions < MaxTokens /\ sessions' = sessions + 1 /\ Given("cfg")
  /\ liberr' = "tokens" /\ cmdq' = Append(cmdq, "RQMEM")

Close == state = "run" /\ Given("open") /\ liberr' = "none" /\ cmdq' = << >> /\ UNCHANGED sessions

-----------------------------------------------------------------------------
(* The Q330 and its EP; another computer or the Q330's own programming.     *)

EpMeasures(c) ==
  /\ \E i \in DOMAIN qcfg : qcfg[i].chan = c /\ Port \in qcfg[i].mask
  /\ qdelay[c] # 0 => changes < MaxChanges
  /\ \E d \in Delays : d # qdelay[c] /\ qdelay' = [qdelay EXCEPT ![c] = d]
  /\ changes' = IF qdelay[c] # 0 THEN changes + 1 ELSE changes
  /\ epdly' = TRUE /\ UNCHANGED <<thread, qcfg, others, sessions>>

OtherAsks(c) ==
  /\ others < MaxOther /\ others' = others + 1 /\ c \notin Chans(qcfg) /\ Len(qcfg) < EP_MAXCHAN
  /\ qcfg' = Append(qcfg, [chan |-> c, mask |-> {Other}])
  /\ UNCHANGED <<thread, qdelay, epdly, changes, sessions>>

Next ==
  \/ Register \/ Decode \/ RqepdAnswered \/ RqepcfgAnswered \/ SepcfgAnswered
  \/ EpDelayChange \/ SecondPasses \/ TokensChange \/ Close
  \/ \E c \in EpChannels : Sample(c) \/ RecordFull(c) \/ EpMeasures(c) \/ OtherAsks(c)

\* Commands are repeated until they are answered, statuses are asked for again and
\* again, seconds pass; the EP measures what it is asked for.
Spec ==
  /\ Init /\ [][Next]_vars
  /\ WF_vars(Decode) /\ WF_vars(RqepdAnswered) /\ WF_vars(RqepcfgAnswered) /\ WF_vars(SepcfgAnswered)
  /\ WF_vars(EpDelayChange) /\ WF_vars(SecondPasses)
  /\ \A c \in EpChannels : WF_vars(qdelay[c] = 0 /\ EpMeasures(c))

-----------------------------------------------------------------------------
\* All samples of a record have the delay by which its time is corrected, although
\* delays change in the middle of one (update_ep_delays, set_timetag).
RecordHasOneDelay == \A c \in EpChannels : record[c] \subseteq {delay[c]}

\* A channel has the delay of the EP when no report of it is left to be made.
DelayIsLatest ==
  (state = "run" /\ ~epdly /\ \A i \in DOMAIN cmdq : cmdq[i] # "RQEPD") =>
    \A c \in lcqs : delay[c] = qdelay[c]

\* A configuration has no more channels than it can hold (verify_epcfg).
ChannelsFit == Len(qcfg) <= EP_MAXCHAN /\ Cardinality(Chans(qcfg)) = Len(qcfg)

\* In a session that began with a registration all delays are known in the end
\* if the configuration can hold all channels (update_ep_delays, verify_epcfg).
DelaysAreKnown ==
  (state = "run" /\ liberr = "none") ~>
    \/ state # "run"
    \/ Cardinality(Chans(qcfg) \cup lcqs) > EP_MAXCHAN
    \/ \A c \in lcqs : delay[c] # 0

\* After a token change the same happens, after two minutes at the latest.
CheckedAfterChange ==
  (state = "run" /\ liberr = "tokens") ~>
    \/ state # "run"
    \/ \E i \in DOMAIN cmdq : cmdq[i] = "RQEPCFG"
    \/ \A c \in lcqs : delay[c] # 0

\* The delay of a derived channel has in it that of the channel whose data it gets.
DerivedIsTotal == state = "run" => \A c \in lcqs : delay[c] # 0 => derived_delay[c] = delay[c] + FirDelay

\* What other data ports ask for remains.
OthersAreKept == [][\A i \in DOMAIN qcfg : \E j \in DOMAIN qcfg' : qcfg'[j].chan = qcfg[i].chan /\ qcfg[i].mask \subseteq qcfg'[j].mask]_qcfg
=============================================================================
