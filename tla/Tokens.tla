-------------------------------- MODULE Tokens --------------------------------
(***************************************************************************)
(* Tokens become channels (libtokens.c, libsampcfg.c): they are read one   *)
(* after the other, each makes an object that refers to others by their    *)
(* numbers; then the references that were ahead are resolved and the       *)
(* channels are put into the lists that data are dispatched by.  At the    *)
(* end of the session all objects are given back.  FIR filters belong to   *)
(* the thread and have their numbers from one session to the next.  If the *)
(* Q330 does not send what the channels need it is told to, in a message   *)
(* that the client sets the other parameters of the data port with.        *)
(***************************************************************************)
EXTENDS Integers, FiniteSets, Sequences, SequencesExt

CONSTANTS
  TokenLists,           \* the sequences of tokens that a Q330 may have
  FirNames,             \* a sequence: the names of the FIR filters, with client's
  FirNumbers,           \* the numbers they have at first
  Keys,                 \* what the digitizer has: channel and frequency each
  None,                 \* no reference
  ClientSets,           \* whether the client changes the data port
  MaxSessions, MaxLost  \* bounds

VARIABLES
  phase,                \* "open", "decode", "run"
  session,              \* number of it
  tokens, pos,          \* the configuration and how far it has been read
  lcqs, iirchain, defchain, ctrlchain, \* what was made of them
  fir_num,              \* of every filter
  mdispatch,            \* for every key a list of channels: number and session
  highest_lcqnum,
  non_comp              \* the data port sends what it wants

VARIABLES
  log, newlog,          \* keys that the Q330 sends, as known and to be told
  slogs,                \* C1_SLOG in the queue of commands
  cack,                 \* the Q330's answer to it
  freqs,                \* in the Q330
  client,               \* the log that the client has, to change something else in it
  log_changed, lost

made == <<lcqs, iirchain, defchain, ctrlchain, highest_lcqnum, non_comp>>
mapping == <<log, newlog, slogs, cack, freqs, client, log_changed, lost>>
vars == <<phase, session, tokens, pos, made, fir_num, mdispatch, mapping>>

TokensAssumption ==
  /\ DOMAIN FirNumbers = DOMAIN FirNames /\ MaxSessions \in Nat /\ MaxLost \in Nat /\ ClientSets \in BOOLEAN
  /\ \A list \in TokenLists : \A i \in DOMAIN list : list[i].tok \in {"IIR", "FIR", "DET", "LCQ", "CTRL", "NONCOMP", "OLD"}

Nothing == lcqs = << >> /\ iirchain = << >> /\ defchain = << >> /\ ctrlchain = << >> /\ highest_lcqnum = 0 /\ non_comp = FALSE

Init ==
  /\ phase = "open" /\ session = 0 /\ tokens = << >> /\ pos = 1
  /\ Nothing /\ fir_num = FirNumbers /\ mdispatch = [k \in Keys |-> << >>]
  /\ log = {} /\ newlog = {} /\ slogs = 0 /\ cack = FALSE /\ freqs \in {{}, Keys}
  /\ client = {} /\ log_changed = FALSE /\ lost = 0

-----------------------------------------------------------------------------
(* One token each; of another version none is read.                       *)

\* the first of a list with this number: find_iir, find_fir
WithNum(chain, num) ==
  IF \E i \in DOMAIN chain : chain[i].num = num
  THEN (CHOOSE i \in DOMAIN chain : chain[i].num = num /\ \A j \in 1 .. i - 1 : chain[j].num # num)
  ELSE None

find_fir(num) == WithNum([j \in DOMAIN fir_num |-> [num |-> fir_num[j]]], num)

read_iir(t) == iirchain' = Append(iirchain, [num |-> t.num]) /\ UNCHANGED <<lcqs, defchain, ctrlchain, highest_lcqnum, non_comp, fir_num>>

\* a filter that is not known is left out
Renumbered(t) == [i \in DOMAIN fir_num |-> IF FirNames[i] = t.name THEN t.num ELSE fir_num[i]]

read_fir(t) ==
  /\ fir_num' = Renumbered(t)
  /\ UNCHANGED made

read_detector(t) ==
  /\ defchain' = Append(defchain, [num |-> t.num, filter |-> IF t.ref = None THEN None ELSE WithNum(iirchain, t.ref)])
  /\ UNCHANGED <<lcqs, iirchain, ctrlchain, highest_lcqnum, non_comp, fir_num>>

Larger(a, b) == IF a > b THEN a ELSE b

\* ctrl is only a number for now
read_lcq(t) ==
  /\ lcqs' = Append(lcqs, [num |-> t.num, src |-> t.src, ctrl |-> t.ctrl,
                           prev |-> IF t.ref = None THEN None ELSE WithNum(lcqs, t.ref),
                           fir |-> IF t.fir = None THEN None ELSE find_fir(t.fir),
                           dets |-> [i \in DOMAIN t.dets |-> [num |-> t.dets[i].num, def |-> WithNum(defchain, t.dets[i].def)]]])
  /\ highest_lcqnum' = Larger(highest_lcqnum, t.num)
  /\ UNCHANGED <<iirchain, defchain, ctrlchain, non_comp, fir_num>>

\* the first channel that has a detector with this number
ChannelWith(det) ==
  LET has == {i \in DOMAIN lcqs : \E j \in DOMAIN lcqs[i].dets : lcqs[i].dets[j].num = det}
  IN  IF has = {} THEN None ELSE CHOOSE i \in has : \A j \in has : i <= j

read_control_detector(t) ==
  /\ ctrlchain' = Append(ctrlchain, [num |-> t.num, points |-> [i \in DOMAIN t.points |-> ChannelWith(t.points[i])]])
  /\ UNCHANGED <<lcqs, iirchain, defchain, highest_lcqnum, non_comp, fir_num>>

Read(t) ==
  \/ t.tok = "IIR" /\ read_iir(t)
  \/ t.tok = "FIR" /\ read_fir(t)
  \/ t.tok = "DET" /\ read_detector(t)
  \/ t.tok = "LCQ" /\ read_lcq(t)
  \/ t.tok = "CTRL" /\ read_control_detector(t)
  \/ t.tok = "NONCOMP" /\ non_comp' = TRUE /\ UNCHANGED <<lcqs, iirchain, defchain, ctrlchain, highest_lcqnum, fir_num>>
  \/ t.tok = "OLD" /\ UNCHANGED <<made, fir_num>>

Decode ==
  /\ phase = "decode" /\ pos <= Len(tokens) /\ Read(tokens[pos])
  /\ pos' = IF tokens[pos].tok = "OLD" THEN Len(tokens) + 1 ELSE pos + 1
  /\ UNCHANGED <<phase, session, tokens, mdispatch, mapping>>

-----------------------------------------------------------------------------
(* The end of decode_cfg.                                                  *)

\* resolve_control_detectors
Resolved(l) == [l EXCEPT !.ctrl = IF @ = None THEN None ELSE WithNum(ctrlchain, @)]

\* add_msg_tim_lcqs
Added(i, src) == [num |-> highest_lcqnum + i, src |-> src, ctrl |-> None, prev |-> None, fir |-> None, dets |-> << >>]

Dispatched(chain, l) == Append(chain, [num |-> l.num, session |-> session])

init_lcq(list) ==
  mdispatch' = [k \in Keys |-> FoldLeft(Dispatched, mdispatch[k], SelectSeq(list, LAMBDA l : l.src = k))]

Needed(list) == {list[i].src : i \in DOMAIN list} \cap Keys

\* fault: what is sent too much is let be
Differs_fault(want) == ~(want \subseteq log)

Differs(want) == want # log

verify_mapping(list) ==
  IF ~non_comp /\ Differs(Needed(list))
  THEN newlog' = Needed(list) /\ slogs' = slogs + 1 /\ UNCHANGED <<log, cack, freqs, client, log_changed, lost>>
  ELSE UNCHANGED mapping

decode_cfg ==
  /\ phase = "decode" /\ pos > Len(tokens) /\ phase' = "run"
  /\ LET list == [i \in DOMAIN lcqs |-> Resolved(lcqs[i])] \o <<Added(1, "timing"), Added(2, "cfg")>>
     IN  /\ lcqs' = list /\ init_lcq(list) /\ verify_mapping(list)
  /\ highest_lcqnum' = highest_lcqnum + 2
  /\ UNCHANGED <<session, tokens, pos, iirchain, defchain, ctrlchain, non_comp, fir_num>>

\* registration, which asks for the log, and read_q330_cfg
StartSession ==
  /\ phase = "open" /\ session < MaxSessions /\ session' = session + 1 /\ phase' = "decode"
  /\ tokens' \in TokenLists /\ pos' = 1 /\ log' = freqs /\ slogs' = 0 /\ cack' = FALSE
  /\ UNCHANGED <<made, fir_num, mdispatch, newlog, freqs, client, log_changed, lost>>

\* fault: it is sent once
ToSend_fault == slogs > 0 /\ ~cack /\ lost = 0

\* until the Q330 answers
ToSend == slogs > 0 /\ ~cack

SendSlog ==
  /\ phase = "run" /\ ToSend /\ cack' = TRUE /\ freqs' = newlog
  /\ UNCHANGED <<phase, session, tokens, pos, made, fir_num, mdispatch, log, newlog, slogs, client, log_changed, lost>>

LoseSlog ==
  /\ phase = "run" /\ ToSend /\ lost < MaxLost /\ lost' = lost + 1
  /\ UNCHANGED <<phase, session, tokens, pos, made, fir_num, mdispatch, log, newlog, slogs, cack, freqs, client, log_changed>>

LoseCack ==
  /\ cack /\ lost < MaxLost /\ lost' = lost + 1 /\ cack' = FALSE
  /\ UNCHANGED <<phase, session, tokens, pos, made, fir_num, mdispatch, log, newlog, slogs, freqs, client, log_changed>>

Done == slogs - 1

Known == newlog

\* lib_command_response
Cack ==
  /\ phase = "run" /\ cack /\ cack' = FALSE /\ slogs' = Done /\ log' = Known
  /\ UNCHANGED <<phase, session, tokens, pos, made, fir_num, mdispatch, newlog, freqs, client, log_changed, lost>>

\* lib_get_config and lib_set_config by the client
lib_get_config ==
  /\ ClientSets /\ phase # "open" /\ client' = log
  /\ UNCHANGED <<phase, session, tokens, pos, made, fir_num, mdispatch, log, newlog, slogs, cack, freqs, log_changed, lost>>

lib_set_config ==
  /\ ClientSets /\ phase = "run" /\ slogs < 2 /\ newlog' = client /\ log_changed' = TRUE
  /\ UNCHANGED <<phase, session, tokens, pos, made, fir_num, mdispatch, log, slogs, cack, freqs, client, lost>>

\* lib_timer
LogChanged ==
  /\ phase = "run" /\ log_changed /\ log_changed' = FALSE /\ slogs' = slogs + 1
  /\ UNCHANGED <<phase, session, tokens, pos, made, fir_num, mdispatch, log, newlog, cack, freqs, client, lost>>

Cleared == [k \in Keys |-> << >>]

\* deallocate_sg, clear_sg
EndSession ==
  /\ phase = "run" /\ phase' = "open"
  /\ lcqs' = << >> /\ iirchain' = << >> /\ defchain' = << >> /\ ctrlchain' = << >> /\ highest_lcqnum' = 0 /\ non_comp' = FALSE
  /\ mdispatch' = Cleared /\ UNCHANGED <<session, tokens, pos, fir_num, mapping>>

Next ==
  \/ StartSession \/ Decode \/ decode_cfg \/ EndSession
  \/ SendSlog \/ LoseSlog \/ LoseCack \/ Cack \/ lib_get_config \/ lib_set_config \/ LogChanged

\* The thread decodes at once, commands are repeated until they are answered.
Spec == Init /\ [][Next]_vars /\ WF_vars(SendSlog) /\ WF_vars(Cack) /\ WF_vars(LogChanged)

-----------------------------------------------------------------------------
Running == phase = "run"

Of(kind) == {i \in DOMAIN tokens : tokens[i].tok = kind}

\* Whatever the order of the tokens, a channel has the control detector with the
\* number that it was given, if there is one (resolve_control_detectors).
ReferencesAreMet ==
  (Running /\ Of("OLD") = {}) =>
    \A i \in Of("LCQ") :
      LET ctrl == lcqs[WithNum(lcqs, tokens[i].num)].ctrl
      IN  IF tokens[i].ctrl \in {tokens[j].num : j \in Of("CTRL")}
          THEN ctrl # None /\ ctrlchain[ctrl].num = tokens[i].ctrl
          ELSE ctrl = None

\* Every channel of the digitizer gets its data, once, and no data go to a channel
\* of another session, whose memory was given back (init_lcq, clear_sg).
DispatchedOnce ==
  \A k \in Keys :
    mdispatch[k] = IF ~Running THEN << >>
                   ELSE LET of == SelectSeq(lcqs, LAMBDA l : l.src = k)
                        IN  [i \in DOMAIN of |-> [num |-> of[i].num, session |-> session]]

\* Numbers of channels are different, those of the timing and the configuration
\* channel, too (add_msg_tim_lcqs).
NumbersDiffer == \A i, j \in DOMAIN lcqs : lcqs[i].num = lcqs[j].num => i = j

\* The Q330 is told to send what the channels need and no more (verify_mapping),
\* also if its answer is lost.
MappingIsSet == (Running /\ ~non_comp) ~> (~Running \/ freqs = Needed(lcqs))

\* While no command is left it sends just that.
MappingIsKept == (Running /\ ~non_comp /\ slogs = 0 /\ ~log_changed) => freqs = Needed(lcqs)

\* What is known of the Q330 is so when no command is left.
LogIsFreqs == (Running /\ slogs = 0 /\ ~log_changed) => log = freqs

\* The filter of a channel is the one that the tokens gave its number to
\* (read_fir, find_fir).
FilterIsNamed ==
  (Running /\ Of("OLD") = {}) =>
    \A l \in Of("LCQ") : \A f \in Of("FIR") :
      (tokens[f].num = tokens[l].fir /\ f < l) => FirNames[lcqs[WithNum(lcqs, tokens[l].num)].fir] = tokens[f].name
=============================================================================
