------------------------------- MODULE Commands -------------------------------
(***************************************************************************)
(* The control port of a registered station thread of lib330 (libcmds.c):  *)
(* the ring of commands that wait for their turn, the one command in       *)
(* flight with its sequence number and its repetitions, and the two        *)
(* requests of a client whose content lies in the shared structure until   *)
(* the command is sent: a new logical port configuration (C1_SLOG), and a  *)
(* command tunnelled to the Q330.                                          *)
(*                                                                         *)
(* Every tunnelled command awaits the same kind of answer here, and only   *)
(* tunnelled commands and those in Refused are ever answered by C1_CERR.   *)
(* The Q330 is external: it takes a command when it arrives or does not    *)
(* get it, and its answer may be lost or late.                             *)
(***************************************************************************)
EXTENDS Integers, Sequences, FiniteSets

CONSTANTS
  Own,                  \* commands the thread gives itself
  Tunnelled,            \* commands a client tunnels, some also in Own
  Refused,              \* those of Own the Q330 may answer with C1_CERR
  CMDQSZ,               \* 32
  Overlaps,             \* whether a client changes what is being sent
  Purges,               \* whether the queue may be purged
  MaxChanges, MaxSends  \* bounds: client requests, transmissions

SLOG == "SLOG"
Cmds == Own \cup Tunnelled \cup {SLOG}

ASSUME CommandsAssumption ==
  /\ IsFiniteSet(Cmds) /\ Cardinality(Cmds) < CMDQSZ /\ CMDQSZ \in Nat /\ Refused \subseteq Own
  /\ SLOG \notin Own \cup Tunnelled
  /\ Overlaps \in BOOLEAN /\ Purges \in BOOLEAN
  /\ MaxChanges \in Nat /\ MaxSends \in Nat

VARIABLES
  cmdq, cmdin, cmdout, cphase, ctrlseq, lastctrlseq,
  log, newlog, log_changed,     \* of share
  tunnel_state, tunnel          \* reqcmd and payload

VARIABLES
  configs, tunnels,     \* client requests so far, which number the contents
  q330log,              \* the logical port configuration the Q330 has
  answers               \* on their way: sequence number, command, content

queue == <<cmdq, cmdin, cmdout>>
flight == <<cphase, ctrlseq, lastctrlseq>>
share == <<log, newlog, log_changed, tunnel_state, tunnel>>
client == <<configs, tunnels>>
vars == <<queue, flight, share, client, q330log, answers>>

NoCommand == [cmd |-> "none", tunneled |-> FALSE]

\* the commands in the ring
Queue == [k \in 1 .. (cmdin - cmdout) % CMDQSZ |-> cmdq[(cmdout + k - 1) % CMDQSZ]]
Head1 == cmdq[cmdout]

Init ==
  /\ cmdq = [i \in 0..(CMDQSZ - 1) |-> NoCommand] /\ cmdin = 0 /\ cmdout = 0
  /\ cphase = "IDLE" /\ ctrlseq = 1 /\ lastctrlseq = 0
  /\ log = 0 /\ newlog = 0 /\ log_changed = FALSE
  /\ tunnel_state = "IDLE" /\ tunnel = [reqcmd |-> "none", payload |-> 0]
  /\ configs = 0 /\ tunnels = 0 /\ q330log = 0 /\ answers = {}

-----------------------------------------------------------------------------
\* fault: a command is queued although it is there
new_cmd_fault(ncmd, tunneled) ==
  /\ cmdq' = [cmdq EXCEPT ![cmdin] = [cmd |-> ncmd, tunneled |-> tunneled]]
  /\ cmdin' = (cmdin + 1) % CMDQSZ
  /\ UNCHANGED cmdout

\* (that it also sends the command when none is in flight is Send)
new_cmd(ncmd, tunneled) ==
  IF \E k \in 1..Len(Queue) : Queue[k].cmd = ncmd THEN UNCHANGED queue
  ELSE /\ cmdq' = [cmdq EXCEPT ![cmdin] = [cmd |-> ncmd, tunneled |-> tunneled]]
       /\ cmdin' = (cmdin + 1) % CMDQSZ
       /\ UNCHANGED cmdout

\* fault: the pointers of the ring are set equal
clear_cmsg_fault ==
  /\ cphase' = "IDLE" /\ cmdout' = cmdin
  /\ UNCHANGED <<cmdq, cmdin, ctrlseq, lastctrlseq>>

clear_cmsg ==
  /\ cphase' = "IDLE"
  /\ cmdout' = IF cmdin # cmdout THEN (cmdout + 1) % CMDQSZ ELSE cmdout
  /\ UNCHANGED <<cmdq, cmdin, ctrlseq, lastctrlseq>>

\* a client may give up the command in flight
abort_cmsg ==
  /\ Purges /\ cphase = "WAIT" /\ clear_cmsg
  /\ UNCHANGED <<share, client, q330log, answers>>

\* done when a registration ends, whatever is in the ring
purge_cmdq ==
  /\ Purges
  /\ cphase' = "IDLE" /\ cmdin' = 0 /\ cmdout' = 0
  /\ UNCHANGED <<cmdq, ctrlseq, lastctrlseq, share, client, q330log, answers>>

\* the thread needs something of the Q330
OwnCommand ==
  /\ \E c \in Own : new_cmd(c, FALSE) /\ queue' # queue
  /\ UNCHANGED <<flight, share, client, q330log, answers>>

-----------------------------------------------------------------------------
(* The client, under the lock.                                             *)

lib_set_config ==
  /\ configs < MaxChanges
  /\ Overlaps \/ (~log_changed /\ \A k \in 1..Len(Queue) : Queue[k].cmd # SLOG)
  /\ configs' = configs + 1
  /\ newlog' = configs' /\ log_changed' = TRUE
  /\ UNCHANGED <<queue, flight, log, tunnel_state, tunnel, tunnels, q330log, answers>>

lib_send_tunneled ==
  /\ tunnel_state \in {"IDLE", "READY"}
  /\ tunnels < MaxChanges /\ tunnels' = tunnels + 1
  /\ \E c \in Tunnelled : tunnel' = [reqcmd |-> c, payload |-> tunnels']
  /\ tunnel_state' = "REQ"
  /\ UNCHANGED <<queue, flight, log, newlog, log_changed, configs, q330log, answers>>

-----------------------------------------------------------------------------
(* The timer.                                                              *)

LogChanged ==
  /\ log_changed /\ log_changed' = FALSE
  /\ new_cmd(SLOG, FALSE)
  /\ UNCHANGED <<flight, log, newlog, tunnel_state, tunnel, client, q330log, answers>>

TunnelRequested ==
  /\ tunnel_state = "REQ" /\ tunnel_state' = "SENT"
  /\ new_cmd(tunnel.reqcmd, TRUE)
  /\ UNCHANGED <<flight, log, newlog, log_changed, tunnel, client, q330log, answers>>

\* no answer in time: the command is sent again
Timeout ==
  /\ cphase = "WAIT" /\ cphase' = "NEED"
  /\ UNCHANGED <<queue, ctrlseq, lastctrlseq, share, client, q330log, answers>>

\* the content is what lies in the shared structure when the command is sent
Content(c) == IF c.tunneled THEN tunnel.payload ELSE IF c.cmd = SLOG THEN newlog ELSE 0

\* fault: a command goes out under the number of the one before
Numbered_fault(seq) == IF lastctrlseq = 0 THEN seq ELSE lastctrlseq

Numbered(seq) == seq

lib_send_next_cmd ==
  /\ \/ cphase = "NEED"
     \/ cphase = "IDLE" /\ cmdin # cmdout
  /\ ctrlseq <= MaxSends
  /\ cphase' = "WAIT"
  /\ lastctrlseq' = Numbered(ctrlseq) /\ ctrlseq' = ctrlseq + 1
  /\ \/ UNCHANGED <<q330log, answers>>                        \* lost
     \/ /\ q330log' = IF Head1.cmd = SLOG THEN newlog ELSE q330log
        /\ \/ UNCHANGED answers                               \* the answer is
           \/ \E cerr \in {FALSE} \cup {Head1.tunneled \/ Head1.cmd \in Refused} :
                answers' = answers \cup
                  {[seq |-> lastctrlseq', cmd |-> Head1.cmd,
                    content |-> Content(Head1), cerr |-> cerr]}
  /\ UNCHANGED <<queue, share, client>>

-----------------------------------------------------------------------------
SetLog == log' = newlog

Acknowledges(a) == a.seq = lastctrlseq

Refusal == tunnel_state' = "IDLE"            \* "just in case"

\* what the answer to the command in flight does
Answered(a) ==
  \/ /\ a.cerr
     /\ Refusal
     /\ UNCHANGED <<log, newlog, log_changed, tunnel>>
  \/ /\ ~a.cerr /\ Head1.tunneled /\ tunnel_state = "SENT"
     /\ tunnel_state' = "READY"
     /\ tunnel' = [tunnel EXCEPT !.payload = a.content]
     /\ UNCHANGED <<log, newlog, log_changed>>
  \/ /\ ~a.cerr /\ Head1.tunneled /\ tunnel_state # "SENT"
     /\ UNCHANGED share
  \/ /\ ~a.cerr /\ ~Head1.tunneled /\ Head1.cmd = SLOG
     /\ SetLog
     /\ UNCHANGED <<newlog, log_changed, tunnel_state, tunnel>>
  \/ /\ ~a.cerr /\ ~Head1.tunneled /\ Head1.cmd # SLOG
     /\ UNCHANGED share

\* an answer arrives; one that is not to the command last sent is ignored
CommandReceived ==
  \E a \in answers :
    /\ answers' = answers \ {a}
    /\ IF cphase = "WAIT" /\ Acknowledges(a)
       THEN clear_cmsg /\ Answered(a)
       ELSE UNCHANGED <<queue, flight, share>>
    /\ UNCHANGED <<client, q330log>>

Next ==
  \/ OwnCommand \/ lib_set_config \/ lib_send_tunneled
  \/ LogChanged \/ TunnelRequested \/ Timeout \/ lib_send_next_cmd
  \/ CommandReceived \/ abort_cmsg \/ purge_cmdq

Spec == Init /\ [][Next]_vars

-----------------------------------------------------------------------------
\* A command that is in flight is in the ring, and what is awaited carries the
\* last sequence number.
CommandsTypeOK ==
  /\ cphase \in {"IDLE", "NEED", "WAIT"}
  /\ cphase # "IDLE" => cmdin # cmdout
  /\ lastctrlseq < ctrlseq

\* Only a purge makes more than one command disappear: the ring never runs
\* over itself, whoever gives commands and however long none is answered.
CommandsAreKept ==
  [][Len(Queue') >= Len(Queue) - 1 \/ (cmdin' = 0 /\ cmdout' = 0)]_vars

\* An answer that is accepted is to the command at the head of the ring, also
\* when answers to earlier commands and transmissions are still on their way.
AnswerIsForHead ==
  \A a \in answers :
    cphase = "WAIT" /\ Acknowledges(a) => a.cmd = Head1.cmd

\* When nothing is left to be done the configuration the library shows, the
\* one the client asked for and the one the Q330 works with are the same.
LogIsKnown ==
  (~log_changed /\ \A k \in 1..Len(Queue) : Queue[k].cmd # SLOG) =>
    log = q330log /\ log = newlog

\* What the client is given is the answer to its last request.
TunnelAnswerIsTheRequests ==
  tunnel_state = "READY" => tunnel.payload = tunnels

\* "Tunnelling in progress" means that there is a tunnelled command whose
\* answer is awaited.
BusyIsInProgress ==
  tunnel_state = "SENT" => \E k \in 1..Len(Queue) : Queue[k].tunneled
=============================================================================
