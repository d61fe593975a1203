------------------------------- MODULE Messages -------------------------------
(***************************************************************************)
(* The message log of a station (libmsgs.c, liblogs.c).  Every message is  *)
(* numbered and goes to the host's callback; it is also written, as text,  *)
(* to the record of the channel LOG, which is sent when it is full, old or *)
(* idle.  Messages of other threads than the station's, and messages made  *)
(* before the channel and the network code are known, wait in a circular   *)
(* queue.  msgadd and dump_msgqueue hold msglock from end to end, so each  *)
(* is one step; flush_messages does not take it.                           *)
(***************************************************************************)
EXTENDS Integers, Sequences, SequencesExt

CONSTANTS
  Clients,              \* threads of the host that add messages
  Lengths,              \* of the text of a message
  NONDATA_AREA,         \* room for text in a record
  QueueSize,            \* elements of the circular queue
  MaxAge, LOG_TIMEOUT,  \* seconds (60 and 120)
  MaxMessages           \* bound

MessagesAssumption ==
  /\ Lengths \subseteq Nat \ {0} /\ Lengths # {}
  /\ NONDATA_AREA \in Nat /\ \A n \in Lengths : n + 2 <= NONDATA_AREA
  /\ QueueSize \in Nat \ {0, 1} /\ MaxAge \in Nat /\ LOG_TIMEOUT \in Nat \ {0}
  /\ MaxMessages \in Nat

Station == "station"

VARIABLES
  mode,                 \* "idle" without timers, "run" from registration on, "term"
  network,              \* the network code is known
  msg_lcq,              \* the channel LOG and its ring exist
  msg_count,
  msgq,                 \* the circular queue: messages
  text,                 \* the messages in the record that is being filled
  age,                  \* of that record, in seconds, up to MaxAge + 1
  log_timer,
  nested_log,
  flushing,             \* whether the station thread is inside flush_messages
  sent                  \* the records sent, each a sequence of messages

vars == <<mode, network, msg_lcq, msg_count, msgq, text, age, log_timer,
          nested_log, flushing, sent>>

Length(messages) == FoldSeq(LAMBDA m, n : n + m.length + 2, 0, messages)

Init ==
  /\ mode = "idle" /\ network \in BOOLEAN /\ msg_lcq = FALSE
  /\ msg_count = 0 /\ msgq = << >>
  /\ text = << >> /\ age = 0 /\ log_timer = 0
  /\ nested_log = FALSE /\ flushing = FALSE /\ sent = << >>

\* whether the record goes out before the message is written into it
SendFirst(record, m) ==
  record.text # << >> /\ (Length(record.text) + m.length + 2 > NONDATA_AREA
                          \/ record.age > MaxAge)

log_message(record, m) ==
  IF SendFirst(record, m)
  THEN [text |-> <<m>>, age |-> 0, sent |-> Append(record.sent, record.text)]
  ELSE [text |-> Append(record.text, m), sent |-> record.sent,
        age |-> IF record.text = << >> THEN 0 ELSE record.age]

LogAll(messages) ==
  LET Final == FoldLeft(log_message, [text |-> text, age |-> age, sent |-> sent], messages)
  IN  /\ text' = Final.text /\ age' = Final.age /\ sent' = Final.sent
      /\ log_timer' = LOG_TIMEOUT

Ready == mode # "term" /\ network /\ msg_lcq

-----------------------------------------------------------------------------
\* into the queue, unless it is full: the message is dropped then
Enqueue(m) == msgq' = IF Len(msgq) < QueueSize - 1 THEN Append(msgq, m) ELSE msgq

LogNow_fault(m) == LogAll(<<m>>) /\ UNCHANGED msgq

LogNow(m) == LogAll(Append(msgq, m)) /\ msgq' = << >>

\* by the station thread (libmsgadd), or by another one (lib_msg_add)
msgadd(thread) ==
  /\ msg_count < MaxMessages
  /\ thread = Station => ~flushing
  /\ msg_count' = msg_count + 1
  /\ \E n \in Lengths :
       LET m == [number |-> msg_count + 1, length |-> n] IN
       CASE nested_log -> UNCHANGED <<msgq, text, age, log_timer, sent>>
         [] ~nested_log /\ thread = Station /\ Ready -> LogNow(m)
         [] OTHER -> Enqueue(m) /\ UNCHANGED <<text, age, log_timer, sent>>
  /\ UNCHANGED <<mode, network, msg_lcq, nested_log, flushing>>

\* the 100 ms timer
dump_msgqueue_fault ==
  /\ mode = "run" /\ ~flushing /\ Ready /\ Len(msgq) = QueueSize - 1
  /\ LogAll(msgq) /\ msgq' = << >>
  /\ UNCHANGED <<mode, network, msg_lcq, msg_count, nested_log, flushing>>

dump_msgqueue ==
  /\ mode = "run" /\ ~flushing /\ Ready /\ msgq # << >>
  /\ LogAll(msgq) /\ msgq' = << >>
  /\ UNCHANGED <<mode, network, msg_lcq, msg_count, nested_log, flushing>>

\* flush_messages: the record is sent while nested_log keeps messages out of it
flush_messages(timer) ==
  IF msg_lcq /\ text # << >>
  THEN flushing' = TRUE /\ nested_log' = TRUE /\ log_timer' = timer
  ELSE log_timer' = (IF msg_lcq THEN 0 ELSE timer) /\ UNCHANGED <<flushing, nested_log>>

FlushSends ==
  /\ flushing
  /\ sent' = Append(sent, text) /\ text' = << >> /\ log_timer' = 0
  /\ nested_log' = FALSE /\ flushing' = FALSE
  /\ UNCHANGED <<mode, network, msg_lcq, msg_count, msgq, age>>

\* one second of the station thread; without a registration it counts nothing
Second ==
  /\ ~flushing /\ mode # "term"
  /\ IF mode = "run" /\ log_timer > 0
     THEN IF log_timer = 1
          THEN flush_messages(0)
          ELSE log_timer' = log_timer - 1 /\ UNCHANGED <<nested_log, flushing>>
     ELSE UNCHANGED <<log_timer, nested_log, flushing>>
  /\ age' = IF age > MaxAge THEN age ELSE age + 1
  /\ UNCHANGED <<mode, network, msg_lcq, msg_count, msgq, text, sent>>

\* a registration begins: the channel is made, if this is the first (restore_thread_
\* continuity); later the tokens tell the network code
Register ==
  /\ mode = "idle" /\ mode' = "run" /\ msg_lcq' = TRUE
  /\ UNCHANGED <<network, msg_count, msgq, text, age, log_timer, nested_log, flushing, sent>>

Tokens ==
  /\ mode = "run" /\ ~flushing /\ network' = TRUE
  /\ UNCHANGED <<mode, msg_lcq, msg_count, msgq, text, age, log_timer, nested_log, flushing, sent>>

\* a registration ends; the record stays
Leave ==
  /\ mode = "run" /\ ~flushing /\ mode' = "idle"
  /\ UNCHANGED <<network, msg_lcq, msg_count, msgq, text, age, log_timer, nested_log, flushing, sent>>

\* lib_flush_data, and the end of the thread (flush_dplcqs)
Flush ==
  /\ mode = "run" /\ ~flushing /\ flush_messages(log_timer)
  /\ UNCHANGED <<mode, network, msg_lcq, msg_count, msgq, text, age, sent>>

Terminate ==
  /\ mode = "idle" /\ ~flushing /\ flush_messages(log_timer) /\ mode' = "term"
  /\ UNCHANGED <<network, msg_lcq, msg_count, msgq, text, age, sent>>

Next ==
  \/ \E t \in Clients \cup {Station} : msgadd(t)
  \/ dump_msgqueue
  \/ FlushSends
  \/ Second
  \/ Register
  \/ Tokens
  \/ Leave
  \/ Flush
  \/ Terminate

\* the station thread runs its timer and finishes the call it is in
Spec == Init /\ [][Next]_vars /\ WF_vars(dump_msgqueue) /\ WF_vars(FlushSends) /\ WF_vars(Second)

-----------------------------------------------------------------------------
(* What must hold.                                                         *)

Logged == FlattenSeq(sent) \o text \o msgq
Numbers == {Logged[i].number : i \in DOMAIN Logged}

\* liblogs.c, libmsgs.c: the types of the log, and a record never holds more
\* text than there is room for behind its header
MessagesTypeOK ==
  /\ mode \in {"idle", "run", "term"} /\ network \in BOOLEAN /\ msg_lcq \in BOOLEAN
  /\ msg_count \in 0..MaxMessages /\ Len(msgq) < QueueSize
  /\ age \in 0..(MaxAge + 1) /\ log_timer \in 0..LOG_TIMEOUT
  /\ nested_log \in BOOLEAN /\ flushing \in BOOLEAN
  /\ \A record \in Range(sent) \cup {text} : Length(record) <= NONDATA_AREA

\* libmsgs.c, msgadd: whatever thread a message comes from and whether it had
\* to wait, the log has the messages in the order of their numbers, each once
LoggedInOrder ==
  \A i \in 1..(Len(Logged) - 1) : Logged[i].number < Logged[i + 1].number

\* liblogs.c: a message that is in the log or waits for it is not lost again,
\* whoever adds others and whenever the record is sent
LoggedIsKept == [][Numbers \subseteq Numbers']_vars

\* liblogs.c, log_timer: while there is text in the record the timer runs that
\* will send it
TextIsTimed == text # << >> => log_timer > 0 \/ flushing

\* libmsgs.c, liblogs.c: with a registration that lasts, a message that waits in
\* the queue, and text in the record, are sent in the end
WaitingIsSent ==
  \A n \in 1..MaxMessages :
    [](n \in Numbers /\ network => <>(mode # "run" \/ \E i \in DOMAIN sent :
                                \E j \in DOMAIN sent[i] : sent[i][j].number = n))
=============================================================================
