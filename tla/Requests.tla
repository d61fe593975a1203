------------------------------- MODULE Requests -------------------------------
(***************************************************************************)
(* What threads of a client leave with a station thread that is            *)
(* registered, for its timer to find (libclient.c, lib_timer of libcmds.c, *)
(* new_cfg of libstrucs.c): a message to the user of the Q330, a ping, a   *)
(* configuration to be fetched, the command in flight to be given up.      *)
(* Requests of a kind share one place.  The commands are those of module   *)
(* Commands without their ring and their numbers; the message and the ping *)
(* that the library sends of its own when it has registered are number 0.  *)
(***************************************************************************)
EXTENDS Integers, SequencesExt

CONSTANTS
  Configs,              \* configurations that are fetched when asked for
  Aborts,               \* whether a client gives up commands
  MaxMessages, MaxPings, MaxReads, MaxLosses    \* bounds

RequestsAssumption ==
  /\ {"UMSG", "PING"} \cap Configs = {} /\ Aborts \in BOOLEAN
  /\ {MaxMessages, MaxPings, MaxReads, MaxLosses} \subseteq Nat

VARIABLES
  cmdq, cphase,         \* commands, the first one in flight
  flight,               \* what was sent with it
  need_regmsg,
  usermessage_requested, user_message, newuser,
  client_ping, pingreq,
  want_config, have_config,
  seen,                 \* what the timer has read of want_config, and is to write
  abort_requested,
  shown,                \* messages the Q330 has shown, in order
  given,                \* ghost: the last message given to the command
  answer,               \* ghost: of the last ping: what was asked, and what answered
  waiting,              \* ghost: configurations a client waits to be told about
  reads, losses         \* counters

queue == <<cmdq, cphase, flight>>
message == <<usermessage_requested, user_message, newuser, shown, given>>
ping == <<client_ping, pingreq, answer>>
config == <<want_config, have_config, seen, waiting, reads>>
vars == <<queue, need_regmsg, message, ping, config, abort_requested, losses>>

Nothing == {"nothing"}        \* the timer is not at want_config
Empty == -1                   \* msg[0] = 0

Init ==
  /\ cmdq = << >> /\ cphase = "IDLE" /\ flight = Empty /\ need_regmsg = TRUE
  /\ usermessage_requested = FALSE /\ user_message = 0 /\ newuser = Empty /\ shown = << >> /\ given = Empty
  /\ client_ping = "IDLE" /\ pingreq = 0 /\ answer = <<0, 0>>
  /\ want_config = {} /\ have_config = {} /\ seen = Nothing /\ waiting = {} /\ reads = 0
  /\ abort_requested = FALSE /\ losses = 0

-----------------------------------------------------------------------------
\* fault: what is behind the command in flight is overwritten
new_cmd_fault(c) == cmdq' = IF Len(cmdq) > 1 THEN <<Head(cmdq), c>> ELSE Append(cmdq, c)

\* a command that is already there is not queued again, also if it is in flight
Queued(q, c) == IF Contains(q, c) THEN q ELSE Append(q, c)
new_cmd(c) == cmdq' = Queued(cmdq, c)

clear_cmsg == cmdq' = Tail(cmdq) /\ cphase' = "IDLE" /\ flight' = Empty

Idle == seen = Nothing

-----------------------------------------------------------------------------
(* Threads of the client, under the lock. *)

lib_send_usermessage ==
  /\ user_message < MaxMessages /\ user_message' = user_message + 1 /\ usermessage_requested' = TRUE
  /\ UNCHANGED <<queue, need_regmsg, newuser, shown, given, ping, config, abort_requested, losses>>

\* the client waits for the answer before it asks again
lib_ping_request ==
  /\ client_ping = "IDLE" /\ pingreq < MaxPings /\ pingreq' = pingreq + 1 /\ client_ping' = "REQ"
  /\ UNCHANGED <<queue, need_regmsg, message, answer, config, abort_requested, losses>>

lib_get_config(c) ==
  /\ reads < MaxReads /\ reads' = reads + 1
  /\ IF c \in have_config
     THEN have_config' = have_config \ {c} /\ UNCHANGED <<want_config, waiting>>
     ELSE /\ want_config' = want_config \union {c} /\ waiting' = waiting \union {c}
          /\ UNCHANGED have_config
  /\ UNCHANGED <<queue, need_regmsg, message, ping, seen, abort_requested, losses>>

lib_abort_command ==
  /\ Aborts /\ abort_requested' = TRUE
  /\ UNCHANGED <<queue, need_regmsg, message, ping, config, losses>>

-----------------------------------------------------------------------------
(* lib_timer. *)

abort_cmsg == clear_cmsg

\* who gives up a command does not wait for what it fetches
AbortRequested ==
  /\ Idle /\ abort_requested /\ abort_requested' = FALSE
  /\ IF cphase = "WAIT" THEN abort_cmsg /\ waiting' = waiting \ {Head(cmdq)}
     ELSE UNCHANGED <<queue, waiting>>
  /\ UNCHANGED <<need_regmsg, message, ping, want_config, have_config, seen, reads, losses>>

UserMessageRequested ==
  /\ Idle /\ usermessage_requested /\ usermessage_requested' = FALSE
  /\ newuser' = user_message /\ given' = user_message /\ new_cmd("UMSG")
  /\ UNCHANGED <<cphase, flight, need_regmsg, user_message, shown, ping, config, abort_requested, losses>>

\* The answer of a ping, true or faked, ends the request of the client.
Pinged(content) ==
  IF client_ping = "SENT"
  THEN client_ping' = "IDLE" /\ answer' = <<pingreq, content>> /\ pingreq' = pingreq
  ELSE UNCHANGED ping

\* A ping is not repeated, all other commands are.
Timeout ==
  /\ Idle /\ cphase = "WAIT" /\ losses < MaxLosses /\ losses' = losses + 1
  /\ IF Head(cmdq) = "PING" THEN clear_cmsg /\ Pinged(pingreq)
     ELSE cphase' = "NEED" /\ UNCHANGED <<cmdq, flight, ping>>
  /\ UNCHANGED <<need_regmsg, message, config, abort_requested>>

PingState == "SENT"

PingRequested ==
  /\ Idle /\ client_ping = "REQ" /\ client_ping' = PingState /\ new_cmd("PING")
  /\ UNCHANGED <<cphase, flight, need_regmsg, message, pingreq, answer, config, abort_requested, losses>>

\* Not under the lock: want_config is read, and later written.
WantConfigRead ==
  /\ Idle /\ want_config # {} /\ seen' = want_config
  /\ UNCHANGED <<queue, need_regmsg, message, ping, want_config, have_config, waiting, reads, abort_requested, losses>>

WantConfigWritten(c) ==
  /\ ~Idle /\ c \in seen /\ want_config' = seen \ {c} /\ new_cmd(c) /\ seen' = Nothing
  /\ UNCHANGED <<cphase, flight, need_regmsg, message, ping, have_config, waiting, reads, abort_requested, losses>>

\* The content is what is in its place when the command is sent.
Content(c) == CASE c = "UMSG" -> newuser [] c = "PING" -> pingreq [] OTHER -> Empty

\* a message that is empty is not shown
Shown(c) == IF c = "UMSG" /\ newuser > 0 THEN <<newuser>> ELSE << >>

lib_send_next_cmd ==
  /\ Idle /\ cmdq # << >> /\ cphase \in {"IDLE", "NEED"} /\ cphase' = "WAIT" /\ flight' = Content(Head(cmdq))
  /\ \/ losses < MaxLosses /\ shown' = shown                  \* lost
     \/ shown' = shown \o Shown(Head(cmdq))
  /\ UNCHANGED <<cmdq, need_regmsg, usermessage_requested, user_message, newuser, given, ping, config, abort_requested, losses>>

-----------------------------------------------------------------------------
(* The answers. *)

\* C1_UMSG: "clearing the message is a flag not to re-send"
MessageShown ==
  /\ Idle /\ cphase = "WAIT" /\ Head(cmdq) = "UMSG" /\ clear_cmsg /\ newuser' = Empty
  /\ UNCHANGED <<need_regmsg, usermessage_requested, user_message, shown, given, ping, config, abort_requested, losses>>

PingAnswered ==
  /\ Idle /\ cphase = "WAIT" /\ Head(cmdq) = "PING" /\ Pinged(flight) /\ clear_cmsg
  /\ UNCHANGED <<need_regmsg, message, config, abort_requested, losses>>

\* new_cfg: the client is told if it did not have that
new_cfg(c) ==
  /\ have_config' = have_config \union {c}
  /\ waiting' = IF c \in have_config THEN waiting ELSE waiting \ {c}

ConfigReceived ==
  /\ Idle /\ cphase = "WAIT" /\ Head(cmdq) \in Configs /\ new_cfg(Head(cmdq)) /\ clear_cmsg
  /\ UNCHANGED <<need_regmsg, message, ping, want_config, seen, reads, abort_requested, losses>>

\* C1_RQSTAT, the first status after a registration
Registered ==
  /\ Idle /\ need_regmsg /\ need_regmsg' = FALSE
  /\ newuser' = 0 /\ given' = 0
  /\ cmdq' = Queued(Queued(cmdq, "PING"), "UMSG")
  /\ UNCHANGED <<cphase, flight, usermessage_requested, user_message, shown, ping, config, abort_requested, losses>>

Answered == MessageShown \/ PingAnswered \/ ConfigReceived

Timer ==
  \/ AbortRequested \/ UserMessageRequested \/ PingRequested
  \/ WantConfigRead \/ \E c \in Configs : WantConfigWritten(c)

Next ==
  \/ lib_send_usermessage \/ lib_ping_request \/ lib_abort_command \/ \E c \in Configs : lib_get_config(c)
  \/ Timer \/ Timeout \/ lib_send_next_cmd \/ Answered \/ Registered

\* The timer comes every 100 ms; the Q330 answers what arrives.
Spec ==
  Init /\ [][Next]_vars
  /\ WF_vars(AbortRequested) /\ WF_vars(UserMessageRequested) /\ WF_vars(PingRequested) /\ WF_vars(WantConfigRead)
  /\ WF_vars(\E c \in Configs : WantConfigWritten(c)) /\ WF_vars(lib_send_next_cmd) /\ WF_vars(Answered)

-----------------------------------------------------------------------------
\* Every ping a client asks for is answered, or an answer is made up
\* (lib_timer, lib_command_response).
PingIsAnswered == (client_ping # "IDLE") ~> (client_ping = "IDLE")

\* A client that is told to wait for a configuration is told when it is there
\* (lib_get_config, lib_timer, new_cfg).
ConfigIsTold == \A c \in Configs : (c \in waiting) ~> (c \notin waiting)

\* A message that has been handed to a command is shown when there is no
\* command left to do it (lib_command_response, "a flag not to re-send").
MessageIsShown ==
  (given > 0 /\ ~Contains(cmdq, "UMSG")) => \E i \in DOMAIN shown : shown[i] = given

\* A ping that has been sent for a client is in the queue (lib_timer, CLP_SENT).
PingInProgress == client_ping = "SENT" => Contains(cmdq, "PING")

\* What a client is told of its ping is about what it asked (CLP_REQ, "client
\* has requested a ping").
AnswerIsToPing == answer[1] = answer[2]

\* What a client waits for has been asked for (lib_get_config, "request it").
WaitIsRequested ==
  \A c \in waiting : c \in want_config \/ (~Idle /\ c \in seen) \/ Contains(cmdq, c)
=============================================================================
