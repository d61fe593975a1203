-------------------------------- MODULE Status --------------------------------
(***************************************************************************)
(* The statuses of the Q330 (libcmds.c, libclient.c): at intervals, and    *)
(* when a client asks for more of them, the station thread requests a set  *)
(* of statuses with C1_RQSTAT, again and again until answers have brought  *)
(* all of them, and puts each where clients find it.  A status is its      *)
(* kind; an answer holds what fits of what was requested, one kind after   *)
(* the other in the order of their bits.                                   *)
(***************************************************************************)
EXTENDS Integers, SequencesExt

CONSTANTS
  Wishes,               \* sets of statuses a client asks for
  q335,                 \* the unit is a Q335
  MaxWishes, MaxOthers, MaxAborts, MaxRestarts  \* bounds

Order == <<"GLB", "THR", "PLL", "LOG1", "LOG2", "SER1", "SER2", "FES">>
Kinds == {Order[i] : i \in DOMAIN Order}

StatusAssumption ==
  /\ Wishes \subseteq SUBSET Kinds /\ q335 \in BOOLEAN
  /\ {MaxWishes, MaxOthers, MaxAborts, MaxRestarts} \subseteq Nat

VARIABLES
  stat_request,         \* what is still to come
  extra_status,         \* what the client asks for
  due,                  \* interval_counter has reached status_interval
  have_status, kept,    \* statuses received; what is in the place of each
  cmdq, cphase, flight, \* commands; of the one in flight, what was requested
  wishes, others, aborts, restarts      \* counters

commands == <<cmdq, cphase, flight>>
counters == <<wishes, others, aborts, restarts>>
vars == <<stat_request, extra_status, due, have_status, kept, commands, counters>>

Mine == "LOG1"

\* fault: one status is kept where another is
Place_fault(k) == IF k = "FES" THEN "PLL" ELSE IF k \in {"LOG1", "LOG2"} THEN "stat_log" ELSE IF k \in {"SER1", "SER2"} THEN "GLB" ELSE k

\* Places of the shared structure: the ports of a kind have one.
Place(k) ==
  CASE k \in {"LOG1", "LOG2"} -> "stat_log"
    [] k \in {"SER1", "SER2"} -> "stat_serial"
    [] OTHER -> k

Places == {Place(k) : k \in Kinds \ {"THR"}}

\* lib330_reboot
AtReboot == {Mine, "GLB"}

Init ==
  /\ stat_request = AtReboot /\ extra_status = {} /\ due = FALSE
  /\ have_status = {} /\ kept = [p \in Places |-> "nothing"]
  /\ cmdq = <<"RQSTAT">> /\ cphase = "IDLE" /\ flight = {}
  /\ wishes = 0 /\ others = 0 /\ aborts = 0 /\ restarts = 0

-----------------------------------------------------------------------------
new_cmd(q, c) == IF Contains(q, c) THEN q ELSE Append(q, c)

\* "Eliminate status that can't be obtained"
Obtainable == IF q335 THEN Kinds \ {"THR", "SER1", "SER2"} ELSE Kinds \ {"FES"}

lib_request_status(wish) ==
  /\ wishes < MaxWishes /\ wishes' = wishes + 1
  /\ extra_status' = wish \intersect Obtainable /\ due' = TRUE
  /\ UNCHANGED <<stat_request, have_status, kept, commands, others, aborts, restarts>>

\* lib_get_status: what a client gets when it asks for k
Given(k) ==
  IF \/ k \notin have_status \/ k = "THR"
     \/ (q335 /\ k \in {"SER1", "SER2"})
     \/ (~q335 /\ k = "FES")
     \/ k = "LOG2"
  THEN "nothing"
  ELSE kept[Place(k)]

\* lib_timer, when the interval is over
IntervalOver ==
  /\ ~due /\ due' = TRUE
  /\ UNCHANGED <<stat_request, extra_status, have_status, kept, commands, counters>>

Begins == due /\ stat_request = {}

RequestStatus ==
  /\ Begins /\ due' = FALSE
  /\ stat_request' = {Mine, "GLB", "PLL"} \union extra_status /\ cmdq' = new_cmd(cmdq, "RQSTAT")
  /\ UNCHANGED <<extra_status, have_status, kept, cphase, flight, counters>>

\* other commands wait in the same queue
OtherCommand ==
  /\ others < MaxOthers /\ others' = others + 1 /\ cmdq' = new_cmd(cmdq, "OTHER")
  /\ UNCHANGED <<stat_request, extra_status, due, have_status, kept, cphase, flight, wishes, aborts, restarts>>

lib_send_next_cmd ==
  /\ cmdq # << >> /\ cphase # "WAIT" /\ cphase' = "WAIT" /\ flight' = stat_request
  /\ UNCHANGED <<stat_request, extra_status, due, have_status, kept, cmdq, counters>>

\* nothing comes in time
Timeout ==
  /\ cphase = "WAIT" /\ cphase' = "NEED"
  /\ UNCHANGED <<stat_request, extra_status, due, have_status, kept, cmdq, flight, counters>>

clear_cmsg == cmdq' = Tail(cmdq) /\ cphase' = "IDLE" /\ flight' = flight

\* fault: what was requested is still thought to come
Given_up_fault == stat_request

Given_up == {}

abort_cmsg ==
  /\ cphase = "WAIT" /\ aborts < MaxAborts /\ aborts' = aborts + 1
  /\ clear_cmsg /\ stat_request' = Given_up
  /\ UNCHANGED <<extra_status, due, have_status, kept, wishes, others, restarts>>

-----------------------------------------------------------------------------
\* What an answer with resp, read from its beginning, leaves in place p: a
\* thread status is not read over, and what follows it is taken from the wrong
\* place.
Loaded(resp, p) ==
  LET here == {i \in DOMAIN Order : Order[i] \in resp \ {"THR"} /\ Place(Order[i]) = p}
      last == CHOOSE i \in here : \A j \in here : j <= i
  IN  IF here = {} THEN kept[p]
      ELSE IF \E j \in 1 .. last : Order[j] \in resp \intersect {"THR"} THEN "garbage" ELSE Order[last]

StillToCome(resp) == stat_request \ resp

\* C1_STAT
StatusReceived(resp) ==
  /\ cphase = "WAIT" /\ Head(cmdq) = "RQSTAT"
  /\ resp \subseteq flight /\ (resp = {} => flight = {})
  /\ kept' = [p \in Places |-> Loaded(resp, p)]
  /\ have_status' = have_status \union resp /\ stat_request' = StillToCome(resp)
  /\ cmdq' = IF stat_request' = {} THEN Tail(cmdq) ELSE new_cmd(Tail(cmdq), "RQSTAT")
  /\ cphase' = "IDLE" /\ flight' = {}
  /\ UNCHANGED <<extra_status, due, counters>>

OtherAnswered ==
  /\ cphase = "WAIT" /\ Head(cmdq) = "OTHER" /\ clear_cmsg
  /\ UNCHANGED <<stat_request, extra_status, due, have_status, kept, counters>>

\* purge_cmdq, and the registration and reboot that follow
Restart ==
  /\ restarts < MaxRestarts /\ restarts' = restarts + 1
  /\ have_status' = {} /\ stat_request' = AtReboot /\ cmdq' = <<"RQSTAT">> /\ cphase' = "IDLE"
  /\ UNCHANGED <<extra_status, due, kept, flight, wishes, others, aborts>>

Next ==
  \/ \E w \in Wishes : lib_request_status(w)
  \/ IntervalOver \/ RequestStatus \/ OtherCommand \/ lib_send_next_cmd \/ Timeout
  \/ abort_cmsg \/ OtherAnswered \/ Restart
  \/ \E resp \in SUBSET flight : StatusReceived(resp)

\* Of the commands that are sent again and again one is answered, with what
\* fits.
Spec ==
  Init /\ [][Next]_vars
  /\ WF_vars(IntervalOver) /\ WF_vars(RequestStatus) /\ WF_vars(lib_send_next_cmd)
  /\ SF_vars(OtherAnswered) /\ SF_vars(\E resp \in SUBSET flight : StatusReceived(resp))

-----------------------------------------------------------------------------
\* While statuses are still to come there is a command that asks for them,
\* also when commands are given up or the registration begins anew
\* (lib_command_response, abort_cmsg).
LackingIsAskedFor == stat_request # {} => Contains(cmdq, "RQSTAT")

\* What a client asks for it can have at last, unless it has asked for
\* something else since (lib_request_status, lib_timer).
StatusIsFetched == \A k \in Kinds : (k \in extra_status) ~> (k \in have_status \/ k \notin extra_status)

\* What a client gets for a status is that status (lib_get_status).
GivenIsAsked == \A k \in Kinds : Given(k) \in {"nothing", k}

\* The status of a serial port is of that port (libtypes.h, "Serial Port 1
\* Status").
SerialIsOfPort == \A k \in {"SER1", "SER2"} : Given(k) \in {"nothing", k}

\* The status kept of a logical port is of the port that is used here
\* (lib_get_status, "MY logical port status").
LogIsMine == kept["stat_log"] \in {"nothing", Mine}

\* Statuses that cannot be obtained are not requested, and answers are read
\* as they are written (lib_request_status, "Eliminate status that can't be
\* obtained").
AnswersAreRead == \A p \in Places : kept[p] # "garbage"
=============================================================================
