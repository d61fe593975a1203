---------------------------- MODULE StationThread ----------------------------
(***************************************************************************)
(* The station thread of lib330: one detached thread per context that      *)
(* registers with a Q330, reads its configuration, waits for the host,     *)
(* runs, de-registers and terminates (libstrucs.c, libcmds.c, q330io.c,    *)
(* libtokens.c).                                                           *)
(*                                                                         *)
(* The thread and its client share two words, target_state and liberr.     *)
(* The client writes them through lib_change_state, the thread writes them *)
(* itself when communications fail, and the thread's 100 ms timer compares *)
(* target_state with libstate and acts on the difference.  Each field of   *)
(* lib[c] is a field of tq330; pc says where in its loop the thread is,    *)
(* with one value for every point where it looks at a word the client may  *)
(* have written since the last look.                                       *)
(*                                                                         *)
(* State callbacks are synchronous: the thread appends them to calls and   *)
(* takes no step until the client has returned from each of them.          *)
(*                                                                         *)
(* Time is abstracted: a timer that may have run out is a disjunct that    *)
(* may be taken.  The mode modelled is the one q330.c registers with:      *)
(* HOST_ETH, no dynamic address, no connection-time or buffer limit.       *)
(***************************************************************************)
EXTENDS Naturals, Sequences

CONSTANT Contexts       \* the station contexts the client may create

VARIABLE lib            \* the tq330 of every context

-----------------------------------------------------------------------------
(* enum tlibstate, without PING, CONN and ANNC: unregistered ping, TCP     *)
(* tunnel and baler announcement, none of which q330.c asks for.           *)
LibStates == {"IDLE", "TERM", "REG", "READCFG", "READTOK", "DECTOK",
              "RUNWAIT", "RUN", "DEALLOC", "DEREG", "WAIT"}

\* States in which the thread's loop selects on the sockets.
OnLine == LibStates \ {"IDLE", "TERM", "WAIT"}

\* States the client or the thread itself can ask for.
Targets == {"IDLE", "TERM", "RUNWAIT", "RUN", "WAIT"}

\* liberr, as start_deallocation tells its values apart: GONE stands for
\* NOTR, TMSERV and DATATO, OTHER for the rest, LIBERR_NOERR among them.
LibErrs == {"OTHER", "TOKENS_CHANGE", "GONE"}

\* The commands of a session.  Those that only fetch or tell more are left out:
\* what a status asks for besides tokens (the log, the delays, the first ping
\* and user message) and the user message before a de-registration.
Commands == {"RQSRV", "SRVRSP", "RQFGLS", "RQGID", "RQSTAT", "RQMEM",
             "PING", "DSRV"}

\* A state callback: the new state when its type is ST_STATE, else its type;
\* STALL_ON and STALL_OFF are ST_STALL with info 1 and 0, and STATUS_GLB is
\* ST_STATUS with the bitmap of the global block alone.
Notices == LibStates \union {"OPSTAT", "STALL_ON", "STALL_OFF", "STATUS",
                             "STATUS_GLB", "CFG", "TICK"}

\* The head of the queue is to be sent, has to be sent again, or waits for
\* its answer.
Phases == {"IDLE", "NEED", "WAIT"}

ProgramPoints == {"none", "loop", "apply", "decode", "dealloc", "deallocIo",
                  "rest", "second", "exited"}

Lib == [libstate : LibStates, target : Targets, liberr : LibErrs,
        registered : BOOLEAN, sockets : BOOLEAN, cmdq : Seq(Commands),
        cphase : Phases, nobufs : BOOLEAN, stalled : BOOLEAN, rebootDone : BOOLEAN,
        terminate : BOOLEAN, pc : ProgramPoints, calls : Seq(Notices)]

-----------------------------------------------------------------------------
(* What the functions of the library do to a context.                      *)

NoContext ==
  [libstate |-> "IDLE", target |-> "IDLE", liberr |-> "OTHER",
   registered |-> FALSE, sockets |-> FALSE, cmdq |-> << >>,
   cphase |-> "IDLE", nobufs |-> FALSE, stalled |-> FALSE, rebootDone |-> FALSE,
   terminate |-> FALSE, pc |-> "none", calls |-> << >>]

\* lib_create_330: everything cleared, idle, and the thread started.
Created == [NoContext EXCEPT !.pc = "loop"]

\* Fault: the target is the first state of a registration, not its goal.
Registering_fault(s) ==
  [s EXCEPT !.registered = FALSE, !.cmdq = << >>, !.cphase = "IDLE",
            !.stalled = FALSE, !.rebootDone = FALSE, !.target = "REG"]

\* lib_register_330: the fields between first_clear and last_clear are
\* cleared and the target becomes RUNWAIT.
Registering(s) ==
  [s EXCEPT !.registered = FALSE, !.cmdq = << >>, !.cphase = "IDLE",
            !.stalled = FALSE, !.rebootDone = FALSE, !.target = "RUNWAIT"]

lib_change_state(s, newstate, reason) ==
  [s EXCEPT !.target = newstate, !.liberr = reason]

state_callback(s, notice) == [s EXCEPT !.calls = Append(@, notice)]

new_state(s, newstate) ==
  [state_callback(s, newstate) EXCEPT !.libstate = newstate]

close_sockets(s) == [s EXCEPT !.sockets = FALSE]

Unstall(s) ==
  IF s.stalled THEN [state_callback(s, "STALL_OFF") EXCEPT !.stalled = FALSE]
               ELSE s

purge_cmdq(s) == Unstall([s EXCEPT !.cmdq = << >>, !.cphase = "IDLE"])

\* Fault: the phase of the answered command is left behind.
clear_cmsg_fault(s) ==
  LET t == [s EXCEPT !.cmdq = Tail(@)]
  IN  IF t.cmdq = << >> THEN Unstall(t) ELSE t

clear_cmsg(s) ==
  LET t == [s EXCEPT !.cmdq = Tail(@), !.cphase = "IDLE"]
  IN  IF t.cmdq = << >> THEN Unstall(t) ELSE t

\* Fault: the target is left as it is.
GiveUp_fault(s, reason) == [purge_cmdq(s) EXCEPT !.liberr = reason]

\* Communications gave up: the queue is purged and the thread wants to wait.
GiveUp(s, reason) == lib_change_state(purge_cmdq(s), "WAIT", reason)

\* The head of the queue is sent unless it waits for its answer.  It counts
\* as sent when there is no socket; when the system has no buffer for it the
\* session is given up.
lib_send_next_cmd(s) ==
  IF s.cmdq = << >> \/ s.cphase = "WAIT" THEN s
  ELSE IF s.sockets /\ s.nobufs
  THEN close_sockets([GiveUp(s, "GONE") EXCEPT !.registered = FALSE])
  ELSE [s EXCEPT !.cphase = "WAIT"]

\* A command is queued once, however often it is asked for.
new_cmd(s, cmd) ==
  IF \E i \in 1 .. Len(s.cmdq) : s.cmdq[i] = cmd
  THEN s ELSE lib_send_next_cmd([s EXCEPT !.cmdq = Append(@, cmd)])

\* VERB_REGMSG is set in the verbosity q330.c asks for, so that a ping goes
\* ahead of the de-registration.
start_deregistration(s) ==
  new_cmd(new_cmd(purge_cmdq(new_state(s, "DEREG")), "PING"), "DSRV")

cfg_start(s) == new_cmd(new_state(s, "READTOK"), "RQMEM")

\* The queue is emptied, the phase of the command in flight is kept.
lib_continue_registration(s) ==
  new_cmd([new_state(s, "REG") EXCEPT !.registered = FALSE, !.cmdq = << >>],
          "RQSRV")

lib330_reboot(s) ==
  new_cmd(new_cmd(new_cmd([new_state(s, "READCFG") EXCEPT !.rebootDone = FALSE],
                          "RQFGLS"), "RQGID"), "RQSTAT")

\* start_deallocation up to the point where it reads liberr: the state
\* callback comes first, and the client may change liberr in the meantime.
BeginDeallocation(s, back) == [new_state(s, "DEALLOC") EXCEPT !.pc = back]

\* Fault: a session whose connection is lost is still counted as registered.
EndDeallocation_fault(s) ==
  CASE s.liberr = "TOKENS_CHANGE" -> cfg_start(s)
    [] s.liberr = "GONE" -> close_sockets(new_state(s, "WAIT"))
    [] OTHER -> start_deregistration(s)

\* The rest of start_deallocation.
EndDeallocation(s) ==
  CASE s.liberr = "TOKENS_CHANGE" -> cfg_start(s)
    [] s.liberr = "GONE" ->
         close_sockets([new_state(s, "WAIT") EXCEPT !.registered = FALSE])
    [] OTHER -> start_deregistration(s)

-----------------------------------------------------------------------------
(* The actions.  Step(c, s) makes s the new tq330 of context c.            *)

Init == lib = [c \in Contexts |-> NoContext]

Step(c, s) == lib' = [lib EXCEPT ![c] = s]

\* The thread is at pc and no callback is being served.
At(c, pc) == lib[c].pc = pc /\ lib[c].calls = << >>

\* The top of the loop: terminate is looked at only at its end.
AtLoop(c) == At(c, "loop") /\ ~lib[c].terminate

-----------------------------------------------------------------------------
(* The client of the library.                                              *)

lib_create_context(c) ==
  /\ lib[c].pc \in {"none", "exited"} /\ lib[c].calls = << >>
  /\ Step(c, Created)

lib_register(c) ==
  /\ lib[c].pc # "none"
  /\ Step(c, Registering(lib[c]))

\* q330_change_state: the reason is always LIBERR_NOERR.
ClientRequests(c, newstate) ==
  /\ lib[c].pc # "none"
  /\ Step(c, lib_change_state(lib[c], newstate, "OTHER"))

\* The client returns from the oldest callback.
CallbackReturns(c) ==
  /\ lib[c].calls # << >>
  /\ Step(c, [lib[c] EXCEPT !.calls = Tail(@)])

-----------------------------------------------------------------------------
(* lib_timer, first part: libstate against target_state.                   *)

\* Nothing to do: the states agree, or the thread is on its way already.
TimerNoChange(c) ==
  LET s == lib[c] IN
  /\ AtLoop(c)
  /\ \/ s.libstate = s.target
     \/ s.target \in {"WAIT", "IDLE"} /\ s.libstate \in {"DEREG", "TERM"}
     \/ s.target = "RUNWAIT"
          /\ s.libstate \notin {"DECTOK", "RUN", "IDLE", "WAIT"}
     \/ s.target = "RUN" /\ s.libstate # "RUNWAIT"
  /\ Step(c, [s EXCEPT !.pc = "rest"])

\* Stop before or during registration: the new state is read again later.
TimerStopEarly(c) ==
  LET s == lib[c] IN
  /\ AtLoop(c)
  /\ s.target \in {"WAIT", "IDLE"} /\ s.libstate # s.target
  /\ \/ s.libstate \in {"IDLE", "WAIT"} /\ Step(c, [s EXCEPT !.pc = "apply"])
     \/ s.libstate = "REG"
          /\ Step(c, [close_sockets(s) EXCEPT !.pc = "apply"])

\* new_state (q330, q330->share.target_state)
TimerApply(c) ==
  LET s == lib[c] IN
  /\ At(c, "apply")
  /\ Step(c, [new_state(s, s.target) EXCEPT !.pc = "rest"])

TimerDeregister(c) ==
  LET s == lib[c] IN
  /\ AtLoop(c)
  /\ s.target \in {"WAIT", "IDLE"}
  /\ s.libstate \in {"READCFG", "READTOK", "DECTOK"}
  /\ Step(c, [start_deregistration(s) EXCEPT !.pc = "rest"])

TimerDeallocate(c) ==
  LET s == lib[c] IN
  /\ AtLoop(c)
  /\ \/ s.target \in {"WAIT", "IDLE"} /\ s.libstate \in {"RUNWAIT", "RUN"}
     \/ s.target = "RUNWAIT" /\ s.libstate = "RUN"
  /\ Step(c, BeginDeallocation(s, "dealloc"))

\* The second half of start_deallocation, called from the timer or from the
\* reader of a socket.
Deallocate(c) ==
  LET s == lib[c] IN
  \/ At(c, "dealloc") /\ Step(c, [EndDeallocation(s) EXCEPT !.pc = "rest"])
  \/ At(c, "deallocIo") /\ Step(c, [EndDeallocation(s) EXCEPT !.pc = "loop"])

\* lib_start_registration; when the sockets cannot be opened, the control
\* socket may stay open behind a data socket that failed.
TimerRegister(c) ==
  LET s == lib[c] IN
  /\ AtLoop(c)
  /\ s.target = "RUNWAIT" /\ s.libstate \in {"IDLE", "WAIT"}
  /\ \/ Step(c, [lib_continue_registration([s EXCEPT !.sockets = TRUE])
                   EXCEPT !.pc = "rest"])
     \/ \E open \in BOOLEAN :
          Step(c, [lib_change_state(s, "WAIT", "OTHER")
                     EXCEPT !.sockets = open, !.registered = FALSE,
                            !.pc = "rest"])

TimerDecode(c) ==
  /\ AtLoop(c)
  /\ lib[c].target = "RUNWAIT" /\ lib[c].libstate = "DECTOK"
  /\ Step(c, [lib[c] EXCEPT !.pc = "decode"])

\* The end of decode_cfg, which has read the continuity file meanwhile.
decode_cfg(c) ==
  /\ At(c, "decode")
  /\ Step(c, [new_state(lib[c], "RUNWAIT") EXCEPT !.pc = "rest"])

TimerRun(c) ==
  /\ AtLoop(c)
  /\ lib[c].target = "RUN" /\ lib[c].libstate = "RUNWAIT"
  /\ Step(c, [new_state(lib[c], "RUN") EXCEPT !.pc = "rest"])

\* Fault: the thread announces its end before it has left its loop.
TimerTerminate_fault(c) ==
  /\ AtLoop(c)
  /\ lib[c].target = "TERM" /\ lib[c].libstate # "TERM"
  /\ Step(c, [new_state(lib[c], "TERM") EXCEPT !.terminate = TRUE, !.pc = "rest"])

TimerTerminate(c) ==
  /\ AtLoop(c)
  /\ lib[c].target = "TERM" /\ lib[c].libstate # "TERM"
  /\ Step(c, [lib[c] EXCEPT !.terminate = TRUE, !.pc = "rest"])

-----------------------------------------------------------------------------
(* lib_timer, second part: early returns, the command in flight, the       *)
(* one-second timers, and the next command.                                *)

\* IDLE, TERM and WAIT return early; WAIT asks for a new registration when
\* reg_wait_timer runs out.
TimerParked(c) ==
  LET s == lib[c] IN
  /\ At(c, "rest")
  /\ \/ s.libstate \in {"IDLE", "TERM", "WAIT"}
          /\ Step(c, [s EXCEPT !.pc = "loop"])
     \/ s.libstate = "WAIT"
          /\ Step(c, [lib_change_state(s, "RUNWAIT", "OTHER")
                        EXCEPT !.pc = "loop"])

\* The command in flight has had no answer: a ping is dropped, another
\* command is to be sent again and the link declared stalled.
TimerRetry(c) ==
  LET s == lib[c]
      t == [s EXCEPT !.cphase = "NEED", !.stalled = TRUE]
      unanswered == s.cmdq # << >> /\ s.cphase = "WAIT"
  IN
  /\ At(c, "rest") /\ s.libstate \in OnLine
  /\ \/ Step(c, [s EXCEPT !.pc = "second"])
     \/ /\ unanswered /\ Head(s.cmdq) = "PING"
        /\ Step(c, [clear_cmsg(s) EXCEPT !.pc = "second"])
     \/ /\ unanswered /\ Head(s.cmdq) # "PING"
        /\ Step(c, [IF s.stalled THEN t ELSE state_callback(t, "STALL_ON")
                      EXCEPT !.pc = "second"])

\* Fault: the state is kept when the Q330 does not answer.
DeregTimeout_fault(c) ==
  LET s == purge_cmdq(lib[c]) IN
  /\ At(c, "second") /\ s.libstate = "DEREG"
  /\ Step(c, [close_sockets(s) EXCEPT !.registered = FALSE, !.pc = "loop"])

\* 20 seconds without an answer to the de-registration.
DeregTimeout(c) ==
  LET s == purge_cmdq(lib[c]) IN
  /\ At(c, "second") /\ s.libstate = "DEREG"
  /\ Step(c, [close_sockets(new_state(s, s.target))
                EXCEPT !.registered = FALSE, !.pc = "loop"])

\* The other one-second timers: no data while running, the periodic request
\* for status, three minutes of registering, no status for five minutes of a
\* session; and, every time, the next command.
TimerSecond(c) ==
  /\ At(c, "second")
  /\ \E noData, askStatus, noAnswer, noStatus \in BOOLEAN :
       LET s == lib[c]
           running == s.libstate = "RUN"
           inSession == s.libstate \in {"READCFG", "READTOK", "DECTOK",
                                       "RUNWAIT", "RUN"}
           s1 == IF running /\ noData THEN GiveUp(s, "GONE") ELSE s
           s2 == IF running /\ askStatus THEN new_cmd(s1, "RQSTAT") ELSE s1
           s3 == IF s.libstate = "REG" /\ noAnswer
                 THEN [GiveUp(s2, "OTHER") EXCEPT !.registered = FALSE] ELSE s2
           s4 == IF inSession /\ noStatus THEN GiveUp(s3, "OTHER") ELSE s3
       IN  Step(c, [lib_send_next_cmd(s4) EXCEPT !.pc = "loop"])

\* The system runs out of network buffers, or has some again.
Buffers(c) ==
  At(c, "loop") /\ Step(c, [lib[c] EXCEPT !.nobufs = ~@])

\* Once per minute, an ST_OPSTAT with info 0.
lib_stats_timer(c) == AtLoop(c) /\ Step(c, state_callback(lib[c], "OPSTAT"))

\* Fault: the thread ends without a word.
ThreadExits_fault(c) ==
  /\ At(c, "loop") /\ lib[c].terminate
  /\ Step(c, [lib[c] EXCEPT !.libstate = "TERM", !.pc = "exited"])

\* The end of libthread.
ThreadExits(c) ==
  /\ At(c, "loop") /\ lib[c].terminate
  /\ Step(c, [new_state(lib[c], "TERM") EXCEPT !.pc = "exited"])

-----------------------------------------------------------------------------
(* read_cmd_socket and read_data_socket.                                   *)

Listening(c) == AtLoop(c) /\ lib[c].libstate \in OnLine /\ lib[c].sockets

\* The answer to the command at the head of the queue arrives.
Answered(c, cmd) ==
  /\ Listening(c)
  /\ lib[c].cmdq # << >> /\ Head(lib[c].cmdq) = cmd /\ lib[c].cphase = "WAIT"

ServerChallenge(c) ==
  /\ Answered(c, "RQSRV")
  /\ Step(c, new_cmd(clear_cmsg(lib[c]), "SRVRSP"))

RegistrationAccepted(c) ==
  /\ Answered(c, "SRVRSP")
  /\ Step(c, lib330_reboot([clear_cmsg(lib[c]) EXCEPT !.registered = TRUE]))

\* The logical port may be disabled in the Q330: then de-register, with the
\* target left as it is.
ConfigRead(c) ==
  LET s == clear_cmsg(lib[c]) IN
  \/ Answered(c, "RQFGLS") /\ Step(c, state_callback(s, "CFG"))
  \/ Answered(c, "RQFGLS") /\ Step(c, start_deregistration(lib[c]))
  \/ Answered(c, "RQGID") /\ Step(c, state_callback(s, "CFG"))

\* Status.  It may announce that the tokens have changed, or, while running,
\* that the Q330 shuts down; it may leave part of what was asked unanswered;
\* and the first complete one of a registration starts the reading of tokens.
StatusRead(c) ==
  /\ Answered(c, "RQSTAT")
  /\ \E notice \in {"STATUS", "STATUS_GLB"}, changed, powerOff, more \in BOOLEAN :
       LET s == lib[c]
           s1 == IF changed THEN lib_change_state(s, "RUNWAIT", "TOKENS_CHANGE")
                            ELSE s
           s2 == IF powerOff THEN lib_change_state(s1, "WAIT", "OTHER") ELSE s1
           s3 == clear_cmsg(state_callback(s2, notice))
       IN
       /\ powerOff => notice = "STATUS" /\ s.libstate = "RUN"
       /\ Step(c, CASE more -> new_cmd(s3, "RQSTAT")
                    [] ~more /\ s.rebootDone -> s3
                    [] OTHER -> cfg_start([s3 EXCEPT !.rebootDone = TRUE]))

\* Fault: the last segment ends the reading and the decoding at once.
read_q330_cfg_fault(c) ==
  LET s == clear_cmsg(lib[c]) IN
  /\ Answered(c, "RQMEM")
  /\ \/ s.libstate = "READTOK" /\ Step(c, new_state(s, "RUNWAIT"))
     \/ s.libstate = "READTOK" /\ Step(c, new_cmd(s, "RQMEM"))
     \/ s.libstate # "READTOK" /\ Step(c, s)

\* A segment of the tokens, the last one or not.
read_q330_cfg(c) ==
  LET s == clear_cmsg(lib[c]) IN
  /\ Answered(c, "RQMEM")
  /\ \/ s.libstate = "READTOK" /\ Step(c, new_state(s, "DECTOK"))
     \/ s.libstate = "READTOK" /\ Step(c, new_cmd(s, "RQMEM"))
     \/ s.libstate # "READTOK" /\ Step(c, s)

PingAnswered(c) == Answered(c, "PING") /\ Step(c, clear_cmsg(lib[c]))

Deregistered(c) ==
  LET s == clear_cmsg(lib[c]) IN
  /\ Answered(c, "DSRV")
  /\ Step(c, close_sockets([new_state(s, s.target) EXCEPT !.registered = FALSE]))

\* C1_CERR: the Q330 refuses the service, has no tokens, or reports another
\* error.  A refused C1_RQMEM stays in the queue.
CommandRefused(c) ==
  LET head == Head(lib[c].cmdq)
      s == IF head = "RQMEM" THEN lib[c] ELSE clear_cmsg(lib[c])
  IN
  /\ Listening(c) /\ lib[c].cmdq # << >> /\ lib[c].cphase = "WAIT"
  /\ \/ Step(c, s)
     \/ \E err \in {"GONE", "OTHER"} :
          Step(c, [lib_change_state(s, "WAIT", err) EXCEPT !.registered = FALSE])
     \/ /\ head = "RQMEM" /\ s.libstate = "READTOK"
        /\ Step(c, lib_change_state(s, "WAIT", "OTHER"))

\* ECONNRESET.  The reader of the control socket also sets the target when
\* there is nothing to deallocate, the reader of the data socket does not.
\* It does so after the notice of WAIT: what the client asks for meanwhile is
\* overwritten, as is here what it asks for just before.
ConnectionReset(c) ==
  LET s == [close_sockets(purge_cmdq(lib[c])) EXCEPT !.liberr = "GONE"] IN
  /\ Listening(c)
  /\ \/ /\ s.libstate \in {"RUNWAIT", "RUN"}
        /\ Step(c, BeginDeallocation(s, "deallocIo"))
     \/ /\ s.libstate \notin {"RUNWAIT", "RUN"}
        /\ \E target \in {s.target, "WAIT"} :
             Step(c, [new_state(s, "WAIT")
                        EXCEPT !.registered = FALSE, !.target = target])

\* The data of a second: an ST_TICK (proc_insequence, see Slider).
DataTick(c) ==
  Listening(c) /\ lib[c].libstate = "RUN" /\ Step(c, state_callback(lib[c], "TICK"))

-----------------------------------------------------------------------------
Timer(c) ==
  \/ TimerNoChange(c) \/ TimerStopEarly(c) \/ TimerApply(c)
  \/ TimerDeregister(c) \/ TimerDeallocate(c) \/ Deallocate(c)
  \/ TimerRegister(c) \/ TimerDecode(c) \/ decode_cfg(c) \/ TimerRun(c)
  \/ TimerTerminate(c) \/ TimerParked(c) \/ TimerRetry(c)
  \/ DeregTimeout(c) \/ TimerSecond(c) \/ ThreadExits(c)

Reader(c) ==
  \/ ServerChallenge(c) \/ RegistrationAccepted(c) \/ ConfigRead(c)
  \/ StatusRead(c) \/ read_q330_cfg(c) \/ PingAnswered(c) \/ Deregistered(c)
  \/ CommandRefused(c) \/ ConnectionReset(c) \/ DataTick(c)

Thread(c) == Timer(c) \/ Reader(c) \/ lib_stats_timer(c) \/ Buffers(c)

(* A client that uses the interface the way q330.c and q330_connector.py   *)
(* do: it registers a context that is at rest in IDLE, as one just created *)
(* is, asks for RUN from within the callback that announces RUNWAIT, and   *)
(* may ask for IDLE or TERM at any time.                                   *)
Client(c) ==
  \/ lib_create_context(c)
  \/ /\ lib[c].libstate = "IDLE" /\ lib[c].target = "IDLE"
     /\ lib[c].pc \in {"loop", "rest"}
     /\ lib_register(c)
  \/ \E newstate \in {"IDLE", "TERM"} : ClientRequests(c, newstate)
  \/ CallbackReturns(c)
  \/ /\ lib[c].calls # << >> /\ Head(lib[c].calls) = "RUNWAIT"
     /\ ClientRequests(c, "RUN")

Next == \E c \in Contexts : Client(c) \/ Thread(c)

Spec == Init /\ [][Next]_lib

\* The timer of the thread runs every 100 ms, whatever else the thread does;
\* the client returns from its callbacks; and the 20 seconds of a
\* de-registration run out however often they are looked at before.
Fairness ==
  \A c \in Contexts :
    /\ WF_lib(CallbackReturns(c)) /\ SF_lib(Timer(c))
    /\ SF_lib(DeregTimeout(c))

FairSpec == Spec /\ Fairness

-----------------------------------------------------------------------------
(* The fields hold what their C types allow.                               *)
TypeOK == lib \in [Contexts -> Lib]

(* A context that is idle, waiting to retry or still asking for its        *)
(* registration does not count itself registered: every way out of a       *)
(* session (de-registered, de-registration timed out, refused, reset, out  *)
(* of buffers, deallocated after a communications loss) has cleared the    *)
(* flag that lets the thread send data opens and acknowledgements.         *)
ParkedIsUnregistered ==
  \A c \in Contexts :
    lib[c].libstate \in {"IDLE", "WAIT", "REG"} => ~lib[c].registered

(* A command counts as sent, or to be sent again, only while there is a    *)
(* command, and the client has been told of a stalled link only while a    *)
(* command is outstanding: the queue is emptied in many places (answers,   *)
(* timeouts, resets, a new registration), and a phase left behind would    *)
(* make the retry read a slot of the ring nobody filled, a flag left       *)
(* behind would leave the client with a stall that never ends.             *)
InFlightIsQueued ==
  \A c \in Contexts :
    lib[c].cmdq = << >> => lib[c].cphase = "IDLE" /\ ~lib[c].stalled

(* The strengthening that makes the three invariants above inductive: the  *)
(* state that is about to be left when the timer has found a request to    *)
(* stop early is one in which nobody is registered, whatever the target    *)
(* has become in the meantime.                                             *)
Consistent(s) ==
  /\ s \in Lib
  /\ s.libstate \in {"IDLE", "WAIT", "REG"} => ~s.registered
  /\ s.cmdq = << >> => s.cphase = "IDLE" /\ ~s.stalled
  /\ s.pc = "apply" => s.libstate \in {"IDLE", "WAIT", "REG"}

StationInv == TypeOK /\ \A c \in Contexts : Consistent(lib[c])

(* A session whose sockets are closed is not kept: between registration    *)
(* and the end of the tokens the thread never sits behind closed sockets   *)
(* with a target it regards as being under way, where no answer and no     *)
(* timer but that of the status would ever move it.                        *)
ClosedIsLeaving ==
  \A c \in Contexts :
    /\ lib[c].libstate \in {"REG", "READCFG", "READTOK", "DECTOK"}
    /\ ~lib[c].sockets
    => lib[c].target \notin {"RUNWAIT", "RUN"}

(* LIBSTATE_TERM is commented "Terminated" in enum tlibstate               *)
(* (libtypes.h:854): a thread that says it is terminated has left its loop *)
(* and changes nothing any more.                                           *)
TermIsTerminated ==
  \A c \in Contexts : lib[c].libstate = "TERM" => lib[c].pc = "exited"

(* LIBSTATE_RUNWAIT is commented "Waiting for command to run"              *)
(* (libtypes.h:862): registered, with the tokens read, and ready to open   *)
(* the data link.  A thread that waits there for the host has a session.   *)
RunWaitIsRegistered ==
  [][\A c \in Contexts :
       lib[c].libstate # "RUNWAIT" /\ lib'[c].libstate = "RUNWAIT"
         => lib'[c].registered]_lib

(* The data flow starts once per registration, from RUNWAIT: the thread    *)
(* enters RUN only out of RUNWAIT, and RUNWAIT only out of the decoding of *)
(* the tokens or, when the Q330 has the port disabled, out of DEREG.       *)
SessionOrder ==
  [][\A c \in Contexts :
       /\ lib[c].libstate # "RUN" /\ lib'[c].libstate = "RUN"
            => lib[c].libstate = "RUNWAIT"
       /\ lib[c].libstate # "RUNWAIT" /\ lib'[c].libstate = "RUNWAIT"
            => lib[c].libstate \in {"DECTOK", "DEREG"}]_lib

(* A request for IDLE that nothing overwrites is honoured from every state *)
(* of the thread, whether or not the Q330 answers.                         *)
IdleHonoured ==
  \A c \in Contexts :
    <>[](lib[c].pc # "none" /\ lib[c].target = "IDLE")
      => []<>(lib[c].libstate \in {"IDLE", "TERM"})
=============================================================================
