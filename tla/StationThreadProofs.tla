------------------------ MODULE StationThreadProofs ------------------------
(***************************************************************************)
(* Theorems about StationThread and about Connector, which puts the event  *)
(* loop of Python and its callbacks around it, for any set of contexts.    *)
(*                                                                         *)
(* The handlers are functions from the tq330 of a context to its next one, *)
(* so each proof has two layers.  Lemmas say what each function of the     *)
(* library does to a context, whatever handler calls it; then one step per *)
(* action shows that the context it makes keeps the invariant.  There are  *)
(* three such invariants, the last two resting on the first:               *)
(*   StationInv    the fields of a context agree with one another;         *)
(*   OrderInv      what each state allows in the queue and as a target;    *)
(*   ConnectorInv  what a notice under way says of the thread behind it    *)
(*                 under SpecConnector, whose client is q330_connector.py. *)
(***************************************************************************)
EXTENDS Connector, TLAPS

(* A context whose fields have their types and whose command queue agrees  *)
(* with its phase: the part of Consistent that the functions of the        *)
(* library preserve by themselves.                                         *)
Queued(s) ==
  /\ s \in Lib
  /\ s.cmdq = << >> => s.cphase = "IDLE" /\ ~s.stalled

(* t differs from s in nothing the other two parts of Consistent are       *)
(* about, but that it may have lost its registration.                      *)
Keeps(t, s) ==
  t.libstate = s.libstate /\ t.pc = s.pc /\ (t.registered => s.registered)

-----------------------------------------------------------------------------
(* The functions of the library.                                           *)

(* lib_change_state writes target and liberr and nothing else.             *)
LEMMA ChangeState ==
  ASSUME NEW s \in Lib, NEW newstate \in Targets, NEW reason \in LibErrs
  PROVE  LET t == lib_change_state(s, newstate, reason) IN
         /\ t \in Lib /\ Keeps(t, s)
         /\ t.cmdq = s.cmdq /\ t.cphase = s.cphase /\ t.stalled = s.stalled
BY DEF Lib, lib_change_state, Keeps

(* A state callback only adds to the calls the client has to serve.        *)
LEMMA StateCallback ==
  ASSUME NEW s \in Lib, NEW notice \in Notices
  PROVE  LET t == state_callback(s, notice) IN
         /\ t \in Lib /\ Keeps(t, s)
         /\ t.cmdq = s.cmdq /\ t.cphase = s.cphase /\ t.stalled = s.stalled
         /\ t.registered = s.registered
BY SMTT(30) DEF Lib, state_callback, Keeps

(* new_state sets libstate and announces it.                               *)
LEMMA NewState ==
  ASSUME NEW s \in Lib, NEW newstate \in LibStates
  PROVE  LET t == new_state(s, newstate) IN
         /\ t \in Lib
         /\ t.libstate = newstate /\ t.pc = s.pc
         /\ t.registered = s.registered
         /\ t.cmdq = s.cmdq /\ t.cphase = s.cphase /\ t.stalled = s.stalled
<1> DEFINE u == state_callback(s, newstate)
<1>1. /\ u \in Lib /\ Keeps(u, s) /\ u.registered = s.registered
      /\ u.cmdq = s.cmdq /\ u.cphase = s.cphase /\ u.stalled = s.stalled
  BY StateCallback DEF Notices
<1> HIDE DEF u
<1>2. new_state(s, newstate) = [u EXCEPT !.libstate = newstate]
  BY DEF new_state, u
<1> QED
  BY <1>1, <1>2 DEF Lib, Keeps

(* close_sockets touches the sockets only.                                 *)
LEMMA CloseSockets ==
  ASSUME NEW s \in Lib
  PROVE  LET t == close_sockets(s) IN
         /\ t \in Lib /\ Keeps(t, s)
         /\ t.cmdq = s.cmdq /\ t.cphase = s.cphase /\ t.stalled = s.stalled
BY DEF Lib, close_sockets, Keeps

(* The queue and the calls may be empty.                                   *)
LEMMA EmptyQueue == << >> \in Seq(Commands) /\ << >> \in Seq(Notices)
OBVIOUS

(* A purged queue is idle and its link is not stalled.                     *)
LEMMA Purge ==
  ASSUME NEW s \in Lib
  PROVE  LET t == purge_cmdq(s) IN
         /\ t \in Lib /\ Keeps(t, s)
         /\ t.cmdq = << >> /\ t.cphase = "IDLE" /\ ~t.stalled
         /\ t.registered = s.registered
<1> DEFINE e == [s EXCEPT !.cmdq = << >>, !.cphase = "IDLE"]
           u == state_callback(e, "STALL_OFF")
<1>1. /\ e \in Lib /\ Keeps(e, s) /\ e.registered = s.registered
      /\ e.cmdq = << >> /\ e.cphase = "IDLE"
  BY EmptyQueue DEF Lib, Keeps, Phases
<1> HIDE DEF e
<1>2. /\ u \in Lib /\ Keeps(u, e) /\ u.registered = e.registered
      /\ u.cmdq = e.cmdq /\ u.cphase = e.cphase /\ u.stalled = e.stalled
  BY <1>1, StateCallback DEF Notices
<1> HIDE DEF u
<1>3. purge_cmdq(s) = IF e.stalled THEN [u EXCEPT !.stalled = FALSE] ELSE e
  BY DEF purge_cmdq, Unstall, e, u
<1>4. CASE e.stalled
  <2> DEFINE w == [u EXCEPT !.stalled = FALSE]
  <2>1. /\ w \in Lib /\ Keeps(w, u) /\ w.registered = u.registered
        /\ w.cmdq = u.cmdq /\ w.cphase = u.cphase /\ ~w.stalled
    BY <1>2 DEF Lib, Keeps
  <2> HIDE DEF w
  <2>2. purge_cmdq(s) = w
    BY <1>3, <1>4 DEF w
  <2> QED
    BY <1>1, <1>2, <2>1, <2>2 DEF Keeps
<1>5. CASE ~e.stalled
  <2>1. purge_cmdq(s) = e
    BY <1>3, <1>5
  <2> QED
    BY <1>1, <1>5, <2>1
<1> QED
  BY <1>4, <1>5

(* The answered command leaves the queue; with the last one the stall ends. *)
LEMMA ClearCmsg ==
  ASSUME NEW s \in Lib, s.cmdq # << >>
  PROVE  LET t == clear_cmsg(s) IN
         Queued(t) /\ Keeps(t, s) /\ t.registered = s.registered
<1> DEFINE e == [s EXCEPT !.cmdq = Tail(@), !.cphase = "IDLE"]
           u == state_callback(e, "STALL_OFF")
<1>1. Tail(s.cmdq) \in Seq(Commands)
  BY DEF Lib
<1>2. e \in Lib /\ Keeps(e, s) /\ e.registered = s.registered /\ e.cphase = "IDLE"
  BY <1>1 DEF Lib, Keeps, Phases
<1> HIDE DEF e
<1>3. /\ u \in Lib /\ Keeps(u, e) /\ u.registered = e.registered
      /\ u.cmdq = e.cmdq /\ u.cphase = e.cphase /\ u.stalled = e.stalled
  BY <1>2, StateCallback DEF Notices
<1> HIDE DEF u
<1>4. clear_cmsg(s) =
        IF e.cmdq = << >> /\ e.stalled THEN [u EXCEPT !.stalled = FALSE] ELSE e
  BY DEF clear_cmsg, Unstall, e, u
<1>5. CASE e.cmdq = << >> /\ e.stalled
  <2> DEFINE w == [u EXCEPT !.stalled = FALSE]
  <2>1. /\ w \in Lib /\ Keeps(w, u) /\ w.registered = u.registered
        /\ w.cmdq = u.cmdq /\ w.cphase = u.cphase /\ ~w.stalled
    BY <1>3 DEF Lib, Keeps
  <2> HIDE DEF w
  <2>2. clear_cmsg(s) = w
    BY <1>4, <1>5 DEF w
  <2> QED
    BY <1>2, <1>3, <2>1, <2>2 DEF Keeps, Queued
<1>6. CASE ~(e.cmdq = << >> /\ e.stalled)
  <2>1. clear_cmsg(s) = e
    BY <1>4, <1>6
  <2>2. Queued(e)
    BY <1>2, <1>6 DEF Queued
  <2> QED
    BY <1>2, <2>1, <2>2
<1> QED
  BY <1>5, <1>6

(* Giving up leaves an empty, idle queue.                                  *)
LEMMA GiveUpEmpties ==
  ASSUME NEW s \in Lib, NEW reason \in LibErrs
  PROVE  LET t == GiveUp(s, reason) IN
         /\ Queued(t) /\ Keeps(t, s)
         /\ t.cmdq = << >> /\ t.cphase = "IDLE"
<1> DEFINE u == purge_cmdq(s)
<1>1. /\ u \in Lib /\ Keeps(u, s)
      /\ u.cmdq = << >> /\ u.cphase = "IDLE" /\ ~u.stalled
  BY Purge
<1> HIDE DEF u
<1>2. /\ lib_change_state(u, "WAIT", reason) \in Lib
      /\ Keeps(lib_change_state(u, "WAIT", reason), u)
      /\ lib_change_state(u, "WAIT", reason).cmdq = u.cmdq
      /\ lib_change_state(u, "WAIT", reason).cphase = u.cphase
      /\ lib_change_state(u, "WAIT", reason).stalled = u.stalled
  BY <1>1, ChangeState DEF Targets
<1> QED
  BY <1>1, <1>2 DEF GiveUp, u, Queued, Keeps

(* Sending the head of the queue keeps the queue and its phase in step,    *)
(* also when it fails.                                                     *)
LEMMA SendNext ==
  ASSUME NEW s \in Lib, Queued(s)
  PROVE  LET t == lib_send_next_cmd(s) IN Queued(t) /\ Keeps(t, s)
<1>1. CASE s.cmdq = << >> \/ s.cphase = "WAIT"
  BY <1>1 DEF lib_send_next_cmd, Keeps
<1>2. CASE ~(s.cmdq = << >> \/ s.cphase = "WAIT") /\ s.sockets /\ s.nobufs
  <2> DEFINE g == GiveUp(s, "GONE")
             r == [g EXCEPT !.registered = FALSE]
  <2>1. Queued(g) /\ Keeps(g, s)
    BY GiveUpEmpties DEF LibErrs
  <2> HIDE DEF g
  <2>2. Queued(r) /\ Keeps(r, g)
    BY <2>1 DEF Queued, Keeps, Lib
  <2> HIDE DEF r
  <2>3. Queued(close_sockets(r)) /\ Keeps(close_sockets(r), r)
    BY <2>2, CloseSockets DEF Queued
  <2>4. lib_send_next_cmd(s) = close_sockets(r)
    BY <1>2 DEF lib_send_next_cmd, r, g
  <2> QED
    BY <2>1, <2>2, <2>3, <2>4 DEF Keeps
<1>3. CASE ~(s.cmdq = << >> \/ s.cphase = "WAIT") /\ ~(s.sockets /\ s.nobufs)
  <2> DEFINE w == [s EXCEPT !.cphase = "WAIT"]
  <2>1. lib_send_next_cmd(s) = w
    BY <1>3 DEF lib_send_next_cmd
  <2>2. w \in Lib /\ Keeps(w, s) /\ w.cmdq # << >>
    BY <1>3 DEF Lib, Phases, Keeps
  <2> QED
    BY <2>1, <2>2 DEF Queued
<1> QED
  BY <1>1, <1>2, <1>3

(* A new command leaves the queue and its phase in step, whatever the      *)
(* phase was before.                                                       *)
LEMMA NewCmd ==
  ASSUME NEW s \in Lib, NEW cmd \in Commands
  PROVE  LET t == new_cmd(s, cmd) IN Queued(t) /\ Keeps(t, s)
<1> DEFINE e == [s EXCEPT !.cmdq = Append(@, cmd)]
<1>1. CASE \E i \in 1 .. Len(s.cmdq) : s.cmdq[i] = cmd
  <2>1. s.cmdq # << >>
    BY <1>1
  <2> QED
    BY <1>1, <2>1 DEF new_cmd, Queued, Keeps
<1>2. CASE ~ \E i \in 1 .. Len(s.cmdq) : s.cmdq[i] = cmd
  <2>1. s.cmdq \in Seq(Commands)
    BY DEF Lib
  <2>2. Append(s.cmdq, cmd) \in Seq(Commands) /\ Append(s.cmdq, cmd) # << >>
    BY <2>1
  <2>3. e \in Lib /\ Keeps(e, s) /\ e.cmdq # << >>
    BY <2>2 DEF Lib, Keeps
  <2>4. new_cmd(s, cmd) = lib_send_next_cmd(e)
    BY <1>2 DEF new_cmd
  <2> HIDE DEF e
  <2>5. Queued(lib_send_next_cmd(e)) /\ Keeps(lib_send_next_cmd(e), e)
    BY <2>3, SendNext DEF Queued
  <2> QED
    BY <2>3, <2>4, <2>5 DEF Keeps
<1> QED
  BY <1>1, <1>2

(* start_deregistration leaves DEREG with its commands queued.             *)
LEMMA StartDeregistration ==
  ASSUME NEW s \in Lib
  PROVE  LET t == start_deregistration(s) IN
         /\ Queued(t) /\ t.libstate = "DEREG" /\ t.pc = s.pc
         /\ t.registered => s.registered
<1> DEFINE n == new_state(s, "DEREG")
           u == purge_cmdq(n)
           v == new_cmd(u, "PING")
<1>1. n \in Lib /\ n.libstate = "DEREG" /\ n.pc = s.pc /\ n.registered = s.registered
  BY NewState DEF LibStates
<1> HIDE DEF n
<1>2. u \in Lib /\ Keeps(u, n)
  BY <1>1, Purge
<1> HIDE DEF u
<1>3. Queued(v) /\ Keeps(v, u)
  BY <1>2, NewCmd DEF Commands
<1> HIDE DEF v
<1>4. Queued(new_cmd(v, "DSRV")) /\ Keeps(new_cmd(v, "DSRV"), v)
  BY <1>3, NewCmd DEF Commands, Queued
<1>5. start_deregistration(s) = new_cmd(v, "DSRV")
  BY DEF start_deregistration, v, u, n
<1> QED
  BY <1>1, <1>2, <1>3, <1>4, <1>5 DEF Keeps

(* cfg_start leaves READTOK with the request for the tokens queued.        *)
LEMMA CfgStart ==
  ASSUME NEW s \in Lib
  PROVE  LET t == cfg_start(s) IN
         Queued(t) /\ t.libstate = "READTOK" /\ t.pc = s.pc
<1> DEFINE n == new_state(s, "READTOK")
<1>1. n \in Lib /\ n.libstate = "READTOK" /\ n.pc = s.pc
  BY NewState DEF LibStates
<1> HIDE DEF n
<1>2. Queued(new_cmd(n, "RQMEM")) /\ Keeps(new_cmd(n, "RQMEM"), n)
  BY <1>1, NewCmd DEF Commands
<1> QED
  BY <1>1, <1>2 DEF cfg_start, n, Keeps

(* A new registration starts unregistered, in REG, whatever phase the      *)
(* queue it empties was in.                                                *)
LEMMA ContinueRegistration ==
  ASSUME NEW s \in Lib
  PROVE  LET t == lib_continue_registration(s) IN
         Queued(t) /\ t.libstate = "REG" /\ t.pc = s.pc /\ ~t.registered
<1> DEFINE n == new_state(s, "REG")
           e == [n EXCEPT !.registered = FALSE, !.cmdq = << >>]
<1>1. n \in Lib /\ n.libstate = "REG" /\ n.pc = s.pc
  BY NewState DEF LibStates
<1> HIDE DEF n
<1>2. e \in Lib /\ e.libstate = "REG" /\ e.pc = s.pc /\ ~e.registered
  BY <1>1, EmptyQueue DEF Lib
<1>3. lib_continue_registration(s) = new_cmd(e, "RQSRV")
  BY DEF lib_continue_registration, n
<1> HIDE DEF e
<1>4. Queued(new_cmd(e, "RQSRV")) /\ Keeps(new_cmd(e, "RQSRV"), e)
  BY <1>2, NewCmd DEF Commands
<1> QED
  BY <1>2, <1>3, <1>4 DEF Keeps

(* The reading of the configuration starts with three requests queued.     *)
LEMMA Reboot ==
  ASSUME NEW s \in Lib
  PROVE  LET t == lib330_reboot(s) IN
         Queued(t) /\ t.libstate = "READCFG" /\ t.pc = s.pc
<1> DEFINE n == new_state(s, "READCFG")
           e == [n EXCEPT !.rebootDone = FALSE]
           f == new_cmd(e, "RQFGLS")
           g == new_cmd(f, "RQGID")
<1>1. n \in Lib /\ n.libstate = "READCFG" /\ n.pc = s.pc
  BY NewState DEF LibStates
<1> HIDE DEF n
<1>2. e \in Lib /\ e.libstate = "READCFG" /\ e.pc = s.pc
  BY <1>1 DEF Lib
<1>3. lib330_reboot(s) = new_cmd(g, "RQSTAT")
  BY DEF lib330_reboot, g, f, e, n
<1> HIDE DEF e
<1>4. Queued(f) /\ Keeps(f, e)
  BY <1>2, NewCmd DEF Commands
<1> HIDE DEF f
<1>5. Queued(g) /\ Keeps(g, f)
  BY <1>4, NewCmd DEF Commands, Queued
<1> HIDE DEF g
<1>6. Queued(new_cmd(g, "RQSTAT")) /\ Keeps(new_cmd(g, "RQSTAT"), g)
  BY <1>5, NewCmd DEF Commands, Queued
<1> QED
  BY <1>2, <1>3, <1>4, <1>5, <1>6 DEF Keeps

(* Where the thread is in its loop is no concern of the queue.             *)
LEMMA SetPc ==
  ASSUME NEW s, Queued(s), NEW p \in ProgramPoints
  PROVE  LET t == [s EXCEPT !.pc = p] IN
         /\ Queued(t) /\ t.pc = p
         /\ t.libstate = s.libstate /\ t.registered = s.registered
BY DEF Queued, Lib

(* Nor is the registration.                                                *)
LEMMA Unregister ==
  ASSUME NEW s, Queued(s)
  PROVE  LET t == [s EXCEPT !.registered = FALSE] IN
         /\ Queued(t) /\ t.pc = s.pc /\ t.libstate = s.libstate /\ ~t.registered
BY DEF Queued, Lib

(* The first half of a deallocation leaves DEALLOC.                        *)
LEMMA BeginDealloc ==
  ASSUME NEW s, Queued(s), NEW back \in ProgramPoints
  PROVE  LET t == BeginDeallocation(s, back) IN
         Queued(t) /\ t.libstate = "DEALLOC" /\ t.pc = back
<1> DEFINE n == new_state(s, "DEALLOC")
<1>1. Queued(n) /\ n.libstate = "DEALLOC"
  BY NewState DEF LibStates, Queued
<1> HIDE DEF n
<1> QED
  BY <1>1, SetPc DEF BeginDeallocation, n

(* The second half reads tokens again, de-registers, or waits without a    *)
(* registration.                                                           *)
LEMMA EndDealloc ==
  ASSUME NEW s, Queued(s)
  PROVE  LET t == EndDeallocation(s) IN
         /\ Queued(t) /\ t.pc = s.pc
         /\ \/ t.libstate \in {"READTOK", "DEREG"}
            \/ t.libstate = "WAIT" /\ ~t.registered
<1> USE DEF Queued
<1>1. CASE s.liberr = "TOKENS_CHANGE"
  BY <1>1, CfgStart DEF EndDeallocation
<1>2. CASE s.liberr = "GONE"
  <2> DEFINE n == new_state(s, "WAIT")
             u == [n EXCEPT !.registered = FALSE]
  <2>1. Queued(n) /\ n.libstate = "WAIT" /\ n.pc = s.pc
    BY NewState DEF LibStates
  <2> HIDE DEF n
  <2>2. Queued(u) /\ u.libstate = "WAIT" /\ u.pc = s.pc /\ ~u.registered
    BY <2>1, Unregister
  <2>3. EndDeallocation(s) = close_sockets(u)
    BY <1>2 DEF EndDeallocation, n
  <2> HIDE DEF u
  <2> QED
    BY <2>2, <2>3, CloseSockets DEF Keeps
<1>3. CASE s.liberr \notin {"TOKENS_CHANGE", "GONE"}
  BY <1>3, StartDeregistration DEF EndDeallocation
<1> QED
  BY <1>1, <1>2, <1>3

-----------------------------------------------------------------------------
(* The actions.                                                            *)

Parked == {"IDLE", "WAIT", "REG"}

(* A step that makes a consistent context keeps the invariant.             *)
LEMMA Made ==
  ASSUME StationInv, NEW c \in Contexts, NEW s, Step(c, s), Queued(s),
         s.libstate \in Parked => ~s.registered,
         s.pc = "apply" => s.libstate \in Parked
  PROVE  StationInv'
<1>1. Consistent(s)
  BY DEF Consistent, Queued, Parked
<1>2. s \in Lib /\ lib \in [Contexts -> Lib] /\ lib' = [lib EXCEPT ![c] = s]
  BY DEF StationInv, TypeOK, Step, Queued
<1>3. TypeOK'
  BY <1>2 DEF TypeOK
<1>4. ASSUME NEW d \in Contexts PROVE Consistent(lib'[d])
  <2>1. CASE d = c
    BY <1>1, <1>2, <2>1
  <2>2. CASE d # c
    BY <1>2, <2>2 DEF StationInv
  <2> QED
    BY <2>1, <2>2
<1> QED
  BY <1>3, <1>4 DEF StationInv, Consistent

(* What the invariant says of one context.                                 *)
LEMMA One ==
  ASSUME StationInv, NEW c \in Contexts
  PROVE  /\ Queued(lib[c]) /\ lib[c] \in Lib
         /\ lib[c].libstate \in Parked => ~lib[c].registered
         /\ lib[c].pc = "apply" => lib[c].libstate \in Parked
BY DEF StationInv, Consistent, Queued, Parked

(* The client keeps the invariant: it creates contexts, registers them,    *)
(* asks for states and returns from callbacks.                             *)
LEMMA ClientKeeps ==
  ASSUME StationInv, NEW c \in Contexts, Client(c)
  PROVE  StationInv'
<1> DEFINE s == lib[c]
<1>1. /\ Queued(s) /\ s \in Lib /\ (s.libstate \in Parked => ~s.registered)
      /\ (s.pc = "apply" => s.libstate \in Parked)
  BY One
<1>2. ASSUME NEW t, Step(c, t), Queued(t), Keeps(t, s) PROVE StationInv'
  BY <1>1, <1>2, Made DEF Keeps
<1>3. CASE lib_create_context(c)
  <2>1. Queued(Created) /\ Created.libstate = "IDLE" /\ ~Created.registered
    BY EmptyQueue DEF Created, NoContext, Queued, Lib, LibStates, Targets,
                      LibErrs, Phases, ProgramPoints
  <2>2. Step(c, Created) /\ Created.pc # "apply"
    BY <1>3 DEF lib_create_context, Created, NoContext
  <2> QED
    BY <2>1, <2>2, Made
<1>4. CASE lib_register(c)
  <2> DEFINE t == Registering(s)
  <2>1. Queued(t)
    BY <1>1, EmptyQueue DEF Registering, Queued, Lib, Phases, Targets
  <2>2. Keeps(t, s)
    BY <1>1 DEF Registering, Keeps, Lib
  <2> QED
    BY <1>2, <1>4, <2>1, <2>2 DEF lib_register
<1>5. ASSUME NEW newstate \in Targets, ClientRequests(c, newstate)
      PROVE  StationInv'
  <2>1. Queued(lib_change_state(s, newstate, "OTHER"))
          /\ Keeps(lib_change_state(s, newstate, "OTHER"), s)
    BY <1>1, ChangeState DEF Queued, LibErrs
  <2> QED
    BY <1>2, <1>5, <2>1 DEF ClientRequests
<1>6. CASE CallbackReturns(c)
  <2> DEFINE t == [s EXCEPT !.calls = Tail(@)]
  <2>1. s.calls # << >> /\ s.calls \in Seq(Notices)
    BY <1>1, <1>6 DEF CallbackReturns, Lib
  <2>2. Tail(s.calls) \in Seq(Notices)
    BY <2>1
  <2>3. Queued(t) /\ Keeps(t, s)
    BY <1>1, <2>2 DEF Queued, Keeps, Lib
  <2> QED
    BY <1>2, <1>6, <2>3 DEF CallbackReturns
<1> QED
  BY <1>3, <1>4, <1>5, <1>6 DEF Client, Targets

(* The first part of the timer, which acts on the target, and the end of   *)
(* the thread keep the invariant.                                          *)
LEMMA TargetKeeps ==
  ASSUME StationInv, NEW c \in Contexts,
         \/ TimerNoChange(c) \/ TimerStopEarly(c) \/ TimerApply(c)
         \/ TimerDeregister(c) \/ TimerDeallocate(c) \/ Deallocate(c)
         \/ TimerRegister(c) \/ TimerDecode(c) \/ decode_cfg(c)
         \/ TimerRun(c) \/ TimerTerminate(c) \/ ThreadExits(c)
  PROVE  StationInv'
<1> DEFINE s == lib[c]
<1>1. /\ Queued(s) /\ s \in Lib /\ (s.libstate \in Parked => ~s.registered)
      /\ (s.pc = "apply" => s.libstate \in Parked)
  BY One
<1>2. ASSUME NEW t, Queued(t), NEW p \in ProgramPoints \ {"apply"},
             t.libstate \in Parked => ~t.registered,
             Step(c, [t EXCEPT !.pc = p])
      PROVE  StationInv'
  BY <1>2, SetPc, Made
<1>3. {"loop", "apply", "decode", "dealloc", "deallocIo", "rest", "exited"}
        \subseteq ProgramPoints
  BY DEF ProgramPoints
<1>4. ASSUME NEW st \in LibStates
      PROVE  /\ Queued(new_state(s, st)) /\ new_state(s, st).libstate = st
             /\ new_state(s, st).registered = s.registered
             /\ new_state(s, st).pc = s.pc
  BY <1>1, NewState DEF Queued
<1>5. CASE TimerNoChange(c)
  BY <1>1, <1>2, <1>3, <1>5 DEF TimerNoChange
<1>6. CASE TimerStopEarly(c)
  <2> DEFINE apply(t) == [t EXCEPT !.pc = "apply"]
  <2>1. s.libstate \in Parked
    BY <1>6 DEF TimerStopEarly, Parked
  <2>2. CASE Step(c, apply(s))
    <3>1. Queued(apply(s)) /\ apply(s).libstate = s.libstate
            /\ apply(s).registered = s.registered
      BY <1>1, <1>3, SetPc
    <3> HIDE DEF apply
    <3> QED
      BY <1>1, <2>1, <2>2, <3>1, Made
  <2>3. CASE Step(c, apply(close_sockets(s)))
    <3>1. Queued(close_sockets(s)) /\ Keeps(close_sockets(s), s)
      BY <1>1, CloseSockets DEF Queued
    <3>2. Queued(apply(close_sockets(s)))
            /\ apply(close_sockets(s)).libstate = s.libstate
            /\ apply(close_sockets(s)).registered = close_sockets(s).registered
      BY <1>3, <3>1, SetPc DEF Keeps
    <3> HIDE DEF apply
    <3> QED
      BY <1>1, <2>1, <2>3, <3>1, <3>2, Made DEF Keeps
  <2> QED
    BY <1>6, <2>2, <2>3 DEF TimerStopEarly
<1>7. CASE TimerApply(c)
  <2>1. ~s.registered /\ s.target \in LibStates
    BY <1>1, <1>7 DEF TimerApply, At, Lib, Targets, LibStates
  <2> QED
    BY <1>1, <1>2, <1>3, <1>4, <1>7, <2>1 DEF TimerApply
<1>8. CASE TimerDeregister(c)
  BY <1>1, <1>2, <1>3, <1>8, StartDeregistration DEF TimerDeregister, Parked
<1>9. CASE TimerDeallocate(c)
  BY <1>1, <1>3, <1>9, BeginDealloc, Made DEF TimerDeallocate, Parked
<1>10. CASE Deallocate(c)
  BY <1>1, <1>2, <1>3, <1>10, EndDealloc DEF Deallocate, Parked
<1>11. CASE TimerRegister(c)
  <2>1. CASE Step(c, [lib_continue_registration([s EXCEPT !.sockets = TRUE])
                        EXCEPT !.pc = "rest"])
    <3> DEFINE e == [s EXCEPT !.sockets = TRUE]
               u == lib_continue_registration(e)
    <3>1. e \in Lib
      BY <1>1 DEF Lib
    <3>2. Step(c, [u EXCEPT !.pc = "rest"])
      BY <2>1
    <3> HIDE DEF e
    <3>3. Queued(u) /\ ~u.registered
      BY <3>1, ContinueRegistration
    <3> HIDE DEF u
    <3> QED
      BY <1>2, <1>3, <3>2, <3>3
  <2>2. ASSUME NEW open \in BOOLEAN,
               Step(c, [lib_change_state(s, "WAIT", "OTHER")
                          EXCEPT !.sockets = open, !.registered = FALSE,
                                 !.pc = "rest"])
        PROVE  StationInv'
    <3> DEFINE u == lib_change_state(s, "WAIT", "OTHER")
               w == [u EXCEPT !.sockets = open, !.registered = FALSE]
    <3>1. Queued(u) /\ u \in Lib
      BY <1>1, ChangeState DEF Targets, LibErrs, Queued
    <3> HIDE DEF u
    <3>2. Queued(w) /\ ~w.registered
      BY <3>1 DEF Queued, Lib
    <3>3. Step(c, [w EXCEPT !.pc = "rest"])
      BY <2>2 DEF u
    <3> HIDE DEF w
    <3> QED
      BY <1>2, <1>3, <3>2, <3>3
  <2> QED
    BY <1>11, <2>1, <2>2 DEF TimerRegister
<1>12. CASE TimerDecode(c)
  BY <1>1, <1>2, <1>3, <1>12 DEF TimerDecode
<1>13. CASE decode_cfg(c)
  BY <1>1, <1>2, <1>3, <1>4, <1>13 DEF decode_cfg, LibStates, Parked
<1>14. CASE TimerRun(c)
  BY <1>1, <1>2, <1>3, <1>4, <1>14 DEF TimerRun, LibStates, Parked
<1>15. CASE TimerTerminate(c)
  <2> DEFINE e == [s EXCEPT !.terminate = TRUE]
  <2>1. Queued(e) /\ Keeps(e, s)
    BY <1>1 DEF Queued, Keeps, Lib
  <2>2. Step(c, [e EXCEPT !.pc = "rest"])
    BY <1>15 DEF TimerTerminate
  <2> HIDE DEF e
  <2> QED
    BY <1>1, <1>2, <1>3, <2>1, <2>2 DEF Keeps
<1>16. CASE ThreadExits(c)
  BY <1>1, <1>2, <1>3, <1>4, <1>16 DEF ThreadExits, LibStates, Parked
<1> QED
  BY <1>5, <1>6, <1>7, <1>8, <1>9, <1>10, <1>11, <1>12, <1>13, <1>14, <1>15,
     <1>16

(* The rest of the timer, the statistics and the supply of buffers keep    *)
(* the invariant.                                                          *)
LEMMA SecondKeeps ==
  ASSUME StationInv, NEW c \in Contexts,
         \/ TimerParked(c) \/ TimerRetry(c) \/ DeregTimeout(c)
         \/ TimerSecond(c) \/ lib_stats_timer(c) \/ Buffers(c)
  PROVE  StationInv'
<1> DEFINE s == lib[c]
<1>1. /\ Queued(s) /\ s \in Lib /\ (s.libstate \in Parked => ~s.registered)
      /\ (s.pc = "apply" => s.libstate \in Parked)
  BY One
<1>2. ASSUME NEW t, Queued(t), Keeps(t, s),
             NEW p \in ProgramPoints \ {"apply"}, Step(c, [t EXCEPT !.pc = p])
      PROVE  StationInv'
  BY <1>1, <1>2, SetPc, Made DEF Keeps
<1>3. {"loop", "rest", "second"} \subseteq ProgramPoints /\ Keeps(s, s)
  BY DEF ProgramPoints, Keeps
<1>4. CASE TimerParked(c)
  <2> DEFINE t == lib_change_state(s, "RUNWAIT", "OTHER")
  <2>1. Queued(t) /\ Keeps(t, s)
    BY <1>1, ChangeState DEF Queued, Targets, LibErrs
  <2> QED
    BY <1>1, <1>2, <1>3, <1>4, <2>1 DEF TimerParked
<1>5. CASE TimerRetry(c)
  <2> DEFINE e == [s EXCEPT !.cphase = "NEED", !.stalled = TRUE]
             u == state_callback(e, "STALL_ON")
  <2>1. CASE Step(c, [s EXCEPT !.pc = "second"])
    BY <1>1, <1>2, <1>3, <2>1
  <2>2. CASE s.cmdq # << >> /\ Step(c, [clear_cmsg(s) EXCEPT !.pc = "second"])
    BY <1>1, <1>2, <1>3, <2>2, ClearCmsg
  <2>3. CASE s.cmdq # << >> /\ Step(c, [IF s.stalled THEN e ELSE u
                                          EXCEPT !.pc = "second"])
    <3>1. Queued(e) /\ Keeps(e, s) /\ e \in Lib /\ e.cmdq # << >>
      BY <1>1, <2>3 DEF Queued, Keeps, Lib, Phases
    <3>2. Step(c, [e EXCEPT !.pc = "second"]) \/ Step(c, [u EXCEPT !.pc = "second"])
      BY <2>3
    <3> HIDE DEF e
    <3>3. Queued(u) /\ Keeps(u, s)
      BY <3>1, StateCallback DEF Queued, Keeps, Notices
    <3> HIDE DEF u
    <3> QED
      BY <1>2, <1>3, <3>1, <3>2, <3>3
  <2> QED
    BY <1>5, <2>1, <2>2, <2>3 DEF TimerRetry
<1>6. CASE DeregTimeout(c)
  <2> DEFINE u == purge_cmdq(s)
             n == new_state(u, u.target)
             r == close_sockets(n)
             w == [r EXCEPT !.registered = FALSE]
  <2>1. Step(c, [w EXCEPT !.pc = "loop"])
    BY <1>6 DEF DeregTimeout
  <2>2. Queued(u)
    BY <1>1, Purge DEF Queued
  <2> HIDE DEF u
  <2>3. Queued(n)
    <3>1. u \in Lib /\ u.target \in LibStates
      BY <2>2 DEF Queued, Lib, Targets, LibStates
    <3> QED
      BY <2>2, <3>1, NewState DEF Queued
  <2> HIDE DEF n
  <2>4. Queued(r)
    BY <2>3, CloseSockets DEF Queued
  <2> HIDE DEF r
  <2>5. Queued(w) /\ ~w.registered
    BY <2>4, Unregister
  <2> HIDE DEF w
  <2> QED
    BY <1>3, <2>1, <2>5, SetPc, Made
<1>7. CASE TimerSecond(c)
  <2>1. PICK noData \in BOOLEAN, askStatus \in BOOLEAN, noAnswer \in BOOLEAN,
             noStatus \in BOOLEAN :
          LET running == s.libstate = "RUN"
              inSession == s.libstate \in {"READCFG", "READTOK", "DECTOK",
                                          "RUNWAIT", "RUN"}
              s1 == IF running /\ noData THEN GiveUp(s, "GONE") ELSE s
              s2 == IF running /\ askStatus THEN new_cmd(s1, "RQSTAT") ELSE s1
              s3 == IF s.libstate = "REG" /\ noAnswer
                    THEN [GiveUp(s2, "OTHER") EXCEPT !.registered = FALSE] ELSE s2
              s4 == IF inSession /\ noStatus THEN GiveUp(s3, "OTHER") ELSE s3
          IN  Step(c, [lib_send_next_cmd(s4) EXCEPT !.pc = "loop"])
    BY <1>7 DEF TimerSecond
  <2> DEFINE s1 == IF s.libstate = "RUN" /\ noData THEN GiveUp(s, "GONE") ELSE s
             s2 == IF s.libstate = "RUN" /\ askStatus
                   THEN new_cmd(s1, "RQSTAT") ELSE s1
             r3 == [GiveUp(s2, "OTHER") EXCEPT !.registered = FALSE]
             s3 == IF s.libstate = "REG" /\ noAnswer THEN r3 ELSE s2
             s4 == IF s.libstate \in {"READCFG", "READTOK", "DECTOK", "RUNWAIT",
                                     "RUN"} /\ noStatus
                   THEN GiveUp(s3, "OTHER") ELSE s3
             s5 == lib_send_next_cmd(s4)
  <2>2. Step(c, [s5 EXCEPT !.pc = "loop"])
    BY <2>1
  <2>3. Queued(s1) /\ Keeps(s1, s)
    BY <1>1, <1>3, GiveUpEmpties DEF LibErrs
  <2> HIDE DEF s1
  <2>4. Queued(s2) /\ Keeps(s2, s)
    BY <2>3, NewCmd DEF Commands, Keeps, Queued
  <2> HIDE DEF s2
  <2>5. Queued(r3) /\ Keeps(r3, s)
    <3>1. Queued(GiveUp(s2, "OTHER")) /\ Keeps(GiveUp(s2, "OTHER"), s2)
      BY <2>4, GiveUpEmpties DEF LibErrs, Queued
    <3> QED
      BY <2>4, <3>1, Unregister DEF Keeps
  <2> HIDE DEF r3
  <2>6. Queued(s3) /\ Keeps(s3, s)
    BY <2>4, <2>5
  <2> HIDE DEF s3
  <2>7. Queued(s4) /\ Keeps(s4, s)
    BY <2>6, GiveUpEmpties DEF LibErrs, Keeps, Queued
  <2> HIDE DEF s4
  <2>8. Queued(s5) /\ Keeps(s5, s)
    BY <2>7, SendNext DEF Keeps, Queued
  <2> HIDE DEF s5
  <2> QED
    BY <1>2, <1>3, <2>2, <2>8
<1>8. CASE lib_stats_timer(c)
  <2>1. Queued(state_callback(s, "OPSTAT")) /\ Keeps(state_callback(s, "OPSTAT"), s)
    BY <1>1, StateCallback DEF Queued, Notices
  <2> QED
    BY <1>1, <1>8, <2>1, Made DEF lib_stats_timer, Keeps
<1>9. CASE Buffers(c)
  <2> DEFINE t == [s EXCEPT !.nobufs = ~@]
  <2>1. Queued(t) /\ Keeps(t, s)
    BY <1>1 DEF Queued, Keeps, Lib
  <2>2. Step(c, t)
    BY <1>9 DEF Buffers
  <2> HIDE DEF t
  <2> QED
    BY <1>1, <2>1, <2>2, Made DEF Keeps
<1> QED
  BY <1>4, <1>5, <1>6, <1>7, <1>8, <1>9

(* The readers of the two sockets keep the invariant: the answers to the   *)
(* commands, errors and resets, and data.                                  *)
LEMMA ReaderKeeps ==
  ASSUME StationInv, NEW c \in Contexts, Reader(c)
  PROVE  StationInv'
<1> DEFINE s == lib[c]
           k == clear_cmsg(s)
<1>1. /\ Queued(s) /\ s \in Lib /\ (s.libstate \in Parked => ~s.registered)
      /\ (s.pc = "apply" => s.libstate \in Parked)
  BY One
<1>2. s.pc = "loop"
  BY DEF Reader, ServerChallenge, RegistrationAccepted, ConfigRead, StatusRead,
         read_q330_cfg, PingAnswered, Deregistered, CommandRefused,
         ConnectionReset, DataTick, Answered, Listening, AtLoop, At
<1>3. ASSUME NEW t, Queued(t), Keeps(t, s), Step(c, t)
      PROVE  StationInv'
  BY <1>1, <1>2, <1>3, Made DEF Keeps
<1>4. ASSUME NEW t, Queued(t), t.pc = s.pc, Step(c, t),
             t.libstate \in Parked => ~t.registered
      PROVE  StationInv'
  BY <1>2, <1>4, Made
<1>5. ASSUME s.cmdq # << >>
      PROVE  Queued(k) /\ Keeps(k, s) /\ k \in Lib
  BY <1>1, <1>5, ClearCmsg DEF Queued
<1> HIDE DEF k
<1>6. CASE ServerChallenge(c)
  <2>1. s.cmdq # << >> /\ Step(c, new_cmd(k, "SRVRSP"))
    BY <1>6 DEF ServerChallenge, Answered, k
  <2>2. Queued(new_cmd(k, "SRVRSP")) /\ Keeps(new_cmd(k, "SRVRSP"), s)
    BY <1>5, <2>1, NewCmd DEF Commands, Keeps
  <2> QED
    BY <1>3, <2>1, <2>2
<1>7. CASE RegistrationAccepted(c)
  <2> DEFINE e == [k EXCEPT !.registered = TRUE]
             t == lib330_reboot(e)
  <2>1. s.cmdq # << >> /\ Step(c, t)
    BY <1>7 DEF RegistrationAccepted, Answered, k
  <2>2. e \in Lib /\ e.pc = s.pc
    BY <1>5, <2>1 DEF Lib, Keeps
  <2> HIDE DEF e
  <2>3. Queued(t) /\ t.pc = s.pc /\ t.libstate = "READCFG"
    BY <2>2, Reboot
  <2> HIDE DEF t
  <2> QED
    BY <1>4, <2>1, <2>3 DEF Parked
<1>8. CASE ConfigRead(c)
  <2>1. s.cmdq # << >>
    BY <1>8 DEF ConfigRead, Answered
  <2>2. Queued(state_callback(k, "CFG")) /\ Keeps(state_callback(k, "CFG"), s)
    BY <1>5, <2>1, StateCallback DEF Queued, Keeps, Notices
  <2>3. /\ Queued(start_deregistration(s))
        /\ start_deregistration(s).libstate \notin Parked
        /\ start_deregistration(s).pc = s.pc
    BY <1>1, StartDeregistration DEF Parked
  <2>4. \/ Step(c, state_callback(k, "CFG"))
        \/ Step(c, start_deregistration(s))
    BY <1>8 DEF ConfigRead, k
  <2> QED
    BY <1>3, <1>4, <2>2, <2>3, <2>4
<1>9. CASE StatusRead(c)
  <2>1. s.cmdq # << >>
    BY <1>9 DEF StatusRead, Answered
  <2>2. PICK notice \in {"STATUS", "STATUS_GLB"}, changed \in BOOLEAN,
             powerOff \in BOOLEAN, more \in BOOLEAN :
          LET s1 == IF changed
                    THEN lib_change_state(s, "RUNWAIT", "TOKENS_CHANGE") ELSE s
              s2 == IF powerOff THEN lib_change_state(s1, "WAIT", "OTHER") ELSE s1
              s3 == clear_cmsg(state_callback(s2, notice))
          IN  /\ powerOff => notice = "STATUS" /\ s.libstate = "RUN"
              /\ Step(c, CASE more -> new_cmd(s3, "RQSTAT")
                           [] ~more /\ s.rebootDone -> s3
                           [] OTHER -> cfg_start([s3 EXCEPT !.rebootDone = TRUE]))
    BY <1>9, Zenon DEF StatusRead
  <2> DEFINE s1 == IF changed
                   THEN lib_change_state(s, "RUNWAIT", "TOKENS_CHANGE") ELSE s
             s2 == IF powerOff THEN lib_change_state(s1, "WAIT", "OTHER") ELSE s1
             u == state_callback(s2, notice)
             s3 == clear_cmsg(u)
             e == [s3 EXCEPT !.rebootDone = TRUE]
  <2>3. \/ Step(c, new_cmd(s3, "RQSTAT"))
        \/ Step(c, s3)
        \/ Step(c, cfg_start(e))
    BY <2>2
  <2>4. s1 \in Lib /\ Keeps(s1, s) /\ s1.cmdq = s.cmdq
    BY <1>1, ChangeState DEF Targets, LibErrs, Keeps
  <2> HIDE DEF s1
  <2>5. s2 \in Lib /\ Keeps(s2, s) /\ s2.cmdq = s.cmdq
    BY <2>4, ChangeState DEF Targets, LibErrs, Keeps
  <2> HIDE DEF s2
  <2>6. u \in Lib /\ Keeps(u, s) /\ u.cmdq # << >>
    BY <2>1, <2>5, StateCallback DEF Notices, Keeps
  <2> HIDE DEF u
  <2>7. Queued(s3) /\ Keeps(s3, s) /\ s3 \in Lib
    BY <2>6, ClearCmsg DEF Keeps, Queued
  <2> HIDE DEF s3
  <2>8. Queued(new_cmd(s3, "RQSTAT")) /\ Keeps(new_cmd(s3, "RQSTAT"), s)
    BY <2>7, NewCmd DEF Commands, Keeps
  <2>9. e \in Lib /\ e.pc = s.pc
    BY <2>7 DEF Lib, Keeps
  <2> HIDE DEF e
  <2>10. /\ Queued(cfg_start(e)) /\ cfg_start(e).pc = s.pc
         /\ cfg_start(e).libstate \notin Parked
    BY <2>9, CfgStart DEF Parked
  <2> QED
    BY <1>3, <1>4, <2>3, <2>7, <2>8, <2>10
<1>10. CASE read_q330_cfg(c)
  <2>1. s.cmdq # << >>
    BY <1>10 DEF read_q330_cfg, Answered
  <2>2. /\ Queued(new_state(k, "DECTOK")) /\ new_state(k, "DECTOK").pc = s.pc
        /\ new_state(k, "DECTOK").libstate \notin Parked
    BY <1>5, <2>1, NewState DEF LibStates, Queued, Keeps, Parked
  <2>3. Queued(new_cmd(k, "RQMEM")) /\ Keeps(new_cmd(k, "RQMEM"), s)
    BY <1>5, <2>1, NewCmd DEF Commands, Keeps
  <2>4. Step(c, new_state(k, "DECTOK")) \/ Step(c, new_cmd(k, "RQMEM")) \/ Step(c, k)
    BY <1>10 DEF read_q330_cfg, k
  <2> QED
    BY <1>3, <1>4, <1>5, <2>1, <2>2, <2>3, <2>4
<1>11. CASE PingAnswered(c)
  BY <1>3, <1>5, <1>11 DEF PingAnswered, Answered, k
<1>12. CASE Deregistered(c)
  <2> DEFINE n == new_state(k, k.target)
             w == [n EXCEPT !.registered = FALSE]
  <2>1. s.cmdq # << >> /\ Step(c, close_sockets(w))
    BY <1>12 DEF Deregistered, Answered, k
  <2>2. k \in Lib /\ k.target \in LibStates
    BY <1>5, <2>1 DEF Lib, Targets, LibStates
  <2>3. Queued(n) /\ n.pc = s.pc
    BY <1>5, <2>1, <2>2, NewState DEF Queued, Keeps
  <2> HIDE DEF n
  <2>4. Queued(w) /\ w.pc = s.pc /\ ~w.registered
    BY <2>3, Unregister
  <2> HIDE DEF w
  <2>5. /\ Queued(close_sockets(w)) /\ close_sockets(w).pc = s.pc
        /\ ~close_sockets(w).registered
    BY <2>4, CloseSockets DEF Queued, Keeps
  <2> QED
    BY <1>4, <2>1, <2>5
<1>13. CASE CommandRefused(c)
  <2> DEFINE m == IF Head(s.cmdq) = "RQMEM" THEN s ELSE k
  <2>1. s.cmdq # << >>
    BY <1>13 DEF CommandRefused
  <2>2. Queued(m) /\ Keeps(m, s) /\ m \in Lib
    BY <1>1, <1>5, <2>1 DEF Keeps
  <2>3. \/ Step(c, m)
        \/ \E err \in {"GONE", "OTHER"} :
             Step(c, [lib_change_state(m, "WAIT", err) EXCEPT !.registered = FALSE])
        \/ Step(c, lib_change_state(m, "WAIT", "OTHER"))
    BY <1>13 DEF CommandRefused, k
  <2> HIDE DEF m
  <2>4. ASSUME NEW err \in LibErrs
        PROVE  Queued(lib_change_state(m, "WAIT", err))
                 /\ Keeps(lib_change_state(m, "WAIT", err), s)
    <3> DEFINE w == lib_change_state(m, "WAIT", err)
    <3>1. "WAIT" \in Targets
      BY DEF Targets
    <3>2. /\ w \in Lib /\ Keeps(w, m)
          /\ w.cmdq = m.cmdq /\ w.cphase = m.cphase /\ w.stalled = m.stalled
      BY <2>2, <3>1, ChangeState
    <3> HIDE DEF w
    <3>3. Queued(w) /\ Keeps(w, s)
      BY <2>2, <3>2 DEF Queued, Keeps
    <3> QED
      BY <3>3 DEF w
  <2>5. ASSUME NEW err \in LibErrs
        PROVE  /\ Queued([lib_change_state(m, "WAIT", err) EXCEPT !.registered = FALSE])
               /\ Keeps([lib_change_state(m, "WAIT", err) EXCEPT !.registered = FALSE], s)
    BY <2>4, Unregister DEF Keeps
  <2>6. "GONE" \in LibErrs /\ "OTHER" \in LibErrs
    BY DEF LibErrs
  <2> QED
    BY <1>3, <2>2, <2>3, <2>4, <2>5, <2>6
<1>14. CASE ConnectionReset(c)
  <2> DEFINE u == purge_cmdq(s)
             v == close_sockets(u)
             r == [v EXCEPT !.liberr = "GONE"]
             n == new_state(r, "WAIT")
  <2>1. Queued(u)
    BY <1>1, Purge DEF Queued
  <2> HIDE DEF u
  <2>2. Queued(v)
    BY <2>1, CloseSockets DEF Queued
  <2> HIDE DEF v
  <2>3. Queued(r)
    BY <2>2 DEF Queued, Lib, LibErrs
  <2>4. \/ Step(c, BeginDeallocation(r, "deallocIo"))
        \/ \E target \in {r.target, "WAIT"} :
             Step(c, [n EXCEPT !.registered = FALSE, !.target = target])
    BY <1>14 DEF ConnectionReset, u, v
  <2>5. v.pc = s.pc
    BY <1>1, <2>1, Purge, CloseSockets DEF Queued, Keeps, u, v
  <2>6. r.pc = s.pc /\ r.target \in Targets
    BY <2>2, <2>5 DEF Queued, Lib
  <2> HIDE DEF r
  <2>7. Queued(n) /\ n.pc = s.pc
    BY <2>3, <2>6, NewState DEF LibStates, Queued
  <2> HIDE DEF n
  <2>8. CASE Step(c, BeginDeallocation(r, "deallocIo"))
    BY <2>3, <2>8, BeginDealloc, Made DEF ProgramPoints, Parked
  <2>9. ASSUME NEW target \in {r.target, "WAIT"},
               Step(c, [n EXCEPT !.registered = FALSE, !.target = target])
        PROVE  StationInv'
    <3> DEFINE w == [n EXCEPT !.registered = FALSE, !.target = target]
    <3>1. target \in Targets
      BY <2>6 DEF Targets
    <3>2. Queued(w) /\ w.pc = s.pc /\ ~w.registered
      BY <2>7, <3>1 DEF Queued, Lib
    <3> HIDE DEF w
    <3> QED
      BY <1>4, <2>9, <3>2 DEF w
  <2> QED
    BY <2>4, <2>8, <2>9
<1>15. CASE DataTick(c)
  <2>1. Queued(state_callback(s, "TICK")) /\ Keeps(state_callback(s, "TICK"), s)
    BY <1>1, StateCallback DEF Queued, Notices
  <2> QED
    BY <1>3, <1>15, <2>1 DEF DataTick
<1> QED
  BY <1>6, <1>7, <1>8, <1>9, <1>10, <1>11, <1>12, <1>13, <1>14, <1>15 DEF Reader

-----------------------------------------------------------------------------
(* The strengthened invariant holds of every reachable state, for any set  *)
(* of contexts: no context has anything to do with another.                *)
THEOREM StationInvariant == Spec => []StationInv
<1>1. Init => StationInv
  BY EmptyQueue DEF Init, StationInv, TypeOK, Consistent, NoContext, Lib,
                    LibStates, Targets, LibErrs, Phases, ProgramPoints
<1>2. StationInv /\ [Next]_lib => StationInv'
  <2> SUFFICES ASSUME StationInv, [Next]_lib PROVE StationInv'
    OBVIOUS
  <2>1. ASSUME NEW c \in Contexts, Client(c) PROVE StationInv'
    BY <2>1, ClientKeeps
  <2>2. ASSUME NEW c \in Contexts, Thread(c) PROVE StationInv'
    BY <2>2, TargetKeeps, SecondKeeps, ReaderKeeps DEF Thread, Timer
  <2>3. CASE UNCHANGED lib
    BY <2>3 DEF StationInv, TypeOK, Consistent
  <2> QED
    BY <2>1, <2>2, <2>3 DEF Next
<1> QED
  BY <1>1, <1>2, PTL DEF Spec

(* The fields of a context always hold what their C types allow.           *)
THEOREM StationTypes == Spec => []TypeOK
<1>1. StationInv => TypeOK
  BY DEF StationInv
<1> QED
  BY <1>1, StationInvariant, PTL

(* A thread that is idle, waits or asks for its registration never counts  *)
(* itself registered, whichever of the ways out of a session it took.      *)
THEOREM ParkedUnregistered == Spec => []ParkedIsUnregistered
<1>1. StationInv => ParkedIsUnregistered
  BY DEF StationInv, Consistent, ParkedIsUnregistered
<1> QED
  BY <1>1, StationInvariant, PTL

(* With an empty queue nothing is in flight and the link is not stalled,   *)
(* whichever of the ways to empty the queue was taken.                     *)
THEOREM InFlightQueued == Spec => []InFlightIsQueued
<1>1. StationInv => InFlightIsQueued
  BY DEF StationInv, Consistent, InFlightIsQueued
<1> QED
  BY <1>1, StationInvariant, PTL

-----------------------------------------------------------------------------
(* The order of a session.  The client asks for RUN only from within the   *)
(* callback that announces RUNWAIT, and the thread acts on a target it     *)
(* read before its callbacks: what keeps a target of RUN out of the other  *)
(* states is what each state allows in the queue, who may still be told of *)
(* RUNWAIT, and where the thread is in its loop.                           *)

\* The client has not returned yet from a callback that announces RUNWAIT.
Announced(s) == \E i \in 1 .. Len(s.calls) : s.calls[i] = "RUNWAIT"

\* The commands a state may have in its queue, and the one that ends it.
MayQueue(st) ==
  CASE st = "REG" -> {"RQSRV", "SRVRSP"}
    [] st = "READCFG" -> {"RQFGLS", "RQGID", "RQSTAT"}
    [] st = "DEREG" -> {"PING", "DSRV"}
    [] OTHER -> {"RQSTAT", "RQMEM"}

Closing(st) ==
  CASE st = "REG" -> "SRVRSP"
    [] st = "READCFG" -> "RQSTAT"
    [] st = "DEREG" -> "DSRV"
    [] OTHER -> "none"

QueueFits(q, st) ==
  \A i \in 1 .. Len(q) :
    q[i] \in MayQueue(st) /\ (q[i] = Closing(st) => i = Len(q))

\* From here on the status of the Q330 has been read once.
AfterReboot == {"READTOK", "DECTOK", "RUNWAIT", "RUN", "DEALLOC"}

(* What holds of a context wherever the thread is in its loop.             *)
Session(s) ==
  /\ Announced(s) => s.libstate = "RUNWAIT"
  /\ s.target = "RUN" =>
       \/ s.libstate \in {"RUNWAIT", "RUN", "WAIT", "TERM"}
       \/ s.libstate = "DEALLOC" /\ s.liberr = "GONE"
  /\ s.libstate \in AfterReboot /\ s.sockets => s.rebootDone
  /\ s.liberr = "TOKENS_CHANGE" =>
       /\ s.target = "RUNWAIT" /\ s.sockets /\ ~s.terminate
       /\ s.libstate \in AfterReboot \union {"READCFG"}
       /\ \A i \in 1 .. Len(s.cmdq) : s.cmdq[i] # "RQFGLS"
  /\ s.libstate \in OnLine => QueueFits(s.cmdq, s.libstate)
  /\ s.libstate \in {"REG", "READCFG", "READTOK", "DECTOK"} /\ ~s.sockets
       => s.target \notin {"RUNWAIT", "RUN"}

(* What a point of the loop says of the state.                             *)
Placed(s) ==
  /\ s.pc = "apply" => s.target \in {"IDLE", "WAIT", "TERM"}
  /\ s.pc = "decode" => s.libstate = "DECTOK"
  /\ s.pc \in {"dealloc", "deallocIo"} <=> s.libstate = "DEALLOC"

OrderInv == \A c \in Contexts : Session(lib[c]) /\ Placed(lib[c])

\* A step from s to t is one the order of a session has.
InOrder(t, s) ==
  /\ s.libstate # "RUN" /\ t.libstate = "RUN" => s.libstate = "RUNWAIT"
  /\ s.libstate # "RUNWAIT" /\ t.libstate = "RUNWAIT"
       => s.libstate \in {"DECTOK", "DEREG"}

AllInOrder == \A c \in Contexts : InOrder(lib'[c], lib[c])

\* t has the target and the sockets of s, or the session was given up.
Settled(t, s) ==
  /\ t.target = s.target /\ t.liberr = s.liberr /\ t.sockets = s.sockets
  /\ t.rebootDone = s.rebootDone /\ t.terminate = s.terminate
  /\ Announced(t) => Announced(s)

Follows(t, s) ==
  \/ Settled(t, s)
  \/ /\ t.target = "WAIT" /\ t.liberr # "TOKENS_CHANGE"
     /\ t.sockets => s.sockets
     /\ t.rebootDone = s.rebootDone /\ t.terminate = s.terminate
     /\ Announced(t) => Announced(s)

(* A queue without its head fits where the queue did, and it is empty when *)
(* the head was the command that ends the state.                           *)
LEMMA FitsTail ==
  ASSUME NEW q \in Seq(Commands), NEW st, QueueFits(q, st), q # << >>
  PROVE  /\ QueueFits(Tail(q), st)
         /\ Head(q) \in MayQueue(st)
         /\ Head(q) = Closing(st) => Tail(q) = << >>
<1> DEFINE r == Tail(q)
           n == Len(q)
<1>1. /\ n \in Nat \ {0} /\ Len(r) = n - 1 /\ Head(q) = q[1]
      /\ \A i \in 1 .. n - 1 : r[i] = q[i + 1] /\ i + 1 \in 1 .. n
      /\ 1 \in 1 .. n /\ r \in Seq(Commands)
  BY DEF Commands
<1>2. QueueFits(r, st)
  <2> HIDE DEF r, n
  <2> SUFFICES ASSUME NEW i \in 1 .. n - 1
               PROVE  r[i] \in MayQueue(st) /\ (r[i] = Closing(st) => i = n - 1)
    BY <1>1 DEF QueueFits
  <2>1. q[i + 1] \in MayQueue(st) /\ (q[i + 1] = Closing(st) => i + 1 = n)
    BY <1>1 DEF QueueFits, n
  <2> QED
    BY <1>1, <2>1
<1>3. Head(q) \in MayQueue(st) /\ (Head(q) = Closing(st) => Len(q) = 1)
  BY <1>1 DEF QueueFits
<1>4. n = 1 => r = << >>
  <2> HIDE DEF n, r
  <2> QED
    BY <1>1
<1> QED
  BY <1>2, <1>3, <1>4

LEMMA FitsAppend ==
  ASSUME NEW q \in Seq(Commands), NEW st, QueueFits(q, st),
         NEW cmd \in MayQueue(st),
         \A i \in 1 .. Len(q) : q[i] # Closing(st)
  PROVE  QueueFits(Append(q, cmd), st)
<1> DEFINE r == Append(q, cmd)
           n == Len(q)
<1>1. /\ n \in Nat /\ Len(r) = n + 1 /\ r[n + 1] = cmd
      /\ \A i \in 1 .. n : r[i] = q[i]
  OBVIOUS
<1> HIDE DEF n
<1> SUFFICES ASSUME NEW i \in 1 .. n + 1
             PROVE  r[i] \in MayQueue(st) /\ (r[i] = Closing(st) => i = n + 1)
  <2> HIDE DEF r
  <2> QED
    BY <1>1 DEF QueueFits, r
<1>2. CASE i \in 1 .. n
  BY <1>1, <1>2 DEF QueueFits, n
<1>3. CASE i = n + 1
  BY <1>1, <1>3
<1> QED
  BY <1>1, <1>2, <1>3

LEMMA FitsEmpty == \A st : QueueFits(<< >>, st)
BY DEF QueueFits

(* A callback other than that of RUNWAIT announces nothing.                *)
LEMMA CallbackSettles ==
  ASSUME NEW s \in Lib, NEW notice \in Notices \ {"RUNWAIT"}
  PROVE  LET t == state_callback(s, notice) IN Settled(t, s) /\ t.cmdq = s.cmdq
<1>1. s.calls \in Seq(Notices)
  BY DEF Lib
<1>2. \A i \in 1 .. Len(Append(s.calls, notice)) :
        \/ i \in 1 .. Len(s.calls) /\ Append(s.calls, notice)[i] = s.calls[i]
        \/ Append(s.calls, notice)[i] = notice
  BY <1>1
<1> DEFINE t == state_callback(s, notice)
<1>3. t.calls = Append(s.calls, notice)
  BY DEF state_callback, Lib
<1>4. Announced(t) => Announced(s)
  BY <1>2, <1>3 DEF Announced
<1> QED
  BY <1>4 DEF Settled, state_callback, Lib

LEMMA NewStateSettles ==
  ASSUME NEW s \in Lib, NEW st \in LibStates \ {"RUNWAIT"}
  PROVE  LET t == new_state(s, st) IN Settled(t, s) /\ t.cmdq = s.cmdq
<1> DEFINE u == state_callback(s, st)
<1>1. u \in Lib /\ Settled(u, s) /\ u.cmdq = s.cmdq
  BY CallbackSettles, StateCallback DEF Notices
<1> HIDE DEF u
<1>2. new_state(s, st) = [u EXCEPT !.libstate = st]
  BY DEF new_state, u
<1> QED
  BY <1>1, <1>2 DEF Settled, Announced, Lib

\* The end of a stall is the only thing clear_cmsg and purge_cmdq announce.
LEMMA UnstallSettles ==
  ASSUME NEW s \in Lib
  PROVE  LET t == Unstall(s) IN Settled(t, s) /\ t.cmdq = s.cmdq
<1> DEFINE u == state_callback(s, "STALL_OFF")
<1>1. u \in Lib /\ Settled(u, s) /\ u.cmdq = s.cmdq
  BY CallbackSettles, StateCallback DEF Notices, LibStates
<1>2. Unstall(s) = IF s.stalled THEN [u EXCEPT !.stalled = FALSE] ELSE s
  BY DEF Unstall
<1> HIDE DEF u
<1> QED
  BY <1>1, <1>2 DEF Settled, Announced, Lib

LEMMA PurgeSettles ==
  ASSUME NEW s \in Lib
  PROVE  Settled(purge_cmdq(s), s)
<1> DEFINE e == [s EXCEPT !.cmdq = << >>, !.cphase = "IDLE"]
<1>1. e \in Lib /\ Settled(e, s)
  BY EmptyQueue DEF Lib, Phases, Settled, Announced
<1>2. purge_cmdq(s) = Unstall(e)
  BY DEF purge_cmdq
<1> HIDE DEF e
<1> QED
  BY <1>1, <1>2, UnstallSettles DEF Settled

LEMMA ClearSettles ==
  ASSUME NEW s \in Lib, s.cmdq # << >>
  PROVE  LET t == clear_cmsg(s) IN Settled(t, s) /\ t.cmdq = Tail(s.cmdq)
<1> DEFINE e == [s EXCEPT !.cmdq = Tail(@), !.cphase = "IDLE"]
<1>1. Tail(s.cmdq) \in Seq(Commands)
  BY DEF Lib
<1>2. e \in Lib /\ Settled(e, s) /\ e.cmdq = Tail(s.cmdq)
  BY <1>1 DEF Lib, Phases, Settled, Announced
<1>3. clear_cmsg(s) = IF e.cmdq = << >> THEN Unstall(e) ELSE e
  BY DEF clear_cmsg
<1> HIDE DEF e
<1> QED
  BY <1>2, <1>3, UnstallSettles DEF Settled

LEMMA GiveUpFollows ==
  ASSUME NEW s \in Lib, NEW reason \in LibErrs \ {"TOKENS_CHANGE"}
  PROVE  LET t == GiveUp(s, reason) IN
         Follows(t, s) /\ t.target = "WAIT" /\ t.liberr = reason
<1> DEFINE u == purge_cmdq(s)
<1>1. u \in Lib /\ Settled(u, s)
  BY Purge, PurgeSettles
<1>2. GiveUp(s, reason) = [u EXCEPT !.target = "WAIT", !.liberr = reason]
  BY DEF GiveUp, lib_change_state
<1> HIDE DEF u
<1> QED
  BY <1>1, <1>2 DEF Follows, Settled, Announced, Lib

LEMMA SendFollows ==
  ASSUME NEW s \in Lib
  PROVE  LET t == lib_send_next_cmd(s) IN
         Follows(t, s) /\ t.cmdq \in {s.cmdq, << >>}
<1>1. CASE s.cmdq = << >> \/ s.cphase = "WAIT"
  BY <1>1 DEF lib_send_next_cmd, Follows, Settled
<1>2. CASE ~(s.cmdq = << >> \/ s.cphase = "WAIT") /\ s.sockets /\ s.nobufs
  <2> DEFINE g == GiveUp(s, "GONE")
  <2>1. g \in Lib /\ Follows(g, s) /\ g.cmdq = << >> /\ g.target = "WAIT"
        /\ g.liberr = "GONE"
    BY GiveUpFollows, GiveUpEmpties DEF LibErrs, Queued
  <2>2. lib_send_next_cmd(s) = [g EXCEPT !.registered = FALSE, !.sockets = FALSE]
    BY <1>2 DEF lib_send_next_cmd, close_sockets
  <2>3. /\ g.rebootDone = s.rebootDone /\ g.terminate = s.terminate
        /\ Announced(g) => Announced(s)
    BY <2>1 DEF Follows, Settled
  <2> HIDE DEF g
  <2> DEFINE t == [g EXCEPT !.registered = FALSE, !.sockets = FALSE]
  <2>4. /\ t.target = "WAIT" /\ t.liberr = "GONE" /\ ~t.sockets /\ t.cmdq = << >>
        /\ t.rebootDone = g.rebootDone /\ t.terminate = g.terminate
        /\ t.calls = g.calls
    BY <2>1 DEF Lib
  <2> HIDE DEF t
  <2> QED
    BY <2>2, <2>3, <2>4 DEF Follows, Announced, t
<1>3. CASE ~(s.cmdq = << >> \/ s.cphase = "WAIT") /\ ~(s.sockets /\ s.nobufs)
  BY <1>3 DEF lib_send_next_cmd, Follows, Settled, Announced, Lib
<1> QED
  BY <1>1, <1>2, <1>3

(* A command that is queued is queued last, and was not there before.      *)
LEMMA NewCmdFollows ==
  ASSUME NEW s \in Lib, NEW cmd \in Commands
  PROVE  LET t == new_cmd(s, cmd) IN
         /\ Follows(t, s)
         /\ \/ t.cmdq \in {s.cmdq, << >>}
            \/ /\ t.cmdq = Append(s.cmdq, cmd)
               /\ \A i \in 1 .. Len(s.cmdq) : s.cmdq[i] # cmd
<1> DEFINE e == [s EXCEPT !.cmdq = Append(@, cmd)]
<1>1. CASE \E i \in 1 .. Len(s.cmdq) : s.cmdq[i] = cmd
  BY <1>1 DEF new_cmd, Follows, Settled
<1>2. CASE ~ \E i \in 1 .. Len(s.cmdq) : s.cmdq[i] = cmd
  <2>1. Append(s.cmdq, cmd) \in Seq(Commands)
    BY DEF Lib
  <2>2. e \in Lib /\ Settled(e, s) /\ e.cmdq = Append(s.cmdq, cmd)
    BY <2>1 DEF Lib, Settled, Announced
  <2>3. new_cmd(s, cmd) = lib_send_next_cmd(e)
    BY <1>2 DEF new_cmd
  <2> HIDE DEF e
  <2>4. Follows(lib_send_next_cmd(e), e)
        /\ lib_send_next_cmd(e).cmdq \in {e.cmdq, << >>}
    BY <2>2, SendFollows
  <2> QED
    BY <1>2, <2>2, <2>3, <2>4 DEF Follows, Settled
<1> QED
  BY <1>1, <1>2

LEMMA NewCmdFits ==
  ASSUME NEW s \in Lib, NEW cmd \in Commands, NEW st,
         QueueFits(s.cmdq, st), cmd \in MayQueue(st),
         \/ cmd = Closing(st)
         \/ \A i \in 1 .. Len(s.cmdq) : s.cmdq[i] # Closing(st)
  PROVE  QueueFits(new_cmd(s, cmd).cmdq, st)
<1>1. s.cmdq \in Seq(Commands)
  BY DEF Lib
<1> DEFINE q == new_cmd(s, cmd).cmdq
<1>2. \/ q \in {s.cmdq, << >>}
      \/ q = Append(s.cmdq, cmd) /\ \A i \in 1 .. Len(s.cmdq) : s.cmdq[i] # cmd
  BY NewCmdFollows
<1> HIDE DEF q
<1>3. CASE q = Append(s.cmdq, cmd) /\ \A i \in 1 .. Len(s.cmdq) : s.cmdq[i] # cmd
  <2>1. \A i \in 1 .. Len(s.cmdq) : s.cmdq[i] # Closing(st)
    BY <1>3
  <2>2. QueueFits(Append(s.cmdq, cmd), st)
    BY <1>1, <2>1, FitsAppend
  <2> QED
    BY <1>3, <2>2 DEF q
<1> QED
  BY <1>2, <1>3, FitsEmpty DEF q

(* A context that follows another in the same state is in the same session. *)
LEMMA SessionFollows ==
  ASSUME NEW s \in Lib, NEW t \in Lib, Session(s), Follows(t, s),
         t.libstate = s.libstate,
         s.libstate \in OnLine => QueueFits(t.cmdq, s.libstate),
         s.liberr = "TOKENS_CHANGE" => \A i \in 1 .. Len(t.cmdq) : t.cmdq[i] # "RQFGLS"
  PROVE  Session(t)
<1>1. CASE Settled(t, s)
  BY <1>1 DEF Settled, Session
<1>2. CASE ~Settled(t, s)
  BY <1>2 DEF Follows, Session
<1> QED
  BY <1>1, <1>2

(* The entry into DEREG, whatever the queue was.                           *)
LEMMA DeregSession ==
  ASSUME NEW s \in Lib, s.target # "RUN", s.liberr # "TOKENS_CHANGE", ~Announced(s)
  PROVE  Session(start_deregistration(s))
<1> DEFINE n == new_state(s, "DEREG")
           u == purge_cmdq(n)
           v == new_cmd(u, "PING")
           t == new_cmd(v, "DSRV")
<1>1. n \in Lib /\ n.libstate = "DEREG" /\ Settled(n, s)
  BY NewState, NewStateSettles DEF LibStates
<1> HIDE DEF n
<1>2. u \in Lib /\ u.libstate = "DEREG" /\ Settled(u, n) /\ u.cmdq = << >>
  BY <1>1, Purge, PurgeSettles DEF Keeps
<1> HIDE DEF u
<1>3. QueueFits(u.cmdq, "DEREG") /\ \A i \in 1 .. Len(u.cmdq) : u.cmdq[i] # "DSRV"
  BY <1>2, FitsEmpty
<1>4. v \in Lib /\ v.libstate = "DEREG" /\ Follows(v, u)
      /\ QueueFits(v.cmdq, "DEREG")
  <2>1. "PING" \in Commands /\ "PING" \in MayQueue("DEREG")
        /\ Closing("DEREG") = "DSRV"
    BY DEF Commands, MayQueue, Closing
  <2> QED
    BY <1>2, <1>3, <2>1, NewCmd, NewCmdFollows, NewCmdFits DEF Keeps, Queued
<1> HIDE DEF v
<1>5. t \in Lib /\ t.libstate = "DEREG" /\ Follows(t, v)
      /\ QueueFits(t.cmdq, "DEREG")
  <2>1. "DSRV" \in Commands /\ "DSRV" \in MayQueue("DEREG")
        /\ Closing("DEREG") = "DSRV"
    BY DEF Commands, MayQueue, Closing
  <2> QED
    BY <1>4, <2>1, NewCmd, NewCmdFollows, NewCmdFits DEF Keeps, Queued
<1>6. start_deregistration(s) = t
  BY DEF start_deregistration, n, u, v
<1> HIDE DEF t
<1>7. t.target # "RUN" /\ t.liberr # "TOKENS_CHANGE" /\ ~Announced(t)
  BY <1>1, <1>2, <1>4, <1>5 DEF Follows, Settled
<1> QED
  BY <1>5, <1>6, <1>7 DEF Session, AfterReboot

(* The entry into READTOK, from where the status has been read.            *)
LEMMA TokensSession ==
  ASSUME NEW s \in Lib, s.target # "RUN", ~Announced(s), s.rebootDone,
         s.liberr = "TOKENS_CHANGE" => s.target = "RUNWAIT" /\ s.sockets /\ ~s.terminate,
         ~s.sockets => s.target # "RUNWAIT",
         QueueFits(s.cmdq, "READTOK")
  PROVE  Session(cfg_start(s))
<1> DEFINE n == new_state(s, "READTOK")
           t == new_cmd(n, "RQMEM")
<1>1. n \in Lib /\ n.libstate = "READTOK" /\ Settled(n, s) /\ n.cmdq = s.cmdq
  BY NewState, NewStateSettles DEF LibStates
<1> HIDE DEF n
<1>2. "RQMEM" \in Commands /\ "RQMEM" \in MayQueue("READTOK")
      /\ Closing("READTOK") = "none" /\ "none" \notin MayQueue("READTOK")
      /\ "RQFGLS" \notin MayQueue("READTOK")
  BY DEF Commands, MayQueue, Closing
<1>3. t \in Lib /\ t.libstate = "READTOK" /\ Follows(t, n)
  BY <1>1, <1>2, NewCmd, NewCmdFollows DEF Keeps, Queued
<1>4. QueueFits(t.cmdq, "READTOK")
  <2>1. \A i \in 1 .. Len(n.cmdq) : n.cmdq[i] # Closing("READTOK")
    BY <1>1, <1>2 DEF QueueFits
  <2> QED
    BY <1>1, <1>2, <2>1, NewCmdFits
<1>5. cfg_start(s) = t
  BY DEF cfg_start, n
<1> HIDE DEF t
<1>6. \A i \in 1 .. Len(t.cmdq) : t.cmdq[i] # "RQFGLS"
  BY <1>2, <1>4 DEF QueueFits
<1>7. CASE Settled(t, n)
  BY <1>1, <1>3, <1>4, <1>5, <1>6, <1>7 DEF Settled, Session, AfterReboot
<1>8. CASE ~Settled(t, n)
  BY <1>1, <1>3, <1>4, <1>5, <1>6, <1>8 DEF Follows, Settled, Session, AfterReboot
<1> QED
  BY <1>7, <1>8

(* The entry into REG, with the sockets just opened.                       *)
LEMMA RegSession ==
  ASSUME NEW s \in Lib, s.target # "RUN", s.liberr # "TOKENS_CHANGE",
         ~Announced(s), s.sockets
  PROVE  Session(lib_continue_registration(s))
<1> DEFINE n == new_state(s, "REG")
           e == [n EXCEPT !.registered = FALSE, !.cmdq = << >>]
           t == new_cmd(e, "RQSRV")
<1>1. n \in Lib /\ n.libstate = "REG" /\ Settled(n, s)
  BY NewState, NewStateSettles DEF LibStates
<1>2. lib_continue_registration(s) = t
  BY DEF lib_continue_registration
<1> HIDE DEF n
<1>3. e \in Lib /\ e.libstate = "REG" /\ Settled(e, s) /\ e.cmdq = << >>
  BY <1>1, EmptyQueue DEF Lib, Settled, Announced
<1> HIDE DEF e
<1>4. "RQSRV" \in Commands /\ "RQSRV" \in MayQueue("REG") /\ Closing("REG") = "SRVRSP"
  BY DEF Commands, MayQueue, Closing
<1>5. t \in Lib /\ t.libstate = "REG" /\ Follows(t, e)
  BY <1>3, <1>4, NewCmd, NewCmdFollows DEF Keeps, Queued
<1>6. QueueFits(t.cmdq, "REG")
  BY <1>3, <1>4, NewCmdFits, FitsEmpty
<1> HIDE DEF t
<1> QED
  BY <1>2, <1>3, <1>5, <1>6 DEF Session, Follows, Settled, AfterReboot

(* The entry into READCFG, with the queue of REG at its end.               *)
LEMMA RebootSession ==
  ASSUME NEW s \in Lib, s.target # "RUN", s.liberr # "TOKENS_CHANGE",
         ~Announced(s), s.sockets, s.cmdq = << >>
  PROVE  Session(lib330_reboot(s))
<1> DEFINE n == new_state(s, "READCFG")
           e == [n EXCEPT !.rebootDone = FALSE]
           f == new_cmd(e, "RQFGLS")
           g == new_cmd(f, "RQGID")
           t == new_cmd(g, "RQSTAT")
           Before(x) == \A i \in 1 .. Len(x.cmdq) : x.cmdq[i] # "RQSTAT"
           Here(x) == /\ x \in Lib /\ x.libstate = "READCFG"
                      /\ QueueFits(x.cmdq, "READCFG")
                      /\ x.target # "RUN" /\ x.liberr # "TOKENS_CHANGE"
                      /\ ~Announced(x)
                      /\ x.sockets \/ x.target # "RUNWAIT"
<1>1. n \in Lib /\ n.libstate = "READCFG" /\ Settled(n, s) /\ n.cmdq = s.cmdq
  BY NewState, NewStateSettles DEF LibStates
<1>2. lib330_reboot(s) = t
  BY DEF lib330_reboot
<1> HIDE DEF n
<1>3. Here(e) /\ Before(e)
  <2>1. /\ e \in Lib /\ e.libstate = "READCFG" /\ e.cmdq = << >>
        /\ e.target = n.target /\ e.liberr = n.liberr /\ e.sockets = n.sockets
        /\ e.calls = n.calls
    BY <1>1 DEF Lib
  <2> HIDE DEF e
  <2>2. Here(e)
    BY <1>1, <2>1, FitsEmpty DEF Settled, Announced
  <2> QED
    BY <2>1, <2>2
<1> HIDE DEF e
<1>4. /\ "RQFGLS" \in Commands /\ "RQGID" \in Commands /\ "RQSTAT" \in Commands
      /\ MayQueue("READCFG") = {"RQFGLS", "RQGID", "RQSTAT"}
      /\ Closing("READCFG") = "RQSTAT"
  BY DEF Commands, MayQueue, Closing
<1>5. ASSUME NEW x, Here(x), Before(x), NEW cmd \in {"RQFGLS", "RQGID", "RQSTAT"}
      PROVE  Here(new_cmd(x, cmd)) /\ (cmd # "RQSTAT" => Before(new_cmd(x, cmd)))
  <2> DEFINE y == new_cmd(x, cmd)
  <2>1. /\ Follows(y, x) /\ y \in Lib /\ y.libstate = x.libstate
        /\ y.cmdq \in {x.cmdq, << >>} \/ y.cmdq = Append(x.cmdq, cmd)
    <3>1. x \in Lib /\ cmd \in Commands
      BY <1>4, <1>5
    <3> QED
      BY <3>1, NewCmd, NewCmdFollows DEF Keeps, Queued
  <2>2. QueueFits(y.cmdq, "READCFG")
    BY <1>4, <1>5, NewCmdFits
  <2> HIDE DEF y
  <2>3. Here(y)
    BY <1>5, <2>1, <2>2 DEF Follows, Settled
  <2>4. ASSUME cmd # "RQSTAT" PROVE Before(y)
    <3>1. x.cmdq \in Seq(Commands)
      BY <1>5 DEF Lib
    <3>2. \A i \in 1 .. Len(Append(x.cmdq, cmd)) :
            \/ Append(x.cmdq, cmd)[i] = cmd
            \/ i \in 1 .. Len(x.cmdq) /\ Append(x.cmdq, cmd)[i] = x.cmdq[i]
      BY <1>4, <3>1
    <3> QED
      BY <1>5, <2>1, <2>4, <3>2, SMTT(30)
  <2> QED
    BY <2>3, <2>4 DEF y
<1> HIDE DEF Here, Before
<1>6. Here(f) /\ Before(f)
  BY <1>3, <1>5
<1> HIDE DEF f
<1>7. Here(g) /\ Before(g)
  BY <1>5, <1>6
<1> HIDE DEF g
<1>8. Here(t)
  BY <1>5, <1>7
<1> HIDE DEF t
<1> QED
  BY <1>2, <1>8 DEF Here, Session, AfterReboot

(* The entry into DEALLOC, with the reason that gave rise to it.           *)
LEMMA DeallocSession ==
  ASSUME NEW s \in Lib, Session(s), s.libstate \in {"RUNWAIT", "RUN"},
         s.target = "RUN" => s.liberr = "GONE", ~Announced(s),
         NEW back \in {"dealloc", "deallocIo"}
  PROVE  LET t == BeginDeallocation(s, back) IN
         t \in Lib /\ Session(t) /\ Placed(t) /\ t.libstate = "DEALLOC"
<1> DEFINE n == new_state(s, "DEALLOC")
           t == BeginDeallocation(s, back)
<1>1. n \in Lib /\ n.libstate = "DEALLOC" /\ Settled(n, s) /\ n.cmdq = s.cmdq
  BY NewState, NewStateSettles DEF LibStates
<1>2. t = [n EXCEPT !.pc = back]
  BY DEF BeginDeallocation
<1> HIDE DEF n
<1>3. /\ t \in Lib /\ t.libstate = "DEALLOC" /\ Settled(t, s) /\ t.cmdq = s.cmdq
      /\ t.pc = back
  <2>1. /\ t \in Lib /\ t.libstate = n.libstate /\ t.cmdq = n.cmdq /\ t.pc = back
        /\ t.target = n.target /\ t.liberr = n.liberr /\ t.sockets = n.sockets
        /\ t.rebootDone = n.rebootDone /\ t.terminate = n.terminate
        /\ t.calls = n.calls
    BY <1>1, <1>2 DEF Lib, ProgramPoints
  <2> HIDE DEF t
  <2> QED
    BY <1>1, <2>1 DEF Settled, Announced
<1> HIDE DEF t
<1>4. QueueFits(t.cmdq, "DEALLOC")
  <2>1. MayQueue("DEALLOC") = MayQueue(s.libstate)
        /\ Closing("DEALLOC") = Closing(s.libstate) /\ s.libstate \in OnLine
    BY DEF MayQueue, Closing, OnLine, LibStates
  <2> QED
    BY <1>3, <2>1 DEF Session, QueueFits
<1> QED
  BY <1>3, <1>4 DEF Session, Settled, Placed, AfterReboot, t

(* The end of a deallocation.                                              *)
LEMMA EndDeallocSession ==
  ASSUME NEW s \in Lib, Session(s), s.libstate = "DEALLOC"
  PROVE  Session(EndDeallocation(s))
<1>1. ~Announced(s) /\ (s.target = "RUN" => s.liberr = "GONE")
      /\ QueueFits(s.cmdq, "DEALLOC") /\ (s.sockets => s.rebootDone)
  BY DEF Session, OnLine, LibStates, AfterReboot
<1>2. CASE s.liberr = "TOKENS_CHANGE"
  <2>1. QueueFits(s.cmdq, "READTOK")
    BY <1>1 DEF QueueFits, MayQueue, Closing
  <2>2. s.target = "RUNWAIT" /\ s.sockets /\ ~s.terminate
    BY <1>2 DEF Session
  <2>3. Session(cfg_start(s))
    BY <1>1, <2>1, <2>2, TokensSession
  <2> QED
    BY <1>2, <2>3 DEF EndDeallocation
<1>3. CASE s.liberr = "GONE"
  <2> DEFINE n == new_state(s, "WAIT")
             t == [n EXCEPT !.registered = FALSE, !.sockets = FALSE]
  <2>1. n \in Lib /\ n.libstate = "WAIT" /\ Settled(n, s)
    BY NewState, NewStateSettles DEF LibStates
  <2>2. EndDeallocation(s) = t
    BY <1>3 DEF EndDeallocation, close_sockets
  <2> HIDE DEF n
  <2>3. t.libstate = "WAIT" /\ t.liberr = "GONE" /\ ~Announced(t)
    BY <1>1, <1>3, <2>1 DEF Lib, Settled, Announced
  <2> HIDE DEF t
  <2> QED
    BY <2>2, <2>3 DEF Session, AfterReboot, OnLine
<1>4. CASE s.liberr \notin {"TOKENS_CHANGE", "GONE"}
  BY <1>1, <1>4, DeregSession DEF EndDeallocation
<1> QED
  BY <1>2, <1>3, <1>4

-----------------------------------------------------------------------------
(* The actions keep the order.                                             *)

(* A step that makes a context in order keeps the invariant.               *)
LEMMA OrderMade ==
  ASSUME StationInv, OrderInv, NEW c \in Contexts, NEW t, Step(c, t),
         Session(t), Placed(t), InOrder(t, lib[c])
  PROVE  OrderInv' /\ AllInOrder
<1>1. lib' = [lib EXCEPT ![c] = t] /\ lib \in [Contexts -> Lib]
  BY DEF Step, StationInv, TypeOK
<1> SUFFICES ASSUME NEW d \in Contexts
             PROVE  Session(lib'[d]) /\ Placed(lib'[d]) /\ InOrder(lib'[d], lib[d])
  BY Zenon DEF OrderInv, AllInOrder, Session, Placed, Announced
<1>2. CASE d = c
  BY <1>1, <1>2
<1>3. CASE d # c
  BY <1>1, <1>3 DEF OrderInv, InOrder
<1> QED
  BY <1>2, <1>3

(* What the invariants say of one context.                                 *)
LEMMA OneOrdered ==
  ASSUME StationInv, OrderInv, NEW c \in Contexts
  PROVE  lib[c] \in Lib /\ Session(lib[c]) /\ Placed(lib[c])
BY DEF StationInv, Consistent, OrderInv

(* Where the thread is says nothing of the session.                        *)
LEMMA SessionPc ==
  ASSUME NEW s \in Lib, NEW p
  PROVE  LET t == [s EXCEPT !.pc = p] IN
         /\ Session(s) => Session(t)
         /\ t.libstate = s.libstate /\ t.target = s.target /\ t.pc = p
<1> DEFINE t == [s EXCEPT !.pc = p]
<1>1. /\ t.libstate = s.libstate /\ t.target = s.target /\ t.liberr = s.liberr
      /\ t.sockets = s.sockets /\ t.rebootDone = s.rebootDone /\ t.pc = p
      /\ t.terminate = s.terminate /\ t.cmdq = s.cmdq /\ t.calls = s.calls
  BY DEF Lib
<1> HIDE DEF t
<1> QED
  BY <1>1 DEF Session, Announced, t

\* The thread goes on to a point of its loop that says nothing of the state.
LEMMA GoesOn ==
  ASSUME StationInv, OrderInv, NEW c \in Contexts, NEW t \in Lib,
         NEW p \in {"loop", "rest", "second", "exited"},
         Session(t), t.libstate # "DEALLOC", InOrder(t, lib[c]),
         Step(c, [t EXCEPT !.pc = p])
  PROVE  OrderInv' /\ AllInOrder
<1> DEFINE u == [t EXCEPT !.pc = p]
<1>1. Session(u) /\ u.libstate = t.libstate /\ u.pc = p
  BY SessionPc
<1>2. Step(c, u)
  OBVIOUS
<1> HIDE DEF u
<1>3. Placed(u) /\ InOrder(u, lib[c])
  BY <1>1 DEF Placed, InOrder
<1> QED
  BY <1>1, <1>2, <1>3, OrderMade

\* Where a context stays as it is, but for where the thread is.
LEMMA StaysPut ==
  ASSUME StationInv, OrderInv, NEW c \in Contexts, lib[c].libstate # "DEALLOC",
         NEW p \in {"loop", "rest", "second", "exited"},
         Step(c, [lib[c] EXCEPT !.pc = p])
  PROVE  OrderInv' /\ AllInOrder
BY OneOrdered, GoesOn DEF InOrder

(* The client.                                                             *)
LEMMA ClientOrder ==
  ASSUME StationInv, OrderInv, NEW c \in Contexts, Client(c)
  PROVE  OrderInv' /\ AllInOrder
<1> DEFINE s == lib[c]
<1>1. s \in Lib /\ Session(s) /\ Placed(s)
  BY OneOrdered
<1>2. CASE lib_create_context(c)
  <2>1. Session(Created) /\ Placed(Created) /\ InOrder(Created, s)
    BY DEF Created, NoContext, Session, Placed, InOrder, Announced, OnLine, AfterReboot
  <2> QED
    BY <1>2, <2>1, OrderMade DEF lib_create_context
<1>3. CASE /\ s.libstate = "IDLE" /\ s.target = "IDLE" /\ s.pc \in {"loop", "rest"}
           /\ lib_register(c)
  <2> DEFINE t == Registering(s)
  <2>1. /\ t.libstate = "IDLE" /\ t.target = "RUNWAIT" /\ t.liberr = s.liberr
        /\ t.calls = s.calls /\ t.pc = s.pc
    BY <1>1, <1>3 DEF Registering, Lib
  <2>2. Step(c, t)
    BY <1>3 DEF lib_register
  <2> HIDE DEF t
  <2>3. Session(t) /\ Placed(t) /\ InOrder(t, s)
    BY <1>1, <1>3, <2>1 DEF Session, Placed, InOrder, Announced, OnLine, AfterReboot
  <2> QED
    BY <2>2, <2>3, OrderMade
<1>4. ASSUME NEW newstate \in {"IDLE", "TERM", "RUN"}, ClientRequests(c, newstate),
             newstate = "RUN" => Announced(s)
      PROVE  OrderInv' /\ AllInOrder
  <2> DEFINE t == lib_change_state(s, newstate, "OTHER")
  <2>1. /\ t.libstate = s.libstate /\ t.target = newstate /\ t.liberr = "OTHER"
        /\ t.calls = s.calls /\ t.pc = s.pc /\ t.sockets = s.sockets
        /\ t.rebootDone = s.rebootDone /\ t.cmdq = s.cmdq
    BY <1>1 DEF lib_change_state, Lib
  <2>2. Step(c, t)
    BY <1>4 DEF ClientRequests
  <2> HIDE DEF t
  <2>3. Announced(t) <=> Announced(s)
    BY <2>1 DEF Announced
  <2>4. newstate = "RUN" => s.libstate = "RUNWAIT" /\ s.pc # "apply"
    <3>1. s.pc = "apply" => s.libstate \in {"IDLE", "WAIT", "REG"}
      BY DEF StationInv, Consistent
    <3> QED
      BY <1>1, <1>4, <3>1 DEF Session
  <2>5. Session(t) /\ Placed(t) /\ InOrder(t, s)
    BY <1>1, <2>1, <2>3, <2>4 DEF Session, Placed, InOrder
  <2> QED
    BY <2>2, <2>5, OrderMade
<1>5. CASE CallbackReturns(c)
  <2> DEFINE t == [s EXCEPT !.calls = Tail(@)]
  <2>1. s.calls # << >> /\ s.calls \in Seq(Notices) /\ Step(c, t)
    BY <1>1, <1>5 DEF CallbackReturns, Lib
  <2>2. \A i \in 1 .. Len(Tail(s.calls)) :
          i + 1 \in 1 .. Len(s.calls) /\ Tail(s.calls)[i] = s.calls[i + 1]
    BY <2>1
  <2>3. /\ t.libstate = s.libstate /\ t.target = s.target /\ t.liberr = s.liberr
        /\ t.pc = s.pc /\ t.sockets = s.sockets /\ t.terminate = s.terminate
        /\ t.rebootDone = s.rebootDone /\ t.cmdq = s.cmdq /\ t.calls = Tail(s.calls)
    BY <1>1 DEF Lib
  <2> HIDE DEF t
  <2>4. Announced(t) => Announced(s)
    BY <2>2, <2>3 DEF Announced
  <2>5. Session(t) /\ Placed(t) /\ InOrder(t, s)
    BY <1>1, <2>3, <2>4 DEF Session, Placed, InOrder
  <2> QED
    BY <2>1, <2>5, OrderMade
<1>6. s.calls # << >> /\ Head(s.calls) = "RUNWAIT" => Announced(s)
  <2>1. s.calls \in Seq(Notices)
    BY <1>1 DEF Lib
  <2>2. s.calls # << >> => 1 \in 1 .. Len(s.calls) /\ Head(s.calls) = s.calls[1]
    BY <2>1
  <2> QED
    BY <2>2 DEF Announced
<1> QED
  BY <1>2, <1>3, <1>4, <1>5, <1>6 DEF Client

(* What a handler does between its look at the state and its end keeps the  *)
(* session: callbacks, the end of a command, giving up, sending, queueing.  *)
Within(t, s) ==
  /\ Queued(t) /\ Session(t)
  /\ t.libstate = s.libstate /\ t.pc = s.pc

LEMMA WithinCallback ==
  ASSUME NEW s, Queued(s), Session(s), NEW notice \in Notices \ {"RUNWAIT"}
  PROVE  Within(state_callback(s, notice), s)
<1> DEFINE t == state_callback(s, notice)
<1>1. /\ s \in Lib /\ Queued(t) /\ t \in Lib /\ t.libstate = s.libstate /\ t.pc = s.pc
      /\ Settled(t, s) /\ t.cmdq = s.cmdq
  BY StateCallback, CallbackSettles DEF Queued, Keeps
<1>2. Session(t)
  BY <1>1, SessionFollows DEF Session, Follows
<1> QED
  BY <1>1, <1>2 DEF Within

LEMMA WithinClear ==
  ASSUME NEW s, Queued(s), Session(s), s.cmdq # << >>
  PROVE  LET t == clear_cmsg(s) IN
         Within(t, s) /\ Settled(t, s) /\ t.cmdq = Tail(s.cmdq)
<1> DEFINE t == clear_cmsg(s)
           q == s.cmdq
<1>1. /\ s \in Lib /\ Queued(t) /\ t \in Lib /\ t.libstate = s.libstate /\ t.pc = s.pc
      /\ Settled(t, s) /\ t.cmdq = Tail(q) /\ q \in Seq(Commands)
  BY ClearCmsg, ClearSettles DEF Queued, Keeps, Lib
<1> HIDE DEF t
<1>2. \A i \in 1 .. Len(Tail(q)) : i + 1 \in 1 .. Len(q) /\ Tail(q)[i] = q[i + 1]
  BY <1>1
<1>3. s.libstate \in OnLine => QueueFits(t.cmdq, s.libstate)
  BY <1>1, FitsTail DEF Session
<1>4. s.liberr = "TOKENS_CHANGE" => \A i \in 1 .. Len(t.cmdq) : t.cmdq[i] # "RQFGLS"
  BY <1>1, <1>2 DEF Session
<1>5. Session(t)
  BY <1>1, <1>3, <1>4, SessionFollows DEF Follows
<1> QED
  BY <1>1, <1>5 DEF Within, t

LEMMA WithinGiveUp ==
  ASSUME NEW s, Queued(s), Session(s), NEW reason \in {"GONE", "OTHER"}
  PROVE  Within(GiveUp(s, reason), s)
<1> DEFINE t == GiveUp(s, reason)
<1>1. /\ s \in Lib /\ Queued(t) /\ t \in Lib /\ t.libstate = s.libstate /\ t.pc = s.pc
      /\ Follows(t, s) /\ t.cmdq = << >>
  BY GiveUpEmpties, GiveUpFollows DEF Queued, Keeps, LibErrs
<1>2. Session(t)
  BY <1>1, FitsEmpty, SessionFollows
<1> QED
  BY <1>1, <1>2 DEF Within

LEMMA WithinSend ==
  ASSUME NEW s, Queued(s), Session(s)
  PROVE  Within(lib_send_next_cmd(s), s)
<1> DEFINE t == lib_send_next_cmd(s)
<1>1. /\ s \in Lib /\ Queued(t) /\ t \in Lib /\ t.libstate = s.libstate /\ t.pc = s.pc
      /\ Follows(t, s) /\ t.cmdq \in {s.cmdq, << >>}
  BY SendNext, SendFollows DEF Queued, Keeps
<1>2. Session(t)
  BY <1>1, FitsEmpty, SessionFollows DEF Session
<1> QED
  BY <1>1, <1>2 DEF Within

LEMMA WithinNewCmd ==
  ASSUME NEW s, Queued(s), Session(s), s.libstate \in OnLine,
         NEW cmd \in Commands \ {"RQFGLS"}, cmd \in MayQueue(s.libstate),
         \/ cmd = Closing(s.libstate)
         \/ Closing(s.libstate) = "none"
         \/ s.cmdq = << >>
  PROVE  Within(new_cmd(s, cmd), s)
<1> DEFINE t == new_cmd(s, cmd)
           q == s.cmdq
<1>1. /\ s \in Lib /\ Queued(t) /\ t \in Lib /\ t.libstate = s.libstate /\ t.pc = s.pc
      /\ Follows(t, s) /\ q \in Seq(Commands)
      /\ t.cmdq \in {q, << >>} \/ t.cmdq = Append(q, cmd)
  BY NewCmd, NewCmdFollows DEF Queued, Keeps, Lib
<1>2. QueueFits(q, s.libstate)
  BY DEF Session
<1>3. Closing(s.libstate) = "none" => \A i \in 1 .. Len(q) : q[i] # Closing(s.libstate)
  BY <1>2 DEF QueueFits, MayQueue
<1>4. QueueFits(t.cmdq, s.libstate)
  BY <1>1, <1>2, <1>3, NewCmdFits
<1> HIDE DEF t
<1>5. s.liberr = "TOKENS_CHANGE" => \A i \in 1 .. Len(t.cmdq) : t.cmdq[i] # "RQFGLS"
  <2>1. \A i \in 1 .. Len(Append(q, cmd)) :
          \/ Append(q, cmd)[i] = cmd
          \/ i \in 1 .. Len(q) /\ Append(q, cmd)[i] = q[i]
    BY <1>1, SMTT(30)
  <2> QED
    BY <1>1, <2>1 DEF Session
<1>6. Session(t)
  BY <1>1, <1>4, <1>5, SessionFollows
<1> QED
  BY <1>1, <1>6 DEF Within, t

\* A field that Session does not look at.
LEMMA WithinOther ==
  ASSUME NEW s, Queued(s), Session(s), NEW t, Queued(t),
         t.libstate = s.libstate, t.pc = s.pc, t.target = s.target,
         t.liberr = s.liberr, t.sockets = s.sockets, t.rebootDone = s.rebootDone,
         t.terminate = s.terminate, t.cmdq = s.cmdq, t.calls = s.calls
  PROVE  Within(t, s)
BY DEF Within, Session, Announced

\* A context at rest, with its session at an end.
LEMMA ParkedSession ==
  ASSUME NEW t, t.libstate \in {"IDLE", "WAIT", "TERM"}, ~Announced(t),
         t.liberr # "TOKENS_CHANGE", t.target = "RUN" => t.libstate # "IDLE"
  PROVE  Session(t)
BY DEF Session, AfterReboot, OnLine

LEMMA NewStateFields ==
  ASSUME NEW s \in Lib, NEW st \in LibStates
  PROVE  LET t == new_state(s, st) IN
         /\ t \in Lib /\ t.libstate = st /\ t.pc = s.pc
         /\ t.target = s.target /\ t.liberr = s.liberr /\ t.sockets = s.sockets
         /\ t.rebootDone = s.rebootDone /\ t.terminate = s.terminate
         /\ t.cmdq = s.cmdq
BY NewState DEF new_state, state_callback, Lib

\* Out of DEREG: into the state the target names, with the sockets closed.
LEMMA LeaveDereg ==
  ASSUME NEW s \in Lib, s.target # "RUN", s.liberr # "TOKENS_CHANGE",
         ~Announced(s), s.cmdq = << >>,
         NEW t, t = [new_state(s, s.target) EXCEPT !.registered = FALSE,
                                                   !.sockets = FALSE]
  PROVE  t \in Lib /\ Session(t) /\ t.libstate = s.target /\ t.pc = s.pc
<1> DEFINE n == new_state(s, s.target)
<1>1. s.target \in LibStates /\ s.target \in Targets
  BY DEF Lib, Targets, LibStates
<1>2. /\ n \in Lib /\ n.libstate = s.target /\ n.target = s.target
      /\ n.liberr = s.liberr /\ n.cmdq = << >> /\ n.pc = s.pc
  BY <1>1, NewStateFields
<1>3. s.target # "RUNWAIT" => ~Announced(n)
  BY <1>1, NewStateSettles DEF Settled
<1> HIDE DEF n
<1>4. /\ t \in Lib /\ t.libstate = s.target /\ t.target = s.target /\ ~t.sockets
      /\ t.liberr = s.liberr /\ t.cmdq = << >> /\ t.pc = s.pc /\ t.calls = n.calls
  BY <1>2 DEF n, Lib
<1> QED
  BY <1>1, <1>3, <1>4, FitsEmpty DEF Session, Announced, Targets, AfterReboot

(* The first part of the timer, and the end of the thread.                 *)
LEMMA TargetOrder ==
  ASSUME StationInv, OrderInv, NEW c \in Contexts,
         \/ TimerNoChange(c) \/ TimerStopEarly(c) \/ TimerApply(c)
         \/ TimerDeregister(c) \/ TimerDeallocate(c) \/ Deallocate(c)
         \/ TimerRegister(c) \/ TimerDecode(c) \/ decode_cfg(c)
         \/ TimerRun(c) \/ TimerTerminate(c) \/ ThreadExits(c)
  PROVE  OrderInv' /\ AllInOrder
<1> DEFINE s == lib[c]
<1>1. /\ s \in Lib /\ Session(s) /\ Placed(s) /\ Queued(s)
      /\ s.pc = "apply" => s.libstate \in {"IDLE", "WAIT", "REG"}
  BY OneOrdered, One DEF Parked
<1>2. s.calls = << >>
  BY DEF TimerNoChange, TimerStopEarly, TimerApply, TimerDeregister, TimerDeallocate,
         Deallocate, TimerRegister, TimerDecode, decode_cfg, TimerRun, TimerTerminate,
         ThreadExits, AtLoop, At
<1>3. ~Announced(s)
  BY <1>2 DEF Announced
<1>4. CASE TimerNoChange(c)
  BY <1>1, <1>4, StaysPut DEF TimerNoChange, AtLoop, At, Placed
<1>5. CASE TimerStopEarly(c)
  <2> DEFINE t == [s EXCEPT !.pc = "apply"]
             u == [close_sockets(s) EXCEPT !.pc = "apply"]
  <2>1. s.target \in {"WAIT", "IDLE"} /\ s.libstate \in {"IDLE", "WAIT", "REG"}
    BY <1>5 DEF TimerStopEarly
  <2>2. Step(c, t) \/ Step(c, u)
    BY <1>5 DEF TimerStopEarly
  <2>3. ASSUME NEW w \in {t, u}, Step(c, w) PROVE OrderInv' /\ AllInOrder
    <3>1. /\ w.libstate = s.libstate /\ w.target = s.target /\ w.pc = "apply"
          /\ w.liberr = s.liberr /\ w.rebootDone = s.rebootDone /\ w.cmdq = s.cmdq
          /\ w.calls = s.calls
      BY <1>1 DEF close_sockets, Lib
    <3>2. Session(w) /\ Placed(w) /\ InOrder(w, s)
      BY <1>1, <1>2, <2>1, <3>1 DEF Session, Placed, InOrder, Announced, AfterReboot
    <3> QED
      BY <2>3, <3>2, OrderMade
  <2> QED
    BY <2>2, <2>3
<1>6. CASE TimerApply(c)
  <2> DEFINE n == new_state(s, s.target)
  <2>1. /\ s.target \in {"IDLE", "WAIT", "TERM"} /\ s.libstate \in {"IDLE", "WAIT", "REG"}
        /\ Step(c, [n EXCEPT !.pc = "rest"])
    BY <1>1, <1>6 DEF TimerApply, At, Placed
  <2>2. /\ n \in Lib /\ n.libstate = s.target /\ n.target = s.target
        /\ n.liberr = s.liberr /\ Settled(n, s)
    BY <1>1, <2>1, NewStateFields, NewStateSettles DEF LibStates
  <2> HIDE DEF n
  <2>3. s.liberr # "TOKENS_CHANGE" /\ ~Announced(n)
    BY <1>1, <1>3, <2>1, <2>2 DEF Session, Settled, AfterReboot
  <2>4. Session(n)
    BY <2>1, <2>2, <2>3, ParkedSession
  <2> QED
    BY <2>1, <2>2, <2>4, GoesOn DEF InOrder
<1>7. CASE TimerDeregister(c)
  <2> DEFINE t == start_deregistration(s)
  <2>1. s.target \in {"WAIT", "IDLE"} /\ Step(c, [t EXCEPT !.pc = "rest"])
    BY <1>7 DEF TimerDeregister
  <2>2. s.target # "RUN" /\ s.liberr # "TOKENS_CHANGE"
    BY <1>1, <2>1 DEF Session
  <2>3. Session(t) /\ t \in Lib /\ t.libstate = "DEREG"
    BY <1>1, <1>3, <2>2, DeregSession, StartDeregistration DEF Queued
  <2> HIDE DEF t
  <2> QED
    BY <2>1, <2>3, GoesOn DEF InOrder
<1>8. CASE TimerDeallocate(c)
  <2> DEFINE t == BeginDeallocation(s, "dealloc")
  <2>1. /\ s.libstate \in {"RUNWAIT", "RUN"} /\ s.target # "RUN" /\ Step(c, t)
    BY <1>8 DEF TimerDeallocate
  <2>2. t \in Lib /\ Session(t) /\ Placed(t) /\ t.libstate = "DEALLOC"
    BY <1>1, <1>3, <2>1, DeallocSession
  <2> HIDE DEF t
  <2> QED
    BY <2>1, <2>2, OrderMade DEF InOrder
<1>9. CASE Deallocate(c)
  <2> DEFINE t == EndDeallocation(s)
  <2>1. s.libstate = "DEALLOC"
    BY <1>1, <1>9 DEF Deallocate, At, Placed
  <2>2. Step(c, [t EXCEPT !.pc = "rest"]) \/ Step(c, [t EXCEPT !.pc = "loop"])
    BY <1>9 DEF Deallocate
  <2>3. Session(t) /\ t \in Lib /\ t.libstate \in {"READTOK", "DEREG", "WAIT"}
    BY <1>1, <2>1, EndDeallocSession, EndDealloc DEF Queued
  <2> HIDE DEF t
  <2> QED
    BY <2>2, <2>3, GoesOn DEF InOrder
<1>10. CASE TimerRegister(c)
  <2> DEFINE e == [s EXCEPT !.sockets = TRUE]
             t == lib_continue_registration(e)
  <2>1. /\ s.target = "RUNWAIT" /\ s.libstate \in {"IDLE", "WAIT"}
        /\ \/ Step(c, [t EXCEPT !.pc = "rest"])
           \/ \E open \in BOOLEAN :
                Step(c, [lib_change_state(s, "WAIT", "OTHER")
                           EXCEPT !.sockets = open, !.registered = FALSE,
                                  !.pc = "rest"])
    BY <1>10 DEF TimerRegister
  <2>2. s.liberr # "TOKENS_CHANGE"
    BY <1>1, <2>1 DEF Session, AfterReboot
  <2>3. CASE Step(c, [t EXCEPT !.pc = "rest"])
    <3>1. /\ e \in Lib /\ e.target = s.target /\ e.liberr = s.liberr /\ e.sockets
          /\ e.calls = s.calls
      BY <1>1 DEF Lib
    <3> HIDE DEF e
    <3>2. ~Announced(e)
      BY <1>3, <3>1 DEF Announced
    <3>3. Session(t) /\ t \in Lib /\ t.libstate = "REG"
      BY <2>1, <2>2, <3>1, <3>2, RegSession, ContinueRegistration DEF Queued
    <3> HIDE DEF t
    <3> QED
      BY <2>3, <3>3, GoesOn DEF InOrder
  <2>4. ASSUME NEW open \in BOOLEAN,
               Step(c, [lib_change_state(s, "WAIT", "OTHER")
                          EXCEPT !.sockets = open, !.registered = FALSE,
                                 !.pc = "rest"])
        PROVE  OrderInv' /\ AllInOrder
    <3> DEFINE w == [lib_change_state(s, "WAIT", "OTHER")
                       EXCEPT !.sockets = open, !.registered = FALSE]
    <3>1. /\ w \in Lib /\ w.libstate = s.libstate /\ w.target = "WAIT"
          /\ w.liberr = "OTHER" /\ w.calls = s.calls
      BY <1>1 DEF lib_change_state, Lib, Targets, LibErrs
    <3>2. Step(c, [w EXCEPT !.pc = "rest"])
      BY <2>4
    <3> HIDE DEF w
    <3>3. ~Announced(w)
      BY <1>3, <3>1 DEF Announced
    <3>4. w.libstate \in {"IDLE", "WAIT"} /\ w.liberr # "TOKENS_CHANGE"
      BY <2>1, <3>1
    <3>5. Session(w)
      BY <3>1, <3>3, <3>4, ParkedSession
    <3> QED
      BY <3>1, <3>2, <3>4, <3>5, GoesOn DEF InOrder
  <2> QED
    BY <2>1, <2>3, <2>4
<1>11. CASE TimerDecode(c)
  <2> DEFINE t == [s EXCEPT !.pc = "decode"]
  <2>1. s.libstate = "DECTOK" /\ Step(c, t)
    BY <1>11 DEF TimerDecode
  <2>2. Session(t) /\ t.libstate = "DECTOK" /\ t.pc = "decode"
    BY <1>1, <2>1, SessionPc
  <2> HIDE DEF t
  <2> QED
    BY <2>1, <2>2, OrderMade DEF Placed, InOrder
<1>12. ASSUME NEW st \in {"RUNWAIT", "RUN"}, Step(c, [new_state(s, st) EXCEPT !.pc = "rest"]),
              \/ st = "RUNWAIT" /\ s.libstate = "DECTOK"
              \/ st = "RUN" /\ s.libstate = "RUNWAIT"
       PROVE  OrderInv' /\ AllInOrder
  <2> DEFINE n == new_state(s, st)
  <2>1. st \in LibStates
    BY <1>12 DEF LibStates
  <2>2. /\ n \in Lib /\ n.libstate = st /\ n.target = s.target /\ n.liberr = s.liberr
        /\ n.sockets = s.sockets /\ n.rebootDone = s.rebootDone
        /\ n.terminate = s.terminate /\ n.cmdq = s.cmdq
    BY <1>1, <2>1, NewStateFields
  <2>3. st = "RUN" => ~Announced(n)
    BY <1>1, <1>3, <2>1, NewStateSettles DEF Settled
  <2>4. QueueFits(n.cmdq, st)
    BY <1>1, <1>12, <2>2 DEF Session, OnLine, LibStates, QueueFits, MayQueue, Closing
  <2> HIDE DEF n
  <2>5. Session(n)
    BY <1>1, <1>12, <2>2, <2>3, <2>4 DEF Session, AfterReboot
  <2> QED
    BY <1>12, <2>2, <2>5, GoesOn DEF InOrder, n
<1>13. CASE decode_cfg(c)
  BY <1>1, <1>12, <1>13 DEF decode_cfg, At, Placed
<1>14. CASE TimerRun(c)
  BY <1>12, <1>14 DEF TimerRun
<1>15. CASE TimerTerminate(c)
  <2> DEFINE e == [s EXCEPT !.terminate = TRUE]
  <2>1. /\ e \in Lib /\ e.libstate = s.libstate /\ e.target = s.target
        /\ e.liberr = s.liberr /\ e.sockets = s.sockets
        /\ e.rebootDone = s.rebootDone /\ e.cmdq = s.cmdq /\ e.calls = s.calls
    BY <1>1 DEF Lib
  <2>2. /\ s.target = "TERM" /\ s.pc = "loop" /\ Step(c, [e EXCEPT !.pc = "rest"])
    BY <1>15 DEF TimerTerminate, AtLoop, At
  <2> HIDE DEF e
  <2>3. Session(e)
    BY <1>1, <2>1, <2>2 DEF Session, Announced
  <2>4. e.libstate # "DEALLOC"
    BY <1>1, <2>1, <2>2 DEF Placed
  <2> QED
    BY <2>1, <2>2, <2>3, <2>4, GoesOn DEF InOrder
<1>16. CASE ThreadExits(c)
  <2> DEFINE n == new_state(s, "TERM")
  <2>1. s.terminate /\ Step(c, [n EXCEPT !.pc = "exited"])
    BY <1>16 DEF ThreadExits
  <2>2. n \in Lib /\ n.libstate = "TERM" /\ n.liberr = s.liberr /\ ~Announced(n)
    BY <1>1, <1>3, NewStateFields, NewStateSettles, ZenonT(60) DEF LibStates, Settled
  <2>3. s.liberr # "TOKENS_CHANGE"
    BY <1>1, <2>1 DEF Session
  <2> HIDE DEF n
  <2>4. Session(n)
    BY <2>2, <2>3, ParkedSession
  <2> QED
    BY <2>1, <2>2, <2>4, GoesOn DEF InOrder
<1> QED
  BY <1>4, <1>5, <1>6, <1>7, <1>8, <1>9, <1>10, <1>11, <1>13, <1>14, <1>15, <1>16

(* The rest of the timer, the statistics and the supply of buffers.        *)
LEMMA SecondOrder ==
  ASSUME StationInv, OrderInv, NEW c \in Contexts,
         \/ TimerParked(c) \/ TimerRetry(c) \/ DeregTimeout(c)
         \/ TimerSecond(c) \/ lib_stats_timer(c) \/ Buffers(c)
  PROVE  OrderInv' /\ AllInOrder
<1> DEFINE s == lib[c]
<1>1. s \in Lib /\ Session(s) /\ Placed(s) /\ Queued(s)
  BY OneOrdered, One
<1>2. s.pc \in {"loop", "rest", "second"} /\ s.calls = << >>
  BY DEF TimerParked, TimerRetry, DeregTimeout, TimerSecond, lib_stats_timer,
         Buffers, AtLoop, At
<1>3. s.libstate # "DEALLOC" /\ ~Announced(s)
  BY <1>1, <1>2 DEF Placed, Announced
<1>4. ASSUME NEW t, Within(t, s), NEW p \in {"loop", "rest", "second"},
             Step(c, [t EXCEPT !.pc = p])
      PROVE  OrderInv' /\ AllInOrder
  BY <1>3, <1>4, GoesOn DEF Within, Queued, InOrder
<1>5. ASSUME NEW t, Within(t, s), Step(c, t) PROVE OrderInv' /\ AllInOrder
  BY <1>2, <1>3, <1>5, OrderMade DEF Within, Placed, InOrder
<1>6. Within(s, s)
  BY <1>1 DEF Within
<1>7. CASE TimerParked(c)
  <2> DEFINE t == lib_change_state(s, "RUNWAIT", "OTHER")
  <2>1. CASE s.libstate = "WAIT" /\ Step(c, [t EXCEPT !.pc = "loop"])
    <3>1. /\ t \in Lib /\ t.libstate = s.libstate /\ t.target = "RUNWAIT"
          /\ t.liberr = "OTHER" /\ t.calls = s.calls
      BY <1>1 DEF lib_change_state, Lib, Targets, LibErrs
    <3> HIDE DEF t
    <3>2. Session(t)
      BY <1>3, <2>1, <3>1, ParkedSession DEF Announced
    <3> QED
      BY <2>1, <3>1, <3>2, GoesOn DEF InOrder
  <2> QED
    BY <1>4, <1>6, <1>7, <2>1 DEF TimerParked
<1>8. CASE TimerRetry(c)
  <2> DEFINE e == [s EXCEPT !.cphase = "NEED", !.stalled = TRUE]
             u == state_callback(e, "STALL_ON")
  <2>1. CASE Step(c, [s EXCEPT !.pc = "second"])
    BY <1>4, <1>6, <2>1
  <2>2. CASE s.cmdq # << >> /\ Step(c, [clear_cmsg(s) EXCEPT !.pc = "second"])
    BY <1>1, <1>4, <2>2, WithinClear
  <2>3. CASE s.cmdq # << >> /\ Step(c, [IF s.stalled THEN e ELSE u
                                          EXCEPT !.pc = "second"])
    <3>1. Within(e, s)
      <4>1. Queued(e)
        BY <1>1, <2>3 DEF Queued, Lib, Phases
      <4>2. /\ e.libstate = s.libstate /\ e.pc = s.pc /\ e.target = s.target
            /\ e.liberr = s.liberr /\ e.sockets = s.sockets
            /\ e.rebootDone = s.rebootDone /\ e.terminate = s.terminate
            /\ e.cmdq = s.cmdq /\ e.calls = s.calls
        BY <1>1 DEF Lib
      <4> HIDE DEF e
      <4> QED
        BY <1>1, <4>1, <4>2, WithinOther
    <3>2. Step(c, [e EXCEPT !.pc = "second"]) \/ Step(c, [u EXCEPT !.pc = "second"])
      BY <2>3
    <3> HIDE DEF e
    <3>3. Within(u, s)
      BY <3>1, WithinCallback DEF Within, Notices, LibStates
    <3> HIDE DEF u
    <3> QED
      BY <1>4, <3>1, <3>2, <3>3
  <2> QED
    BY <1>8, <2>1, <2>2, <2>3 DEF TimerRetry
<1>9. CASE DeregTimeout(c)
  <2> DEFINE u == purge_cmdq(s)
             n == new_state(u, u.target)
             t == [n EXCEPT !.registered = FALSE, !.sockets = FALSE]
  <2>0. u \in Lib /\ Settled(u, s) /\ u.cmdq = << >> /\ u.libstate = s.libstate
    BY <1>1, Purge, PurgeSettles DEF Keeps
  <2>1. s.libstate = "DEREG" /\ Step(c, [t EXCEPT !.pc = "loop"])
    <3>1. /\ u.libstate = "DEREG"
          /\ Step(c, [[[n EXCEPT !.sockets = FALSE] EXCEPT !.registered = FALSE]
                       EXCEPT !.pc = "loop"])
      BY <1>9 DEF DeregTimeout, close_sockets
    <3> HIDE DEF u
    <3>2. n \in Lib
      BY <2>0, NewStateFields DEF Lib, Targets, LibStates
    <3> HIDE DEF n
    <3>3. t = [[n EXCEPT !.sockets = FALSE] EXCEPT !.registered = FALSE]
      BY <3>2 DEF Lib
    <3> QED
      BY <2>0, <3>1, <3>3
  <2>2. u \in Lib /\ Settled(u, s) /\ u.cmdq = << >>
    BY <2>0
  <2> HIDE DEF u
  <2>3. u.target # "RUN" /\ u.liberr # "TOKENS_CHANGE" /\ ~Announced(u)
    BY <1>1, <1>3, <2>1, <2>2 DEF Session, Settled, AfterReboot
  <2>4. t \in Lib /\ Session(t) /\ t.libstate = u.target /\ u.target \in Targets
    BY <2>2, <2>3, LeaveDereg DEF Lib
  <2> HIDE DEF t
  <2> QED
    BY <2>1, <2>3, <2>4, GoesOn DEF InOrder, Targets
<1>10. CASE TimerSecond(c)
  <2>1. PICK noData \in BOOLEAN, askStatus \in BOOLEAN, noAnswer \in BOOLEAN,
             noStatus \in BOOLEAN :
          LET running == s.libstate = "RUN"
              inSession == s.libstate \in {"READCFG", "READTOK", "DECTOK",
                                          "RUNWAIT", "RUN"}
              s1 == IF running /\ noData THEN GiveUp(s, "GONE") ELSE s
              s2 == IF running /\ askStatus THEN new_cmd(s1, "RQSTAT") ELSE s1
              s3 == IF s.libstate = "REG" /\ noAnswer
                    THEN [GiveUp(s2, "OTHER") EXCEPT !.registered = FALSE] ELSE s2
              s4 == IF inSession /\ noStatus THEN GiveUp(s3, "OTHER") ELSE s3
          IN  Step(c, [lib_send_next_cmd(s4) EXCEPT !.pc = "loop"])
    BY <1>10 DEF TimerSecond
  <2> DEFINE s1 == IF s.libstate = "RUN" /\ noData THEN GiveUp(s, "GONE") ELSE s
             s2 == IF s.libstate = "RUN" /\ askStatus
                   THEN new_cmd(s1, "RQSTAT") ELSE s1
             g3 == GiveUp(s2, "OTHER")
             r3 == [g3 EXCEPT !.registered = FALSE]
             s3 == IF s.libstate = "REG" /\ noAnswer THEN r3 ELSE s2
             s4 == IF s.libstate \in {"READCFG", "READTOK", "DECTOK", "RUNWAIT",
                                     "RUN"} /\ noStatus
                   THEN GiveUp(s3, "OTHER") ELSE s3
             s5 == lib_send_next_cmd(s4)
  <2>2. Step(c, [s5 EXCEPT !.pc = "loop"])
    BY <2>1
  <2>3. Within(s1, s)
    BY <1>1, <1>6, WithinGiveUp
  <2> HIDE DEF s1
  <2>4. Within(s2, s)
    <3>1. ASSUME s.libstate = "RUN" PROVE Within(new_cmd(s1, "RQSTAT"), s1)
      <4>1. /\ "RQSTAT" \in Commands \ {"RQFGLS"} /\ "RQSTAT" \in MayQueue("RUN")
            /\ Closing("RUN") = "none" /\ "RUN" \in OnLine
        BY DEF Commands, MayQueue, Closing, OnLine, LibStates
      <4> QED
        BY <2>3, <3>1, <4>1, WithinNewCmd DEF Within
    <3> QED
      BY <2>3, <3>1 DEF Within
  <2> HIDE DEF s2
  <2>5. Within(g3, s)
    BY <2>4, WithinGiveUp DEF Within
  <2> HIDE DEF g3
  <2>6. Within(r3, s)
    <3>1. Queued(r3)
      BY <2>5, Unregister DEF Within
    <3>2. /\ r3.libstate = g3.libstate /\ r3.pc = g3.pc /\ r3.target = g3.target
          /\ r3.liberr = g3.liberr /\ r3.sockets = g3.sockets
          /\ r3.rebootDone = g3.rebootDone /\ r3.terminate = g3.terminate
          /\ r3.cmdq = g3.cmdq /\ r3.calls = g3.calls
      BY <2>5 DEF Lib, Within, Queued
    <3> HIDE DEF r3
    <3> QED
      BY <2>5, <3>1, <3>2, WithinOther DEF Within
  <2> HIDE DEF r3
  <2>7. Within(s3, s)
    BY <2>4, <2>6
  <2> HIDE DEF s3
  <2>8. Within(s4, s)
    BY <2>7, WithinGiveUp DEF Within
  <2> HIDE DEF s4
  <2>9. Within(s5, s)
    BY <2>8, WithinSend DEF Within
  <2> HIDE DEF s5
  <2> QED
    BY <1>4, <2>2, <2>9
<1>11. CASE lib_stats_timer(c)
  BY <1>1, <1>5, <1>11, WithinCallback DEF lib_stats_timer, Notices, LibStates
<1>12. CASE Buffers(c)
  <2> DEFINE t == [s EXCEPT !.nobufs = ~@]
  <2>1. /\ Queued(t) /\ t.libstate = s.libstate /\ t.pc = s.pc /\ t.target = s.target
        /\ t.liberr = s.liberr /\ t.sockets = s.sockets
        /\ t.rebootDone = s.rebootDone /\ t.terminate = s.terminate
        /\ t.cmdq = s.cmdq /\ t.calls = s.calls
    BY <1>1 DEF Queued, Lib
  <2>2. Step(c, t)
    BY <1>12 DEF Buffers
  <2> HIDE DEF t
  <2> QED
    BY <1>1, <1>5, <2>1, <2>2, WithinOther
<1> QED
  BY <1>7, <1>8, <1>9, <1>10, <1>11, <1>12

(* What a reader of a socket finds.                                        *)
LEMMA ReaderFinds ==
  ASSUME StationInv, OrderInv, NEW c \in Contexts, Listening(c)
  PROVE  LET s == lib[c] IN
         /\ Queued(s) /\ s \in Lib /\ Session(s) /\ s.pc = "loop" /\ ~Announced(s)
         /\ s.libstate \in OnLine \ {"DEALLOC"} /\ s.sockets /\ ~s.terminate
         /\ s.target = "RUN" => s.libstate \in {"RUNWAIT", "RUN"}
         /\ s.liberr = "TOKENS_CHANGE" => s.libstate \notin {"REG", "DEREG"}
         /\ QueueFits(s.cmdq, s.libstate)
<1> DEFINE s == lib[c]
<1>1. s \in Lib /\ Session(s) /\ Placed(s) /\ Queued(s)
  BY OneOrdered, One
<1>2. /\ s.pc = "loop" /\ s.calls = << >> /\ ~s.terminate
      /\ s.libstate \in OnLine /\ s.sockets
  BY DEF Listening, AtLoop, At
<1>3. s.libstate # "DEALLOC" /\ ~Announced(s)
  BY <1>1, <1>2 DEF Placed, Announced
<1> QED
  BY <1>1, <1>2, <1>3 DEF Session, OnLine, AfterReboot

\* The reader goes on with a context of a session.
LEMMA ReaderMakes ==
  ASSUME StationInv, OrderInv, NEW c \in Contexts, NEW t, Step(c, t),
         Session(t), t.pc = "loop", t.libstate # "DEALLOC", InOrder(t, lib[c])
  PROVE  OrderInv' /\ AllInOrder
BY OrderMade DEF Placed

(* A context that wants to wait is in the session it was in.               *)
LEMMA WithinWait ==
  ASSUME NEW s, Queued(s), Session(s), NEW t, Queued(t),
         t.libstate = s.libstate, t.pc = s.pc, t.target = "WAIT",
         t.liberr # "TOKENS_CHANGE", t.sockets = s.sockets,
         t.rebootDone = s.rebootDone, t.terminate = s.terminate,
         t.cmdq = s.cmdq, t.calls = s.calls
  PROVE  Within(t, s)
BY DEF Within, Session, Announced

(* The answers to the commands, but for the status.                        *)
LEMMA AnswerOrder ==
  ASSUME StationInv, OrderInv, NEW c \in Contexts,
         \/ ServerChallenge(c) \/ RegistrationAccepted(c) \/ ConfigRead(c)
         \/ read_q330_cfg(c) \/ PingAnswered(c) \/ Deregistered(c)
  PROVE  OrderInv' /\ AllInOrder
<1> DEFINE s == lib[c]
           k == clear_cmsg(s)
<1>1. Listening(c) /\ s.cmdq # << >>
  BY DEF ServerChallenge, RegistrationAccepted, ConfigRead, read_q330_cfg,
         PingAnswered, Deregistered, Answered
<1>2. /\ Queued(s) /\ s \in Lib /\ Session(s) /\ s.pc = "loop" /\ ~Announced(s)
      /\ s.libstate \in OnLine \ {"DEALLOC"} /\ s.sockets
      /\ s.target = "RUN" => s.libstate \in {"RUNWAIT", "RUN"}
      /\ s.liberr = "TOKENS_CHANGE" => s.libstate \notin {"REG", "DEREG"}
      /\ QueueFits(s.cmdq, s.libstate)
  BY <1>1, ReaderFinds
<1>3. /\ Within(k, s) /\ Settled(k, s) /\ k.cmdq = Tail(s.cmdq)
      /\ k \in Lib /\ Queued(k) /\ Session(k) /\ k.libstate = s.libstate
  BY <1>1, <1>2, WithinClear DEF Within, Queued
<1>4. s.cmdq \in Seq(Commands)
  BY <1>2 DEF Lib
<1>5. /\ Head(s.cmdq) \in MayQueue(s.libstate)
      /\ Head(s.cmdq) = Closing(s.libstate) => Tail(s.cmdq) = << >>
  BY <1>1, <1>2, <1>4, FitsTail
<1> HIDE DEF k
<1>6. ASSUME NEW t, Within(t, s), Step(c, t) PROVE OrderInv' /\ AllInOrder
  BY <1>2, <1>6, ReaderMakes DEF Within, InOrder
<1>7. CASE ServerChallenge(c)
  <2>1. Head(s.cmdq) = "RQSRV" /\ Step(c, new_cmd(k, "SRVRSP"))
    BY <1>7 DEF ServerChallenge, Answered, k
  <2>2. s.libstate = "REG"
    BY <1>5, <2>1 DEF MayQueue
  <2>3. /\ "SRVRSP" \in Commands \ {"RQFGLS"} /\ "SRVRSP" \in MayQueue("REG")
        /\ Closing("REG") = "SRVRSP" /\ "REG" \in OnLine
    BY DEF Commands, MayQueue, Closing, OnLine, LibStates
  <2>4. Within(new_cmd(k, "SRVRSP"), k)
    BY <1>3, <2>2, <2>3, WithinNewCmd
  <2> QED
    BY <1>3, <1>6, <2>1, <2>4 DEF Within
<1>8. CASE RegistrationAccepted(c)
  <2> DEFINE e == [k EXCEPT !.registered = TRUE]
             t == lib330_reboot(e)
  <2>1. Head(s.cmdq) = "SRVRSP" /\ Step(c, t)
    BY <1>8 DEF RegistrationAccepted, Answered, k
  <2>2. s.libstate = "REG" /\ Tail(s.cmdq) = << >>
    BY <1>5, <2>1 DEF MayQueue, Closing
  <2>3. /\ e \in Lib /\ e.pc = k.pc /\ e.target = k.target /\ e.liberr = k.liberr
        /\ e.sockets = k.sockets /\ e.cmdq = k.cmdq /\ e.calls = k.calls
    BY <1>3 DEF Lib
  <2> HIDE DEF e
  <2>4. /\ e.target # "RUN" /\ e.liberr # "TOKENS_CHANGE" /\ ~Announced(e)
        /\ e.sockets /\ e.cmdq = << >> /\ e.pc = "loop"
    BY <1>2, <1>3, <2>2, <2>3 DEF Settled, Announced, Within
  <2>5. Session(t) /\ t.pc = "loop" /\ t.libstate = "READCFG"
    BY <2>3, <2>4, RebootSession, Reboot
  <2> HIDE DEF t
  <2> QED
    BY <2>1, <2>5, ReaderMakes DEF InOrder
<1>9. CASE ConfigRead(c)
  <2>1. CASE Step(c, state_callback(k, "CFG"))
    <3>1. "CFG" \in Notices \ {"RUNWAIT"}
      BY DEF Notices
    <3>2. Within(state_callback(k, "CFG"), k)
      BY <1>3, <3>1, WithinCallback
    <3> QED
      BY <1>3, <1>6, <2>1, <3>2 DEF Within
  <2>2. CASE Head(s.cmdq) = "RQFGLS" /\ Step(c, start_deregistration(s))
    <3> DEFINE t == start_deregistration(s)
    <3>1. s.libstate = "READCFG"
      BY <1>5, <2>2 DEF MayQueue
    <3>2. s.liberr # "TOKENS_CHANGE"
      <4>1. 1 \in 1 .. Len(s.cmdq) /\ s.cmdq[1] = "RQFGLS"
        BY <1>1, <1>4, <2>2
      <4> QED
        BY <1>2, <4>1 DEF Session
    <3>3. Session(t) /\ t.libstate = "DEREG" /\ t.pc = "loop"
      BY <1>2, <3>1, <3>2, DeregSession, StartDeregistration
    <3>4. Step(c, t)
      BY <2>2
    <3> HIDE DEF t
    <3> QED
      BY <3>3, <3>4, ReaderMakes DEF InOrder
  <2> QED
    BY <1>9, <2>1, <2>2 DEF ConfigRead, Answered, k
<1>10. CASE read_q330_cfg(c)
  <2>1. \/ s.libstate = "READTOK" /\ Step(c, new_state(k, "DECTOK"))
        \/ s.libstate = "READTOK" /\ Step(c, new_cmd(k, "RQMEM"))
        \/ Step(c, k)
    <3>1. k.libstate = s.libstate
      BY <1>3
    <3> QED
      BY <1>10, <3>1 DEF read_q330_cfg, k
  <2>2. CASE s.libstate = "READTOK" /\ Step(c, new_state(k, "DECTOK"))
    <3> DEFINE n == new_state(k, "DECTOK")
    <3>1. "DECTOK" \in LibStates \ {"RUNWAIT"}
      BY DEF LibStates
    <3>2. /\ n.libstate = "DECTOK" /\ n.pc = k.pc /\ n.cmdq = k.cmdq /\ Settled(n, k)
      BY <1>3, <3>1, NewStateFields, NewStateSettles
    <3>3. QueueFits(k.cmdq, "READTOK") /\ "READTOK" \in OnLine
      BY <1>3, <2>2 DEF Session, OnLine, LibStates
    <3>4. QueueFits(n.cmdq, "DECTOK")
      BY <3>2, <3>3 DEF QueueFits, MayQueue, Closing
    <3>5. Step(c, n)
      BY <2>2
    <3> HIDE DEF n
    <3>6. n.sockets /\ n.target # "RUN" /\ ~Announced(n) /\ n.pc = "loop"
      BY <1>2, <1>3, <2>2, <3>2 DEF Settled, Within
    <3>7. Session(n)
      BY <1>3, <2>2, <3>2, <3>4, <3>6 DEF Session, Settled, AfterReboot
    <3> QED
      BY <3>2, <3>5, <3>6, <3>7, ReaderMakes DEF InOrder
  <2>3. CASE s.libstate = "READTOK" /\ Step(c, new_cmd(k, "RQMEM"))
    <3>1. /\ "RQMEM" \in Commands \ {"RQFGLS"} /\ "RQMEM" \in MayQueue("READTOK")
          /\ Closing("READTOK") = "none" /\ "READTOK" \in OnLine
      BY DEF Commands, MayQueue, Closing, OnLine, LibStates
    <3>2. Within(new_cmd(k, "RQMEM"), k)
      BY <1>3, <2>3, <3>1, WithinNewCmd
    <3> QED
      BY <1>3, <1>6, <2>3, <3>2 DEF Within
  <2> QED
    BY <1>3, <1>6, <2>1, <2>2, <2>3
<1>11. CASE PingAnswered(c)
  BY <1>3, <1>6, <1>11 DEF PingAnswered, k
<1>12. CASE Deregistered(c)
  <2> DEFINE t == [new_state(k, k.target) EXCEPT !.registered = FALSE, !.sockets = FALSE]
  <2>1. Head(s.cmdq) = "DSRV" /\ Step(c, t)
    BY <1>12 DEF Deregistered, Answered, close_sockets, k
  <2>2. s.libstate = "DEREG" /\ Tail(s.cmdq) = << >>
    BY <1>5, <2>1 DEF MayQueue, Closing
  <2>3. /\ k.target # "RUN" /\ k.liberr # "TOKENS_CHANGE" /\ ~Announced(k)
        /\ k.pc = "loop" /\ k.target \in Targets
    BY <1>2, <1>3, <2>2 DEF Settled, Within, Lib
  <2>4. Session(t) /\ t.libstate = k.target /\ t.pc = "loop"
    BY <1>3, <2>2, <2>3, LeaveDereg
  <2> HIDE DEF t
  <2> QED
    BY <2>1, <2>2, <2>3, <2>4, ReaderMakes DEF InOrder, Targets
<1> QED
  BY <1>7, <1>8, <1>9, <1>10, <1>11, <1>12

(* Status, which may change the target in any state of a session but       *)
(* leaves no doubt of the reason: the tokens have changed only where the   *)
(* configuration is not asked for any more.                                *)
LEMMA StatusOrder ==
  ASSUME StationInv, OrderInv, NEW c \in Contexts, StatusRead(c)
  PROVE  OrderInv' /\ AllInOrder
<1> DEFINE s == lib[c]
<1>1. Listening(c) /\ s.cmdq # << >> /\ Head(s.cmdq) = "RQSTAT"
  BY DEF StatusRead, Answered
<1>2. /\ Queued(s) /\ s \in Lib /\ Session(s) /\ s.pc = "loop" /\ ~Announced(s)
      /\ s.libstate \in OnLine \ {"DEALLOC"} /\ s.sockets /\ ~s.terminate
      /\ s.target = "RUN" => s.libstate \in {"RUNWAIT", "RUN"}
      /\ QueueFits(s.cmdq, s.libstate)
  BY <1>1, ReaderFinds
<1>3. s.cmdq \in Seq(Commands)
  BY <1>2 DEF Lib
<1>4. /\ "RQSTAT" \in MayQueue(s.libstate)
      /\ "RQSTAT" = Closing(s.libstate) => Tail(s.cmdq) = << >>
  BY <1>1, <1>2, <1>3, FitsTail
<1>5. /\ s.libstate \in {"READCFG", "READTOK", "DECTOK", "RUNWAIT", "RUN"}
      /\ s.libstate = "READCFG" => Closing(s.libstate) = "RQSTAT"
      /\ s.libstate # "READCFG" => Closing(s.libstate) = "none"
  BY <1>2, <1>4 DEF MayQueue, Closing, OnLine, LibStates
<1>6. \A i \in 1 .. Len(s.cmdq) : s.cmdq[i] # "RQFGLS"
  <2>1. CASE s.libstate = "READCFG"
    <3>1. 1 \in 1 .. Len(s.cmdq) /\ s.cmdq[1] = "RQSTAT"
      BY <1>1, <1>3
    <3>2. Len(s.cmdq) = 1
      BY <1>2, <1>5, <2>1, <3>1 DEF QueueFits
    <3> QED
      BY <3>1, <3>2
  <2>2. CASE s.libstate # "READCFG"
    <3>1. "RQFGLS" \notin MayQueue(s.libstate)
      BY <1>5, <2>2 DEF MayQueue
    <3> QED
      BY <1>2, <3>1 DEF QueueFits
  <2> QED
    BY <2>1, <2>2
<1>7. PICK notice \in {"STATUS", "STATUS_GLB"}, changed \in BOOLEAN,
           powerOff \in BOOLEAN, more \in BOOLEAN :
        LET s1 == IF changed
                  THEN lib_change_state(s, "RUNWAIT", "TOKENS_CHANGE") ELSE s
            s2 == IF powerOff THEN lib_change_state(s1, "WAIT", "OTHER") ELSE s1
            s3 == clear_cmsg(state_callback(s2, notice))
        IN  /\ powerOff => notice = "STATUS" /\ s.libstate = "RUN"
            /\ Step(c, CASE more -> new_cmd(s3, "RQSTAT")
                         [] ~more /\ s.rebootDone -> s3
                         [] OTHER -> cfg_start([s3 EXCEPT !.rebootDone = TRUE]))
  BY Zenon DEF StatusRead
<1> DEFINE x1 == lib_change_state(s, "RUNWAIT", "TOKENS_CHANGE")
           s1 == IF changed THEN x1 ELSE s
           x2 == lib_change_state(s1, "WAIT", "OTHER")
           s2 == IF powerOff THEN x2 ELSE s1
           u == state_callback(s2, notice)
           s3 == clear_cmsg(u)
           e == [s3 EXCEPT !.rebootDone = TRUE]
           \* What a context on the way through the handler has of s.
           Like(t) == /\ Within(t, s) /\ t.cmdq = s.cmdq /\ t.sockets
                      /\ t.rebootDone = s.rebootDone /\ ~t.terminate
                      /\ ~Announced(t) /\ t \in Lib
<1>8. \/ Step(c, new_cmd(s3, "RQSTAT"))
      \/ Step(c, s3)
      \/ ~s.rebootDone /\ Step(c, cfg_start(e))
  BY <1>7
<1>9. Like(s1)
  <2>1. Like(s)
    BY <1>2 DEF Within
  <2>2. Like(x1)
    <3>1. /\ Queued(x1) /\ x1 \in Lib /\ x1.libstate = s.libstate /\ x1.pc = s.pc
          /\ x1.target = "RUNWAIT" /\ x1.liberr = "TOKENS_CHANGE"
          /\ x1.sockets = s.sockets /\ x1.rebootDone = s.rebootDone
          /\ x1.terminate = s.terminate /\ x1.cmdq = s.cmdq /\ x1.calls = s.calls
      BY <1>2 DEF lib_change_state, Queued, Lib, Targets, LibErrs
    <3> HIDE DEF x1
    <3>2. Session(x1)
      BY <1>2, <1>5, <1>6, <3>1 DEF Session, Announced, AfterReboot
    <3> QED
      BY <1>2, <3>1, <3>2 DEF Within, Announced
  <2> QED
    BY <2>1, <2>2
<1> HIDE DEF s1
<1>10. Like(s2)
  <2>1. Like(x2)
    <3>1. /\ Queued(x2) /\ x2 \in Lib /\ x2.libstate = s1.libstate /\ x2.pc = s1.pc
          /\ x2.target = "WAIT" /\ x2.liberr = "OTHER"
          /\ x2.sockets = s1.sockets /\ x2.rebootDone = s1.rebootDone
          /\ x2.terminate = s1.terminate /\ x2.cmdq = s1.cmdq /\ x2.calls = s1.calls
      BY <1>9 DEF lib_change_state, Queued, Lib, Targets, LibErrs, Within
    <3> HIDE DEF x2
    <3>2. Within(x2, s1)
      BY <1>9, <3>1, WithinWait DEF Within
    <3> QED
      BY <1>9, <3>1, <3>2 DEF Within, Announced
  <2> QED
    BY <1>9, <2>1
<1> HIDE DEF s2
<1>11. Like(u)
  <2>1. notice \in Notices \ {"RUNWAIT"}
    BY DEF Notices
  <2>2. Within(u, s2) /\ Settled(u, s2) /\ u.cmdq = s2.cmdq
    BY <1>10, <2>1, WithinCallback, CallbackSettles DEF Within
  <2> HIDE DEF u
  <2> QED
    BY <1>10, <2>2 DEF Within, Settled, Queued
<1> HIDE DEF u
<1>12. /\ Within(s3, s) /\ s3.cmdq = Tail(s.cmdq) /\ s3.sockets
       /\ s3.rebootDone = s.rebootDone /\ ~s3.terminate /\ ~Announced(s3)
       /\ s3 \in Lib
  BY <1>1, <1>11, WithinClear DEF Within, Settled, Queued
<1> HIDE DEF s3, Like
<1>13. ASSUME NEW t, Within(t, s), Step(c, t) PROVE OrderInv' /\ AllInOrder
  BY <1>2, <1>13, ReaderMakes DEF Within, InOrder
<1>14. Within(new_cmd(s3, "RQSTAT"), s)
  <2>1. "RQSTAT" \in Commands \ {"RQFGLS"}
    BY DEF Commands
  <2>2. Within(new_cmd(s3, "RQSTAT"), s3)
    BY <1>2, <1>4, <1>5, <1>12, <2>1, WithinNewCmd DEF Within
  <2> QED
    BY <1>12, <2>2 DEF Within
<1>15. CASE ~s.rebootDone /\ Step(c, cfg_start(e))
  <2>1. s.libstate = "READCFG" /\ Tail(s.cmdq) = << >>
    BY <1>2, <1>4, <1>5, <1>15 DEF Session, AfterReboot
  <2>2. /\ e \in Lib /\ e.target = s3.target /\ e.liberr = s3.liberr
        /\ e.sockets = s3.sockets /\ e.rebootDone /\ e.terminate = s3.terminate
        /\ e.cmdq = s3.cmdq /\ e.calls = s3.calls /\ e.pc = s3.pc
    BY <1>12 DEF Lib
  <2> HIDE DEF e
  <2>3. /\ e.target # "RUN" /\ ~Announced(e) /\ e.sockets /\ ~e.terminate
        /\ e.liberr = "TOKENS_CHANGE" => e.target = "RUNWAIT"
    BY <1>12, <2>1, <2>2 DEF Within, Session, Announced, AfterReboot
  <2>4. QueueFits(e.cmdq, "READTOK")
    BY <1>12, <2>1, <2>2, FitsEmpty
  <2>5. Session(cfg_start(e))
    BY <2>2, <2>3, <2>4, TokensSession
  <2>6. cfg_start(e).libstate = "READTOK" /\ cfg_start(e).pc = "loop"
    BY <1>2, <1>12, <2>2, CfgStart DEF Within
  <2> QED
    BY <1>15, <2>5, <2>6, ReaderMakes DEF InOrder
<1> QED
  BY <1>8, <1>12, <1>13, <1>14, <1>15

(* Errors and resets, and data.                                            *)
LEMMA FaultOrder ==
  ASSUME StationInv, OrderInv, NEW c \in Contexts,
         CommandRefused(c) \/ ConnectionReset(c) \/ DataTick(c)
  PROVE  OrderInv' /\ AllInOrder
<1> DEFINE s == lib[c]
           k == clear_cmsg(s)
<1>1. Listening(c)
  BY DEF CommandRefused, ConnectionReset, DataTick
<1>2. /\ Queued(s) /\ s \in Lib /\ Session(s) /\ s.pc = "loop" /\ ~Announced(s)
      /\ s.libstate \in OnLine \ {"DEALLOC"} /\ s.sockets
      /\ s.target = "RUN" => s.libstate \in {"RUNWAIT", "RUN"}
  BY <1>1, ReaderFinds
<1>3. ASSUME NEW t, Within(t, s), Step(c, t) PROVE OrderInv' /\ AllInOrder
  BY <1>2, <1>3, ReaderMakes DEF Within, InOrder
<1>4. CASE CommandRefused(c)
  <2> DEFINE m == IF Head(s.cmdq) = "RQMEM" THEN s ELSE k
  <2>1. s.cmdq # << >>
    BY <1>4 DEF CommandRefused
  <2>2. Within(m, s) /\ m \in Lib
    BY <1>2, <2>1, WithinClear DEF Within, Queued
  <2>3. \/ Step(c, m)
        \/ \E err \in {"GONE", "OTHER"} :
             Step(c, [lib_change_state(m, "WAIT", err) EXCEPT !.registered = FALSE])
        \/ Step(c, lib_change_state(m, "WAIT", "OTHER"))
    BY <1>4 DEF CommandRefused
  <2> HIDE DEF m
  <2>4. ASSUME NEW err \in {"GONE", "OTHER"}
        PROVE  /\ Within(lib_change_state(m, "WAIT", err), s)
               /\ Within([lib_change_state(m, "WAIT", err) EXCEPT !.registered = FALSE], s)
    <3> DEFINE w == lib_change_state(m, "WAIT", err)
               v == [w EXCEPT !.registered = FALSE]
    <3>1. /\ Queued(w) /\ w.libstate = m.libstate /\ w.pc = m.pc
          /\ w.target = "WAIT" /\ w.liberr = err /\ w.sockets = m.sockets
          /\ w.rebootDone = m.rebootDone /\ w.terminate = m.terminate
          /\ w.cmdq = m.cmdq /\ w.calls = m.calls
      BY <2>2 DEF lib_change_state, Queued, Lib, Targets, LibErrs, Within
    <3> HIDE DEF w
    <3>2. Within(w, m)
      BY <2>2, <3>1, WithinWait DEF Within
    <3>3. /\ Queued(v) /\ v.libstate = w.libstate /\ v.pc = w.pc
          /\ v.target = w.target /\ v.liberr = w.liberr /\ v.sockets = w.sockets
          /\ v.rebootDone = w.rebootDone /\ v.terminate = w.terminate
          /\ v.cmdq = w.cmdq /\ v.calls = w.calls
      BY <3>1 DEF Queued, Lib
    <3>4. Within(v, w)
      BY <3>1, <3>2, <3>3, WithinOther DEF Within
    <3> QED
      BY <2>2, <3>2, <3>4 DEF Within, w
  <2> QED
    BY <1>3, <2>2, <2>3, <2>4
<1>5. CASE ConnectionReset(c)
  <2> DEFINE u == purge_cmdq(s)
             v == close_sockets(u)
             r == [v EXCEPT !.liberr = "GONE"]
             n == new_state(r, "WAIT")
  <2>1. \/ /\ r.libstate \in {"RUNWAIT", "RUN"}
           /\ Step(c, BeginDeallocation(r, "deallocIo"))
        \/ \E target \in {r.target, "WAIT"} :
             Step(c, [n EXCEPT !.registered = FALSE, !.target = target])
    BY <1>5 DEF ConnectionReset
  <2>2. /\ u \in Lib /\ Settled(u, s) /\ u.cmdq = << >>
        /\ u.libstate = s.libstate /\ u.pc = s.pc
    BY <1>2, Purge, PurgeSettles DEF Keeps
  <2> HIDE DEF u
  <2>3. /\ r \in Lib /\ r.libstate = u.libstate /\ r.pc = u.pc /\ r.cmdq = u.cmdq
        /\ r.target = u.target /\ r.liberr = "GONE" /\ ~r.sockets
        /\ r.calls = u.calls /\ r.target \in Targets
    BY <2>2 DEF close_sockets, Lib, LibErrs
  <2> HIDE DEF r
  <2>4. ~Announced(r)
    BY <1>2, <2>2, <2>3 DEF Settled, Announced
  <2>5. CASE r.libstate \in {"RUNWAIT", "RUN"} /\ Step(c, BeginDeallocation(r, "deallocIo"))
    <3> DEFINE t == BeginDeallocation(r, "deallocIo")
    <3>1. Session(r)
      BY <2>2, <2>3, <2>4, <2>5, FitsEmpty DEF Session
    <3>2. Session(t) /\ Placed(t) /\ t.libstate = "DEALLOC"
      BY <2>3, <2>4, <2>5, <3>1, DeallocSession
    <3>3. Step(c, t)
      BY <2>5
    <3> HIDE DEF t
    <3> QED
      BY <3>2, <3>3, OrderMade DEF InOrder
  <2>6. ASSUME NEW target \in {r.target, "WAIT"},
               Step(c, [n EXCEPT !.registered = FALSE, !.target = target])
        PROVE  OrderInv' /\ AllInOrder
    <3> DEFINE w == [n EXCEPT !.registered = FALSE, !.target = target]
    <3>1. "WAIT" \in LibStates \ {"RUNWAIT"}
      BY DEF LibStates
    <3>2. /\ n \in Lib /\ n.libstate = "WAIT" /\ n.pc = r.pc /\ n.liberr = r.liberr
          /\ Settled(n, r)
      BY <2>3, <3>1, NewStateFields, NewStateSettles
    <3> HIDE DEF n
    <3>3. /\ w.libstate = "WAIT" /\ w.pc = n.pc /\ w.liberr = n.liberr
          /\ w.calls = n.calls
      BY <3>2 DEF Lib
    <3>4. Step(c, w)
      BY <2>6
    <3> HIDE DEF w
    <3>5. ~Announced(w) /\ w.liberr = "GONE" /\ w.pc = "loop"
      BY <1>2, <2>2, <2>3, <2>4, <3>2, <3>3 DEF Settled, Announced
    <3>6. Session(w)
      BY <3>3, <3>5, ParkedSession
    <3> QED
      BY <3>3, <3>4, <3>5, <3>6, ReaderMakes DEF InOrder
  <2> QED
    BY <2>1, <2>5, <2>6
<1>6. CASE DataTick(c)
  <2>1. "TICK" \in Notices \ {"RUNWAIT"}
    BY DEF Notices
  <2> QED
    BY <1>2, <1>3, <1>6, <2>1, WithinCallback DEF DataTick
<1> QED
  BY <1>4, <1>5, <1>6

-----------------------------------------------------------------------------
(* Every step keeps the invariant and the order of the session.            *)
LEMMA StepOrder ==
  ASSUME StationInv, OrderInv, [Next]_lib
  PROVE  OrderInv' /\ AllInOrder
<1>1. CASE UNCHANGED lib
  BY <1>1 DEF OrderInv, AllInOrder, InOrder, Session, Placed, Announced
<1>2. ASSUME NEW c \in Contexts, Client(c) \/ Thread(c)
      PROVE  OrderInv' /\ AllInOrder
  BY <1>2, ClientOrder, TargetOrder, SecondOrder, AnswerOrder, StatusOrder, FaultOrder
  DEF Thread, Timer, Reader
<1> QED
  BY <1>1, <1>2 DEF Next

(* The strengthening behind the order of a session: what every state       *)
(* allows in the queue and of a target, for any set of contexts.           *)
THEOREM OrderInvariant == Spec => []OrderInv
<1>1. Init => OrderInv
  <2>1. Session(NoContext) /\ Placed(NoContext)
    BY DEF NoContext, Session, Placed, Announced, OnLine, AfterReboot
  <2> QED
    BY <2>1 DEF Init, OrderInv
<1>2. StationInv /\ OrderInv /\ [Next]_lib => OrderInv'
  BY StepOrder
<1> QED
  BY <1>1, <1>2, StationInvariant, PTL DEF Spec

(* A session whose sockets are closed is not kept, whatever the client     *)
(* asked for meanwhile: no target of RUNWAIT or RUN is left behind closed  *)
(* sockets between the registration and the end of the tokens.             *)
THEOREM ClosedLeaving == Spec => []ClosedIsLeaving
<1>1. OrderInv => ClosedIsLeaving
  BY DEF OrderInv, Session, ClosedIsLeaving
<1> QED
  BY <1>1, OrderInvariant, PTL

(* RUN is entered only out of RUNWAIT, and RUNWAIT only out of the         *)
(* decoding of the tokens or out of a de-registration, for any set of      *)
(* contexts and however the client's requests fall between the looks the   *)
(* thread takes at its target.                                             *)
THEOREM SessionsInOrder == Spec => SessionOrder
<1>1. StationInv /\ OrderInv /\ [Next]_lib
        => [\A c \in Contexts :
              /\ lib[c].libstate # "RUN" /\ lib'[c].libstate = "RUN"
                   => lib[c].libstate = "RUNWAIT"
              /\ lib[c].libstate # "RUNWAIT" /\ lib'[c].libstate = "RUNWAIT"
                   => lib[c].libstate \in {"DECTOK", "DEREG"}]_lib
  BY StepOrder DEF AllInOrder, InOrder
<1> QED
  BY <1>1, StationInvariant, OrderInvariant, PTL DEF Spec, SessionOrder
-----------------------------------------------------------------------------
(* The connection (Connector).  Its two threads talk through the notices:  *)
(* what disconnect polls for is IDLE and TERM, and the proof follows these *)
(* two from the handler that announces them to q330_state.                 *)

Ends == {"IDLE", "TERM"}

\* What the client is still to be told of a context.
Told(s) == {s.calls[i] : i \in 1 .. Len(s.calls)}

\* t follows s and announces neither of the ends.
Mild(t, s) ==
  /\ t.target \in {s.target, "WAIT", "RUNWAIT"} /\ t.terminate = s.terminate
  /\ t.pc = s.pc /\ Told(t) \cap Ends \subseteq Told(s)

LEMMA MildSame ==
  ASSUME NEW s, NEW t, t.target = s.target, t.terminate = s.terminate,
         t.pc = s.pc, t.calls = s.calls
  PROVE  Mild(t, s)
BY DEF Mild, Told

LEMMA MildThen ==
  ASSUME NEW s, NEW t, NEW u, Mild(t, s), Mild(u, t)
  PROVE  Mild(u, s)
BY DEF Mild

\* A callback adds its notice.
LEMMA ToldCallback ==
  ASSUME NEW s \in Lib, NEW notice \in Notices
  PROVE  LET t == state_callback(s, notice) IN
         /\ Told(t) = Told(s) \union {notice}
         /\ t.target = s.target /\ t.terminate = s.terminate /\ t.pc = s.pc
<1> DEFINE q == s.calls
           r == Append(q, notice)
<1>1. q \in Seq(Notices)
  BY DEF Lib
<1>2. /\ Len(r) = Len(q) + 1 /\ Len(q) \in Nat /\ r[Len(q) + 1] = notice
      /\ \A i \in 1 .. Len(q) : r[i] = q[i]
  BY <1>1
<1>3. {r[i] : i \in 1 .. Len(r)} = {q[i] : i \in 1 .. Len(q)} \union {notice}
  <2> HIDE DEF r, q
  <2>1. \A i \in 1 .. Len(r) : i \in 1 .. Len(q) \/ i = Len(q) + 1
    BY <1>2
  <2>2. \A i \in 1 .. Len(q) : i \in 1 .. Len(r)
    BY <1>2
  <2>3. Len(q) + 1 \in 1 .. Len(r)
    BY <1>2
  <2> QED
    BY <1>2, <2>1, <2>2, <2>3
<1>4. LET t == state_callback(s, notice) IN
        /\ t.calls = r /\ t.target = s.target /\ t.terminate = s.terminate
        /\ t.pc = s.pc
  BY DEF state_callback, Lib
<1> QED
  BY <1>3, <1>4 DEF Told

LEMMA MildCallback ==
  ASSUME NEW s \in Lib, NEW notice \in Notices \ Ends
  PROVE  Mild(state_callback(s, notice), s)
BY ToldCallback DEF Mild

\* new_state announces the new state.
LEMMA ToldNewState ==
  ASSUME NEW s \in Lib, NEW st \in LibStates
  PROVE  LET t == new_state(s, st) IN
         /\ Told(t) = Told(s) \union {st}
         /\ t.target = s.target /\ t.terminate = s.terminate /\ t.pc = s.pc
<1> DEFINE u == state_callback(s, st)
<1>1. /\ u \in Lib /\ Told(u) = Told(s) \union {st}
      /\ u.target = s.target /\ u.terminate = s.terminate /\ u.pc = s.pc
  BY ToldCallback, StateCallback DEF Notices
<1>2. new_state(s, st) = [u EXCEPT !.libstate = st]
  BY DEF new_state
<1> HIDE DEF u
<1> DEFINE t == [u EXCEPT !.libstate = st]
<1>3. /\ t.calls = u.calls /\ t.target = u.target /\ t.terminate = u.terminate
      /\ t.pc = u.pc
  BY <1>1 DEF Lib
<1> HIDE DEF t
<1>4. Told(t) = Told(u)
  BY <1>3 DEF Told
<1> QED
  BY <1>1, <1>2, <1>3, <1>4 DEF t

LEMMA MildNewState ==
  ASSUME NEW s \in Lib, NEW st \in LibStates \ Ends
  PROVE  Mild(new_state(s, st), s)
BY ToldNewState DEF Mild

LEMMA MildUnstall ==
  ASSUME NEW s \in Lib
  PROVE  Mild(Unstall(s), s)
<1> DEFINE u == state_callback(s, "STALL_OFF")
<1>1. u \in Lib /\ Mild(u, s)
  BY MildCallback, StateCallback DEF Notices, Ends, LibStates
<1>2. Unstall(s) = IF s.stalled THEN [u EXCEPT !.stalled = FALSE] ELSE s
  BY DEF Unstall
<1> HIDE DEF u
<1>3. Mild([u EXCEPT !.stalled = FALSE], u)
  BY <1>1, MildSame DEF Lib
<1> QED
  BY <1>1, <1>2, <1>3, MildThen, MildSame

LEMMA MildPurge ==
  ASSUME NEW s \in Lib
  PROVE  Mild(purge_cmdq(s), s)
<1> DEFINE e == [s EXCEPT !.cmdq = << >>, !.cphase = "IDLE"]
<1>1. e \in Lib /\ Mild(e, s)
  BY EmptyQueue, MildSame DEF Lib, Phases
<1>2. purge_cmdq(s) = Unstall(e)
  BY DEF purge_cmdq
<1> HIDE DEF e
<1> QED
  BY <1>1, <1>2, MildUnstall, MildThen

LEMMA MildClear ==
  ASSUME NEW s \in Lib, s.cmdq # << >>
  PROVE  Mild(clear_cmsg(s), s)
<1> DEFINE e == [s EXCEPT !.cmdq = Tail(@), !.cphase = "IDLE"]
<1>1. Tail(s.cmdq) \in Seq(Commands)
  BY DEF Lib
<1>2. e \in Lib /\ Mild(e, s)
  BY <1>1, MildSame DEF Lib, Phases
<1>3. clear_cmsg(s) = IF e.cmdq = << >> THEN Unstall(e) ELSE e
  BY DEF clear_cmsg
<1> HIDE DEF e
<1> QED
  BY <1>2, <1>3, MildUnstall, MildThen

LEMMA MildGiveUp ==
  ASSUME NEW s \in Lib, NEW reason \in LibErrs
  PROVE  Mild(GiveUp(s, reason), s)
<1> DEFINE u == purge_cmdq(s)
<1>1. u \in Lib /\ Mild(u, s)
  BY Purge, MildPurge
<1>2. GiveUp(s, reason) = [u EXCEPT !.target = "WAIT", !.liberr = reason]
  BY DEF GiveUp, lib_change_state
<1> HIDE DEF u
<1>3. Mild([u EXCEPT !.target = "WAIT", !.liberr = reason], u)
  BY <1>1 DEF Mild, Told, Lib
<1> QED
  BY <1>1, <1>2, <1>3, MildThen

LEMMA MildSend ==
  ASSUME NEW s \in Lib
  PROVE  Mild(lib_send_next_cmd(s), s)
<1> DEFINE g == GiveUp(s, "GONE")
           t == [g EXCEPT !.registered = FALSE, !.sockets = FALSE]
           w == [s EXCEPT !.cphase = "WAIT"]
<1>1. g \in Lib /\ Mild(g, s)
  BY GiveUpEmpties, MildGiveUp DEF LibErrs, Queued
<1> HIDE DEF g
<1>2. Mild(t, g) /\ Mild(w, s)
  BY <1>1, MildSame DEF Lib
<1>3. lib_send_next_cmd(s) \in {s, t, w}
  BY DEF lib_send_next_cmd, close_sockets, g
<1> HIDE DEF t, w
<1> QED
  BY <1>1, <1>2, <1>3, MildThen, MildSame

LEMMA MildNewCmd ==
  ASSUME NEW s \in Lib, NEW cmd \in Commands
  PROVE  Mild(new_cmd(s, cmd), s)
<1> DEFINE e == [s EXCEPT !.cmdq = Append(@, cmd)]
<1>1. Append(s.cmdq, cmd) \in Seq(Commands)
  BY DEF Lib
<1>2. e \in Lib /\ Mild(e, s)
  BY <1>1, MildSame DEF Lib
<1>3. new_cmd(s, cmd) \in {s, lib_send_next_cmd(e)}
  BY DEF new_cmd
<1> HIDE DEF e
<1> QED
  BY <1>2, <1>3, MildSend, MildThen, MildSame

LEMMA MildDereg ==
  ASSUME NEW s \in Lib
  PROVE  Mild(start_deregistration(s), s)
<1> DEFINE n == new_state(s, "DEREG")
           u == purge_cmdq(n)
           v == new_cmd(u, "PING")
           t == new_cmd(v, "DSRV")
<1>1. n \in Lib /\ Mild(n, s)
  BY NewState, MildNewState DEF LibStates, Ends
<1>2. start_deregistration(s) = t
  BY DEF start_deregistration
<1> HIDE DEF n
<1>3. u \in Lib /\ Mild(u, n)
  BY <1>1, Purge, MildPurge
<1> HIDE DEF u
<1>4. v \in Lib /\ Mild(v, u) /\ "DSRV" \in Commands
  BY <1>3, NewCmd, MildNewCmd DEF Commands, Queued
<1> HIDE DEF v
<1>5. Mild(t, v)
  BY <1>4, MildNewCmd
<1> HIDE DEF t
<1> QED
  BY <1>1, <1>2, <1>3, <1>4, <1>5, MildThen

LEMMA MildCfg ==
  ASSUME NEW s \in Lib
  PROVE  Mild(cfg_start(s), s)
<1> DEFINE n == new_state(s, "READTOK")
<1>1. n \in Lib /\ Mild(n, s)
  BY NewState, MildNewState DEF LibStates, Ends
<1>2. cfg_start(s) = new_cmd(n, "RQMEM") /\ "RQMEM" \in Commands
  BY DEF cfg_start, Commands
<1> HIDE DEF n
<1> QED
  BY <1>1, <1>2, MildNewCmd, MildThen

LEMMA MildContinue ==
  ASSUME NEW s \in Lib
  PROVE  Mild(lib_continue_registration(s), s)
<1> DEFINE n == new_state(s, "REG")
           e == [n EXCEPT !.registered = FALSE, !.cmdq = << >>]
<1>1. n \in Lib /\ Mild(n, s)
  BY NewState, MildNewState DEF LibStates, Ends
<1>2. lib_continue_registration(s) = new_cmd(e, "RQSRV") /\ "RQSRV" \in Commands
  BY DEF lib_continue_registration, Commands
<1> HIDE DEF n
<1>3. e \in Lib /\ Mild(e, n)
  BY <1>1, EmptyQueue, MildSame DEF Lib
<1> HIDE DEF e
<1> QED
  BY <1>1, <1>2, <1>3, MildNewCmd, MildThen

LEMMA MildReboot ==
  ASSUME NEW s \in Lib
  PROVE  Mild(lib330_reboot(s), s)
<1> DEFINE n == new_state(s, "READCFG")
           e == [n EXCEPT !.rebootDone = FALSE]
           f == new_cmd(e, "RQFGLS")
           g == new_cmd(f, "RQGID")
           t == new_cmd(g, "RQSTAT")
<1>1. n \in Lib /\ Mild(n, s)
  BY NewState, MildNewState DEF LibStates, Ends
<1>2. lib330_reboot(s) = t
  BY DEF lib330_reboot
<1> HIDE DEF n
<1>3. e \in Lib /\ Mild(e, n)
  BY <1>1, MildSame DEF Lib
<1>4. {"RQFGLS", "RQGID", "RQSTAT"} \subseteq Commands
  BY DEF Commands
<1> HIDE DEF e
<1>5. f \in Lib /\ Mild(f, e)
  BY <1>3, <1>4, NewCmd, MildNewCmd DEF Queued
<1> HIDE DEF f
<1>6. g \in Lib /\ Mild(g, f)
  BY <1>4, <1>5, NewCmd, MildNewCmd DEF Queued
<1> HIDE DEF g
<1>7. Mild(t, g)
  BY <1>4, <1>6, MildNewCmd
<1> HIDE DEF t
<1> QED
  BY <1>1, <1>2, <1>3, <1>5, <1>6, <1>7, MildThen

LEMMA MildEndDealloc ==
  ASSUME NEW s \in Lib
  PROVE  Mild(EndDeallocation(s), s)
<1> DEFINE n == new_state(s, "WAIT")
           t == [n EXCEPT !.registered = FALSE, !.sockets = FALSE]
<1>1. n \in Lib /\ Mild(n, s)
  BY NewState, MildNewState DEF LibStates, Ends
<1>2. EndDeallocation(s) \in {cfg_start(s), t, start_deregistration(s)}
  BY DEF EndDeallocation, close_sockets
<1> HIDE DEF n
<1>3. Mild(t, n)
  BY <1>1, MildSame DEF Lib
<1> HIDE DEF t
<1> QED
  BY <1>1, <1>2, <1>3, MildCfg, MildDereg, MildThen

-----------------------------------------------------------------------------
(* What a step of a station thread tells the client.  A thread takes none  *)
(* while a callback is being served.                                       *)

\* A step that announces neither end.
Calm(t, s) ==
  /\ t.target \in {s.target, "WAIT", "RUNWAIT"} /\ t.terminate = s.terminate
  /\ t.pc \notin {"none", "exited"} /\ Told(t) \cap Ends = {}

\* The new state is the one the target names.
Obeys(t, s) ==
  /\ t.target = s.target /\ t.terminate = s.terminate /\ t.libstate = s.target
  /\ ~t.registered /\ t.pc \in {"loop", "rest"} /\ Told(t) \cap Ends \subseteq {s.target}

Quits(t, s) ==
  /\ s.target = "TERM" /\ t.target = "TERM" /\ t.libstate = s.libstate
  /\ t.registered = s.registered /\ t.pc = "rest" /\ t.calls = << >>

Exits(t, s) ==
  /\ s.terminate /\ t.pc = "exited" /\ t.calls = <<"TERM">> /\ t.libstate = "TERM"
  /\ t.registered = s.registered /\ t.target = s.target

Does(t, s) == Calm(t, s) \/ Obeys(t, s) \/ Quits(t, s) \/ Exits(t, s)

LEMMA OnlyThat ==
  ASSUME StationInv, NEW c \in Contexts, NEW t, Step(c, t)
  PROVE  lib'[c] = t /\ \A d \in Contexts \ {c} : lib'[d] = lib[d]
BY DEF StationInv, TypeOK, Step

LEMMA CalmStep ==
  ASSUME StationInv, NEW c \in Contexts, lib[c].calls = << >>,
         NEW t \in Lib, Mild(t, lib[c]),
         NEW p \in ProgramPoints \ {"none", "exited"}, Step(c, [t EXCEPT !.pc = p])
  PROVE  Does(lib'[c], lib[c])
<1> DEFINE u == [t EXCEPT !.pc = p]
<1>1. /\ u.target = t.target /\ u.terminate = t.terminate /\ u.calls = t.calls
      /\ u.pc = p
  BY DEF Lib
<1>2. lib'[c] = u
  BY OnlyThat
<1> HIDE DEF u
<1>3. Told(u) = Told(t) /\ Told(lib[c]) = {}
  BY <1>1 DEF Told
<1> QED
  BY <1>1, <1>2, <1>3 DEF Mild, Calm, Does

LEMMA CalmMade ==
  ASSUME StationInv, NEW c \in Contexts, lib[c].calls = << >>,
         lib[c].pc \notin {"none", "exited"}, NEW t, Mild(t, lib[c]), Step(c, t)
  PROVE  Does(lib'[c], lib[c])
<1>1. Told(lib[c]) = {} /\ lib'[c] = t
  BY OnlyThat DEF Told
<1> QED
  BY <1>1 DEF Mild, Calm, Does

LEMMA TargetDoes ==
  ASSUME StationInv, NEW c \in Contexts,
         \/ TimerNoChange(c) \/ TimerStopEarly(c) \/ TimerApply(c)
         \/ TimerDeregister(c) \/ TimerDeallocate(c) \/ Deallocate(c)
         \/ TimerRegister(c) \/ TimerDecode(c) \/ decode_cfg(c)
         \/ TimerRun(c) \/ TimerTerminate(c) \/ ThreadExits(c)
  PROVE  /\ lib[c].calls = << >> /\ lib[c].pc \notin {"none", "exited"}
         /\ Does(lib'[c], lib[c])
<1> DEFINE s == lib[c]
<1>1. /\ s \in Lib /\ Queued(s) /\ (s.libstate \in Parked => ~s.registered)
      /\ (s.pc = "apply" => s.libstate \in Parked)
  BY One
<1>2. s.calls = << >> /\ s.pc \in {"loop", "apply", "decode", "dealloc", "deallocIo"}
  BY DEF TimerNoChange, TimerStopEarly, TimerApply, TimerDeregister, TimerDeallocate,
         Deallocate, TimerRegister, TimerDecode, decode_cfg, TimerRun, TimerTerminate,
         ThreadExits, AtLoop, At
<1> SUFFICES Does(lib'[c], s)
  BY <1>2
<1>3. ASSUME NEW t \in Lib, Mild(t, s), NEW p \in ProgramPoints \ {"none", "exited"},
             Step(c, [t EXCEPT !.pc = p])
      PROVE  Does(lib'[c], s)
  BY <1>2, <1>3, CalmStep
<1>4. /\ {"apply", "rest", "loop", "decode", "dealloc"}
           \subseteq ProgramPoints \ {"none", "exited"}
      /\ Mild(s, s)
  BY MildSame DEF ProgramPoints
<1>5. CASE TimerNoChange(c)
  BY <1>1, <1>3, <1>4, <1>5 DEF TimerNoChange
<1>6. CASE TimerStopEarly(c)
  <2> DEFINE u == close_sockets(s)
  <2>1. u \in Lib /\ Mild(u, s)
    BY <1>1, MildSame DEF close_sockets, Lib
  <2>2. Step(c, [s EXCEPT !.pc = "apply"]) \/ Step(c, [u EXCEPT !.pc = "apply"])
    BY <1>6 DEF TimerStopEarly
  <2> HIDE DEF u
  <2> QED
    BY <1>1, <1>3, <1>4, <2>1, <2>2
<1>7. CASE TimerApply(c)
  <2> DEFINE n == new_state(s, s.target)
             t == [n EXCEPT !.pc = "rest"]
  <2>1. s.pc = "apply" /\ Step(c, t)
    BY <1>7 DEF TimerApply, At
  <2>2. s.target \in LibStates
    BY <1>1 DEF Lib, Targets, LibStates
  <2>3. /\ n \in Lib /\ n.libstate = s.target /\ n.registered = s.registered
        /\ n.target = s.target /\ n.terminate = s.terminate
        /\ Told(n) = Told(s) \union {s.target}
    BY <1>1, <2>2, NewState, ToldNewState
  <2> HIDE DEF n
  <2>4. /\ t.libstate = n.libstate /\ t.registered = n.registered /\ t.pc = "rest"
        /\ t.target = n.target /\ t.terminate = n.terminate /\ t.calls = n.calls
    BY <2>3 DEF Lib
  <2>5. lib'[c] = t
    BY <2>1, OnlyThat
  <2> HIDE DEF t
  <2>6. Told(t) = Told(n) /\ Told(s) = {} /\ ~s.registered
    BY <1>1, <1>2, <2>1, <2>4 DEF Told
  <2> QED
    BY <1>2, <2>3, <2>4, <2>5, <2>6 DEF Obeys, Does
<1>8. CASE TimerDeregister(c)
  <2>1. start_deregistration(s) \in Lib
    BY <1>1, StartDeregistration DEF Queued
  <2> QED
    BY <1>1, <1>3, <1>4, <1>8, <2>1, MildDereg DEF TimerDeregister
<1>9. CASE TimerDeallocate(c)
  <2>1. new_state(s, "DEALLOC") \in Lib /\ Mild(new_state(s, "DEALLOC"), s)
    BY <1>1, NewState, MildNewState DEF LibStates, Ends
  <2> QED
    BY <1>3, <1>4, <1>9, <2>1 DEF TimerDeallocate, BeginDeallocation
<1>10. CASE Deallocate(c)
  <2>1. EndDeallocation(s) \in Lib /\ Mild(EndDeallocation(s), s)
    BY <1>1, EndDealloc, MildEndDealloc DEF Queued
  <2> QED
    BY <1>3, <1>4, <1>10, <2>1 DEF Deallocate
<1>11. CASE TimerRegister(c)
  <2> DEFINE e == [s EXCEPT !.sockets = TRUE]
             t == lib_continue_registration(e)
  <2>1. CASE Step(c, [t EXCEPT !.pc = "rest"])
    <3>1. e \in Lib /\ Mild(e, s)
      BY <1>1, MildSame DEF Lib
    <3> HIDE DEF e
    <3>2. t \in Lib /\ Mild(t, s)
      BY <3>1, ContinueRegistration, MildContinue, MildThen DEF Queued
    <3> HIDE DEF t
    <3> QED
      BY <1>3, <1>4, <2>1, <3>2
  <2>2. ASSUME NEW open \in BOOLEAN,
               Step(c, [lib_change_state(s, "WAIT", "OTHER")
                          EXCEPT !.sockets = open, !.registered = FALSE, !.pc = "rest"])
        PROVE  Does(lib'[c], s)
    <3> DEFINE w == [lib_change_state(s, "WAIT", "OTHER")
                       EXCEPT !.sockets = open, !.registered = FALSE]
    <3>1. /\ w \in Lib /\ w.target = "WAIT" /\ w.terminate = s.terminate
          /\ w.pc = s.pc /\ w.calls = s.calls
      BY <1>1 DEF lib_change_state, Lib, Targets, LibErrs
    <3>2. Step(c, [w EXCEPT !.pc = "rest"])
      BY <2>2
    <3> HIDE DEF w
    <3>3. Mild(w, s)
      BY <3>1 DEF Mild, Told
    <3> QED
      BY <1>3, <1>4, <3>1, <3>2, <3>3
  <2> QED
    BY <1>11, <2>1, <2>2 DEF TimerRegister
<1>12. CASE TimerDecode(c)
  BY <1>1, <1>3, <1>4, <1>12 DEF TimerDecode
<1>13. ASSUME NEW st \in {"RUNWAIT", "RUN"}, Step(c, [new_state(s, st) EXCEPT !.pc = "rest"])
       PROVE  Does(lib'[c], s)
  <2>1. new_state(s, st) \in Lib /\ Mild(new_state(s, st), s)
    BY <1>1, NewState, MildNewState DEF LibStates, Ends
  <2> QED
    BY <1>3, <1>4, <1>13, <2>1
<1>14. CASE decode_cfg(c)
  BY <1>13, <1>14 DEF decode_cfg
<1>15. CASE TimerRun(c)
  BY <1>13, <1>15 DEF TimerRun
<1>16. CASE TimerTerminate(c)
  <2> DEFINE t == [s EXCEPT !.terminate = TRUE, !.pc = "rest"]
  <2>1. s.target = "TERM" /\ lib'[c] = t
    BY <1>16, OnlyThat DEF TimerTerminate
  <2> QED
    BY <1>1, <1>2, <2>1 DEF Lib, Quits, Does
<1>17. CASE ThreadExits(c)
  <2> DEFINE n == new_state(s, "TERM")
             t == [n EXCEPT !.pc = "exited"]
  <2>1. s.terminate /\ lib'[c] = t
    BY <1>17, OnlyThat DEF ThreadExits
  <2>2. n \in Lib /\ n.libstate = "TERM" /\ n.registered = s.registered
        /\ n.target = s.target
    BY <1>1, NewState, ToldNewState DEF LibStates
  <2>3. n.calls = <<"TERM">>
    BY <1>1, <1>2 DEF new_state, state_callback, Lib
  <2> HIDE DEF n
  <2>4. /\ t.libstate = n.libstate /\ t.registered = n.registered /\ t.pc = "exited"
        /\ t.target = n.target /\ t.calls = n.calls
    BY <2>2 DEF Lib
  <2> HIDE DEF t
  <2> QED
    BY <1>2, <2>1, <2>2, <2>3, <2>4 DEF Exits, Does
<1> QED
  BY <1>2, <1>5, <1>6, <1>7, <1>8, <1>9, <1>10, <1>11, <1>12, <1>14, <1>15, <1>16, <1>17

LEMMA SecondDoes ==
  ASSUME StationInv, NEW c \in Contexts,
         \/ TimerParked(c) \/ TimerRetry(c) \/ DeregTimeout(c)
         \/ TimerSecond(c) \/ lib_stats_timer(c) \/ Buffers(c)
  PROVE  /\ lib[c].calls = << >> /\ lib[c].pc \notin {"none", "exited"}
         /\ Does(lib'[c], lib[c])
<1> DEFINE s == lib[c]
<1>1. s \in Lib /\ Queued(s)
  BY One
<1>2. s.calls = << >> /\ s.pc \in {"loop", "rest", "second"}
  BY DEF TimerParked, TimerRetry, DeregTimeout, TimerSecond, lib_stats_timer,
         Buffers, AtLoop, At
<1> SUFFICES Does(lib'[c], s)
  BY <1>2
<1>3. ASSUME NEW t \in Lib, Mild(t, s), NEW p \in ProgramPoints \ {"none", "exited"},
             Step(c, [t EXCEPT !.pc = p])
      PROVE  Does(lib'[c], s)
  BY <1>2, <1>3, CalmStep
<1>4. /\ {"rest", "loop", "second"} \subseteq ProgramPoints \ {"none", "exited"}
      /\ Mild(s, s)
  BY MildSame DEF ProgramPoints
<1>5. ASSUME NEW t, Mild(t, s), Step(c, t) PROVE Does(lib'[c], s)
  BY <1>2, <1>5, CalmMade
<1>6. CASE TimerParked(c)
  <2> DEFINE w == lib_change_state(s, "RUNWAIT", "OTHER")
  <2>1. /\ w \in Lib /\ w.target = "RUNWAIT" /\ w.terminate = s.terminate
        /\ w.pc = s.pc /\ w.calls = s.calls
    BY <1>1 DEF lib_change_state, Lib, Targets, LibErrs
  <2>2. Step(c, [s EXCEPT !.pc = "loop"]) \/ Step(c, [w EXCEPT !.pc = "loop"])
    BY <1>6 DEF TimerParked
  <2> HIDE DEF w
  <2>3. Mild(w, s)
    BY <2>1 DEF Mild, Told
  <2> QED
    BY <1>1, <1>3, <1>4, <2>1, <2>2, <2>3
<1>7. CASE TimerRetry(c)
  <2> DEFINE e == [s EXCEPT !.cphase = "NEED", !.stalled = TRUE]
             u == state_callback(e, "STALL_ON")
             k == clear_cmsg(s)
  <2>1. \/ Step(c, [s EXCEPT !.pc = "second"])
        \/ s.cmdq # << >> /\ Step(c, [k EXCEPT !.pc = "second"])
        \/ Step(c, [e EXCEPT !.pc = "second"])
        \/ Step(c, [u EXCEPT !.pc = "second"])
    BY <1>7 DEF TimerRetry
  <2>2. e \in Lib /\ Mild(e, s)
    BY <1>1, MildSame DEF Lib, Phases
  <2> HIDE DEF e
  <2>3. u \in Lib /\ Mild(u, s)
    BY <2>2, StateCallback, MildCallback, MildThen DEF Notices, Ends, LibStates
  <2> HIDE DEF u
  <2>4. s.cmdq # << >> => k \in Lib /\ Mild(k, s)
    BY <1>1, ClearCmsg, MildClear DEF Queued
  <2> HIDE DEF k
  <2> QED
    BY <1>1, <1>3, <1>4, <2>1, <2>2, <2>3, <2>4
<1>8. CASE DeregTimeout(c)
  <2> DEFINE u == purge_cmdq(s)
             n == new_state(u, u.target)
             t == [[[n EXCEPT !.sockets = FALSE] EXCEPT !.registered = FALSE]
                     EXCEPT !.pc = "loop"]
  <2>1. lib'[c] = t
    BY <1>8, OnlyThat DEF DeregTimeout, close_sockets
  <2>2. u \in Lib /\ Mild(u, s) /\ u.target = s.target
    BY <1>1, Purge, PurgeSettles, MildPurge DEF Settled
  <2>3. u.target \in LibStates
    BY <2>2 DEF Lib, Targets, LibStates
  <2> HIDE DEF u
  <2>4. /\ n \in Lib /\ n.libstate = u.target /\ n.target = u.target
        /\ n.terminate = u.terminate /\ Told(n) = Told(u) \union {u.target}
    BY <2>2, <2>3, NewState, ToldNewState
  <2> HIDE DEF n
  <2>5. /\ t.libstate = n.libstate /\ ~t.registered /\ t.pc = "loop"
        /\ t.target = n.target /\ t.terminate = n.terminate /\ t.calls = n.calls
    BY <2>4 DEF Lib
  <2> HIDE DEF t
  <2>6. Told(t) = Told(n) /\ Told(s) = {}
    BY <1>2, <2>5 DEF Told
  <2> QED
    BY <1>2, <2>1, <2>2, <2>4, <2>5, <2>6 DEF Mild, Obeys, Does
<1>9. CASE TimerSecond(c)
  <2>1. PICK noData \in BOOLEAN, askStatus \in BOOLEAN, noAnswer \in BOOLEAN,
             noStatus \in BOOLEAN :
          LET running == s.libstate = "RUN"
              inSession == s.libstate \in {"READCFG", "READTOK", "DECTOK",
                                          "RUNWAIT", "RUN"}
              s1 == IF running /\ noData THEN GiveUp(s, "GONE") ELSE s
              s2 == IF running /\ askStatus THEN new_cmd(s1, "RQSTAT") ELSE s1
              s3 == IF s.libstate = "REG" /\ noAnswer
                    THEN [GiveUp(s2, "OTHER") EXCEPT !.registered = FALSE] ELSE s2
              s4 == IF inSession /\ noStatus THEN GiveUp(s3, "OTHER") ELSE s3
          IN  Step(c, [lib_send_next_cmd(s4) EXCEPT !.pc = "loop"])
    BY <1>9 DEF TimerSecond
  <2> DEFINE s1 == IF s.libstate = "RUN" /\ noData THEN GiveUp(s, "GONE") ELSE s
             s2 == IF s.libstate = "RUN" /\ askStatus
                   THEN new_cmd(s1, "RQSTAT") ELSE s1
             g3 == GiveUp(s2, "OTHER")
             r3 == [g3 EXCEPT !.registered = FALSE]
             s3 == IF s.libstate = "REG" /\ noAnswer THEN r3 ELSE s2
             s4 == IF s.libstate \in {"READCFG", "READTOK", "DECTOK", "RUNWAIT",
                                     "RUN"} /\ noStatus
                   THEN GiveUp(s3, "OTHER") ELSE s3
             s5 == lib_send_next_cmd(s4)
  <2>2. Step(c, [s5 EXCEPT !.pc = "loop"])
    BY <2>1
  <2>3. "GONE" \in LibErrs /\ "OTHER" \in LibErrs /\ "RQSTAT" \in Commands
    BY DEF LibErrs, Commands
  <2>4. Queued(s1) /\ s1 \in Lib /\ Mild(s1, s)
    BY <1>1, <1>4, <2>3, GiveUpEmpties, MildGiveUp DEF Queued
  <2> HIDE DEF s1
  <2>5. Queued(s2) /\ s2 \in Lib /\ Mild(s2, s)
    BY <2>3, <2>4, NewCmd, MildNewCmd, MildThen DEF Queued
  <2> HIDE DEF s2
  <2>6. Queued(g3) /\ g3 \in Lib /\ Mild(g3, s)
    BY <2>3, <2>5, GiveUpEmpties, MildGiveUp, MildThen DEF Queued
  <2> HIDE DEF g3
  <2>7. Queued(r3) /\ r3 \in Lib /\ Mild(r3, g3)
    BY <2>6, Unregister, MildSame DEF Lib, Queued
  <2> HIDE DEF r3
  <2>8. Queued(s3) /\ s3 \in Lib /\ Mild(s3, s)
    BY <2>5, <2>6, <2>7, MildThen
  <2> HIDE DEF s3
  <2>9. Queued(s4) /\ s4 \in Lib /\ Mild(s4, s)
    BY <2>3, <2>8, GiveUpEmpties, MildGiveUp, MildThen DEF Queued
  <2> HIDE DEF s4
  <2>10. s5 \in Lib /\ Mild(s5, s)
    BY <2>9, SendNext, MildSend, MildThen DEF Queued
  <2> HIDE DEF s5
  <2> QED
    BY <1>3, <1>4, <2>2, <2>10
<1>10. CASE lib_stats_timer(c)
  BY <1>1, <1>5, <1>10, MildCallback DEF lib_stats_timer, Notices, Ends, LibStates
<1>11. CASE Buffers(c)
  <2>1. Mild([s EXCEPT !.nobufs = ~@], s)
    BY <1>1, MildSame DEF Lib
  <2> QED
    BY <1>5, <1>11, <2>1 DEF Buffers
<1> QED
  BY <1>2, <1>6, <1>7, <1>8, <1>9, <1>10, <1>11

\* A target the thread sets by itself is WAIT or RUNWAIT.
LEMMA MildTarget ==
  ASSUME NEW s \in Lib, NEW target \in {"WAIT", "RUNWAIT"}, NEW reason \in LibErrs
  PROVE  LET t == lib_change_state(s, target, reason) IN
         t \in Lib /\ Mild(t, s) /\ t.cmdq = s.cmdq
BY DEF lib_change_state, Lib, Mild, Told, Targets

LEMMA ReaderDoes ==
  ASSUME StationInv, NEW c \in Contexts, Reader(c)
  PROVE  /\ lib[c].calls = << >> /\ lib[c].pc \notin {"none", "exited"}
         /\ Does(lib'[c], lib[c])
<1> DEFINE s == lib[c]
           k == clear_cmsg(s)
<1>1. s \in Lib
  BY One
<1>2. s.calls = << >> /\ s.pc = "loop"
  BY DEF Reader, ServerChallenge, RegistrationAccepted, ConfigRead, StatusRead,
         read_q330_cfg, PingAnswered, Deregistered, CommandRefused,
         ConnectionReset, DataTick, Answered, Listening, AtLoop, At
<1> SUFFICES Does(lib'[c], s)
  BY <1>2
<1>3. ASSUME NEW t, Mild(t, s), Step(c, t) PROVE Does(lib'[c], s)
  BY <1>2, <1>3, CalmMade
<1>4. ASSUME s.cmdq # << >>
      PROVE  k \in Lib /\ Mild(k, s)
  BY <1>1, <1>4, ClearCmsg, MildClear DEF Queued
<1> HIDE DEF k
<1>5. CASE ServerChallenge(c)
  <2>1. s.cmdq # << >> /\ Step(c, new_cmd(k, "SRVRSP"))
    BY <1>5 DEF ServerChallenge, Answered, k
  <2>2. "SRVRSP" \in Commands
    BY DEF Commands
  <2> QED
    BY <1>3, <1>4, <2>1, <2>2, MildNewCmd, MildThen
<1>6. CASE RegistrationAccepted(c)
  <2> DEFINE e == [k EXCEPT !.registered = TRUE]
  <2>1. s.cmdq # << >> /\ Step(c, lib330_reboot(e))
    BY <1>6 DEF RegistrationAccepted, Answered, k
  <2>2. e \in Lib /\ Mild(e, k)
    BY <1>4, <2>1, MildSame DEF Lib
  <2> HIDE DEF e
  <2> QED
    BY <1>3, <1>4, <2>1, <2>2, MildReboot, MildThen
<1>7. CASE ConfigRead(c)
  <2>1. s.cmdq # << >>
    BY <1>7 DEF ConfigRead, Answered
  <2>2. Step(c, state_callback(k, "CFG")) \/ Step(c, start_deregistration(s))
    BY <1>7 DEF ConfigRead, k
  <2>3. "CFG" \in Notices \ Ends
    BY DEF Notices, Ends
  <2> QED
    BY <1>1, <1>3, <1>4, <2>1, <2>2, <2>3, MildCallback, MildDereg, MildThen
<1>8. CASE StatusRead(c)
  <2>1. s.cmdq # << >>
    BY <1>8 DEF StatusRead, Answered
  <2>2. PICK notice \in {"STATUS", "STATUS_GLB"}, changed \in BOOLEAN,
             powerOff \in BOOLEAN, more \in BOOLEAN :
          LET s1 == IF changed
                    THEN lib_change_state(s, "RUNWAIT", "TOKENS_CHANGE") ELSE s
              s2 == IF powerOff THEN lib_change_state(s1, "WAIT", "OTHER") ELSE s1
              s3 == clear_cmsg(state_callback(s2, notice))
          IN  /\ powerOff => notice = "STATUS" /\ s.libstate = "RUN"
              /\ Step(c, CASE more -> new_cmd(s3, "RQSTAT")
                           [] ~more /\ s.rebootDone -> s3
                           [] OTHER -> cfg_start([s3 EXCEPT !.rebootDone = TRUE]))
    BY <1>8, Zenon DEF StatusRead
  <2> DEFINE s1 == IF changed
                   THEN lib_change_state(s, "RUNWAIT", "TOKENS_CHANGE") ELSE s
             s2 == IF powerOff THEN lib_change_state(s1, "WAIT", "OTHER") ELSE s1
             u == state_callback(s2, notice)
             s3 == clear_cmsg(u)
             e == [s3 EXCEPT !.rebootDone = TRUE]
  <2>3. \/ Step(c, new_cmd(s3, "RQSTAT"))
        \/ Step(c, s3)
        \/ Step(c, cfg_start(e))
    BY <2>2
  <2>4. /\ "OTHER" \in LibErrs /\ "TOKENS_CHANGE" \in LibErrs
        /\ notice \in Notices \ Ends /\ "RQSTAT" \in Commands
    BY DEF LibErrs, Notices, Ends, LibStates, Commands
  <2>5. s1 \in Lib /\ Mild(s1, s) /\ s1.cmdq = s.cmdq
    BY <1>1, <2>4, MildTarget, MildSame
  <2> HIDE DEF s1
  <2>6. s2 \in Lib /\ Mild(s2, s) /\ s2.cmdq = s.cmdq
    BY <2>4, <2>5, MildTarget, MildThen
  <2> HIDE DEF s2
  <2>7. u \in Lib /\ Mild(u, s) /\ u.cmdq # << >>
    BY <2>1, <2>4, <2>6, StateCallback, MildCallback, MildThen
  <2> HIDE DEF u
  <2>8. s3 \in Lib /\ Mild(s3, s)
    BY <2>7, ClearCmsg, MildClear, MildThen DEF Queued
  <2> HIDE DEF s3
  <2>9. e \in Lib /\ Mild(e, s3)
    BY <2>8, MildSame DEF Lib
  <2> HIDE DEF e
  <2> QED
    BY <1>3, <2>3, <2>4, <2>8, <2>9, MildNewCmd, MildCfg, MildThen
<1>9. CASE read_q330_cfg(c)
  <2>1. s.cmdq # << >>
    BY <1>9 DEF read_q330_cfg, Answered
  <2>2. Step(c, new_state(k, "DECTOK")) \/ Step(c, new_cmd(k, "RQMEM")) \/ Step(c, k)
    BY <1>9 DEF read_q330_cfg, k
  <2>3. "DECTOK" \in LibStates \ Ends /\ "RQMEM" \in Commands
    BY DEF LibStates, Ends, Commands
  <2> QED
    BY <1>3, <1>4, <2>1, <2>2, <2>3, MildNewState, MildNewCmd, MildThen
<1>10. CASE PingAnswered(c)
  BY <1>3, <1>4, <1>10 DEF PingAnswered, Answered, k
<1>11. CASE Deregistered(c)
  <2> DEFINE n == new_state(k, k.target)
             t == [[n EXCEPT !.registered = FALSE] EXCEPT !.sockets = FALSE]
  <2>1. s.cmdq # << >> /\ lib'[c] = t
    BY <1>11, OnlyThat DEF Deregistered, Answered, close_sockets, k
  <2>2. k \in Lib /\ Mild(k, s) /\ k.target = s.target
    BY <1>1, <1>4, <2>1, ClearSettles DEF Settled, k
  <2>3. k.target \in LibStates
    BY <2>2 DEF Lib, Targets, LibStates
  <2>4. /\ n \in Lib /\ n.libstate = k.target /\ n.target = k.target
        /\ n.terminate = k.terminate /\ n.pc = k.pc
        /\ Told(n) = Told(k) \union {k.target}
    BY <2>2, <2>3, NewState, ToldNewState
  <2> HIDE DEF n
  <2>5. /\ t.libstate = n.libstate /\ ~t.registered /\ t.pc = n.pc
        /\ t.target = n.target /\ t.terminate = n.terminate /\ t.calls = n.calls
    BY <2>4 DEF Lib
  <2> HIDE DEF t
  <2>6. Told(t) = Told(n) /\ Told(s) = {}
    BY <1>2, <2>5 DEF Told
  <2> QED
    BY <1>2, <2>1, <2>2, <2>4, <2>5, <2>6 DEF Mild, Obeys, Does
<1>12. CASE CommandRefused(c)
  <2> DEFINE m == IF Head(s.cmdq) = "RQMEM" THEN s ELSE k
  <2>1. s.cmdq # << >>
    BY <1>12 DEF CommandRefused
  <2>2. m \in Lib /\ Mild(m, s)
    BY <1>1, <1>4, <2>1, MildSame
  <2>3. \/ Step(c, m)
        \/ \E err \in {"GONE", "OTHER"} :
             Step(c, [lib_change_state(m, "WAIT", err) EXCEPT !.registered = FALSE])
        \/ Step(c, lib_change_state(m, "WAIT", "OTHER"))
    BY <1>12 DEF CommandRefused, k
  <2> HIDE DEF m
  <2>4. ASSUME NEW err \in LibErrs
        PROVE  /\ Mild(lib_change_state(m, "WAIT", err), s)
               /\ Mild([lib_change_state(m, "WAIT", err) EXCEPT !.registered = FALSE], s)
    <3> DEFINE w == lib_change_state(m, "WAIT", err)
               x == [w EXCEPT !.registered = FALSE]
    <3>1. w \in Lib /\ Mild(w, s)
      BY <2>2, MildTarget, MildThen
    <3> HIDE DEF w
    <3>2. Mild(x, w)
      BY <3>1, MildSame DEF Lib
    <3> HIDE DEF x
    <3>3. Mild(x, s)
      BY <3>1, <3>2, MildThen
    <3> QED
      BY <3>1, <3>3 DEF w, x
  <2>5. {"GONE", "OTHER"} \subseteq LibErrs
    BY DEF LibErrs
  <2> QED
    BY <1>3, <2>2, <2>3, <2>4, <2>5
<1>13. CASE ConnectionReset(c)
  <2> DEFINE u == purge_cmdq(s)
             v == close_sockets(u)
             r == [v EXCEPT !.liberr = "GONE"]
             n == new_state(r, "WAIT")
             d == new_state(r, "DEALLOC")
  <2>1. \/ Step(c, [d EXCEPT !.pc = "deallocIo"])
        \/ \E target \in {r.target, "WAIT"} :
             Step(c, [n EXCEPT !.registered = FALSE, !.target = target])
    BY <1>13 DEF ConnectionReset, BeginDeallocation
  <2>2. u \in Lib /\ Mild(u, s)
    BY <1>1, Purge, MildPurge
  <2> HIDE DEF u
  <2>3. v \in Lib /\ Mild(v, u)
    BY <2>2, CloseSockets, MildSame DEF close_sockets, Lib
  <2> HIDE DEF v
  <2>4. r \in Lib /\ Mild(r, v)
    BY <2>3, MildSame DEF Lib, LibErrs
  <2> HIDE DEF r
  <2>5. Mild(r, s)
    BY <2>2, <2>3, <2>4, MildThen
  <2>6. n \in Lib /\ Mild(n, s) /\ n.target = r.target /\ d \in Lib /\ Mild(d, s)
    <3>1. {"WAIT", "DEALLOC"} \subseteq LibStates \ Ends
      BY DEF LibStates, Ends
    <3> QED
      BY <2>4, <2>5, <3>1, NewState, ToldNewState, MildNewState, MildThen
  <2> HIDE DEF n, d
  <2>7. CASE Step(c, [d EXCEPT !.pc = "deallocIo"])
    <3>1. "deallocIo" \in ProgramPoints \ {"none", "exited"}
      BY DEF ProgramPoints
    <3> QED
      BY <1>2, <2>6, <2>7, <3>1, CalmStep
  <2>8. ASSUME NEW target \in {r.target, "WAIT"},
               Step(c, [n EXCEPT !.registered = FALSE, !.target = target])
        PROVE  Does(lib'[c], s)
    <3> DEFINE w == [n EXCEPT !.registered = FALSE, !.target = target]
    <3>1. /\ w.target = target /\ w.terminate = n.terminate /\ w.pc = n.pc
          /\ w.calls = n.calls
      BY <2>6 DEF Lib
    <3>2. Step(c, w)
      BY <2>8
    <3> HIDE DEF w
    <3>3. Mild(w, s)
      BY <2>5, <2>6, <3>1 DEF Mild, Told
    <3> QED
      BY <1>3, <3>2, <3>3
  <2> QED
    BY <2>1, <2>7, <2>8
<1>14. CASE DataTick(c)
  <2>1. "TICK" \in Notices \ Ends
    BY DEF Notices, Ends, LibStates
  <2> QED
    BY <1>1, <1>3, <1>14, <2>1, MildCallback DEF DataTick
<1> QED
  BY <1>5, <1>6, <1>7, <1>8, <1>9, <1>10, <1>11, <1>12, <1>13, <1>14 DEF Reader

\* Whatever a thread does, it says no more than that.
LEMMA ThreadDoes ==
  ASSUME StationInv, NEW c \in Contexts, Thread(c)
  PROVE  /\ lib[c].calls = << >> /\ lib[c].pc \notin {"none", "exited"}
         /\ Does(lib'[c], lib[c])
BY TargetDoes, SecondDoes, ReaderDoes DEF Thread, Timer

\* It changes nothing but its own context and keeps the station invariant.
LEMMA ThreadKeeps ==
  ASSUME StationInv, NEW c \in Contexts, Thread(c)
  PROVE  StationInv' /\ \A d \in Contexts \ {c} : lib'[d] = lib[d]
<1>1. StationInv'
  BY TargetKeeps, SecondKeeps, ReaderKeeps DEF Thread, Timer
<1> SUFFICES \E t : Step(c, t)
  BY <1>1, OnlyThat
<1>2. ASSUME NEW t, Step(c, t) PROVE \E u : Step(c, u)
  BY <1>2
<1>3. CASE \/ TimerNoChange(c) \/ TimerStopEarly(c) \/ TimerApply(c)
           \/ TimerDeregister(c) \/ TimerDeallocate(c) \/ Deallocate(c)
  BY <1>3, Zenon DEF TimerNoChange, TimerStopEarly, TimerApply, TimerDeregister,
                     TimerDeallocate, Deallocate
<1>4. CASE \/ TimerRegister(c) \/ TimerDecode(c) \/ decode_cfg(c) \/ TimerRun(c)
           \/ TimerTerminate(c) \/ ThreadExits(c)
  BY <1>4, Zenon DEF TimerRegister, TimerDecode, decode_cfg, TimerRun,
                     TimerTerminate, ThreadExits
<1>5. CASE \/ TimerParked(c) \/ TimerRetry(c) \/ DeregTimeout(c) \/ TimerSecond(c)
           \/ lib_stats_timer(c) \/ Buffers(c)
  BY <1>5, ZenonT(60) DEF TimerParked, TimerRetry, DeregTimeout, TimerSecond,
                     lib_stats_timer, Buffers
<1>6. CASE \/ ServerChallenge(c) \/ RegistrationAccepted(c) \/ ConfigRead(c)
           \/ StatusRead(c) \/ read_q330_cfg(c)
  BY <1>6, Zenon DEF ServerChallenge, RegistrationAccepted, ConfigRead, StatusRead,
                     read_q330_cfg
<1>7. CASE \/ PingAnswered(c) \/ Deregistered(c) \/ CommandRefused(c)
           \/ ConnectionReset(c) \/ DataTick(c)
  BY <1>7, Zenon DEF PingAnswered, Deregistered, CommandRefused, ConnectionReset,
                     DataTick
<1> QED
  BY <1>3, <1>4, <1>5, <1>6, <1>7 DEF Thread, Timer, Reader

-----------------------------------------------------------------------------
(* The inductive invariant of the connection.  It says of every notice on  *)
(* its way (in calls, in state, in q330_state) which thread can have sent  *)
(* it and what that thread can have done since.                            *)

\* At rest in IDLE, or at its end; WAIT and RUNWAIT are not asked of it.
Idled(s) ==
  /\ s.libstate \in {"IDLE", "TERM"} /\ s.target \in {"IDLE", "RUN", "TERM"}
  /\ ~s.registered /\ s.pc \in {"loop", "rest", "exited"}
  /\ s.pc = "exited" <=> s.libstate = "TERM"
  /\ "TERM" \in Told(s) => s.pc = "exited"

\* Alive, and not asked to end.
Unended(s) ==
  /\ s.target # "TERM" /\ ~s.terminate /\ "TERM" \notin Told(s)
  /\ s.pc \notin {"none", "exited"}

\* Context c is in the hands of connect, between create and register.
New(c) == py = "created" /\ c = station_context

\* A thread that came to rest; its last word has come no further than S.
Witness(c, S) ==
  /\ Idled(lib[c]) /\ ~New(c)
  /\ lib[c].pc = "exited" => lib[c].calls = <<"TERM">> /\ served[c] \in S

\* The client has heard the last of the context.
Heard(c) == served[c] # "stored" /\ (served[c] = "waiting" => lib[c].calls = << >>)

Places ==
  /\ station_context \in Contexts \union {NIL} /\ destroyed \subseteq Contexts
  /\ served \in [Contexts -> {"waiting", "stored", "copied"}]
  /\ py = "forget" => station_context = NIL

Notified(c) ==
  /\ served[c] # "waiting" => lib[c].calls # << >>
  /\ lib[c].pc = "exited" => lib[c].calls \in {<< >>, <<"TERM">>}
  /\ lib[c].pc = "none" => lib[c].calls = << >>
  /\ "IDLE" \in Told(lib[c]) => Idled(lib[c]) /\ lib[c].pc # "exited"

IdleStored == state = "IDLE" => \E c \in Contexts : Witness(c, {"waiting"})

IdleCopied ==
  q330_state = "IDLE" => \E c \in Contexts : Witness(c, {"waiting", "stored"})

TermStored ==
  state = "TERM" /\ q330_state = "IDLE"
    => \E c \in Contexts : served[c] = "stored" /\ "TERM" \in Told(lib[c])

NewIsIdle ==
  py = "created" /\ station_context # NIL
    => Idled(lib[station_context]) /\ "IDLE" \notin Told(lib[station_context])

ConnectedIsUnended ==
  py \in {"created", "up", "down", "pollIdle", "askTerm"} /\ station_context # NIL
    => Unended(lib[station_context])

\* disconnect has taken the notice of IDLE for what it is.
Stopping(c) ==
  /\ Alone /\ Idled(lib[c])
  /\ state = "TERM"
       => lib[c].pc = "exited" /\ (served[c] = "waiting" => lib[c].calls = << >>)
  /\ q330_state = "TERM" \/ py = "destroy" => lib[c].pc = "exited" /\ Heard(c)

Stops ==
  py \in {"askTerm", "pollTerm", "destroy"} /\ ~misread /\ station_context # NIL
    => Stopping(station_context)

Freed ==
  py = "forget" /\ ~misread
    => \A c \in destroyed : lib[c].pc \in {"none", "exited"} /\ Heard(c)

ConnectorInv ==
  /\ StationInv /\ Places /\ \A c \in Contexts : Notified(c)
  /\ IdleStored /\ IdleCopied /\ TermStored
  /\ NewIsIdle /\ ConnectedIsUnended /\ Stops /\ Freed

\* What is to be told, as the calls change.
LEMMA ToldNone == \A s : s.calls = << >> => Told(s) = {}
BY DEF Told

LEMMA ToldSame == \A s, t : t.calls = s.calls => Told(t) = Told(s)
BY DEF Told

LEMMA ToldOne == \A s, n : s.calls = <<n>> => Told(s) = {n}
BY DEF Told

LEMMA ToldHead ==
  ASSUME NEW s \in Lib, s.calls # << >>
  PROVE  Head(s.calls) \in Told(s)
<1>1. s.calls \in Seq(Notices)
  BY DEF Lib
<1>2. Head(s.calls) = s.calls[1] /\ 1 \in 1 .. Len(s.calls)
  BY <1>1
<1> QED
  BY <1>2 DEF Told

LEMMA ToldTail ==
  ASSUME NEW s \in Lib, NEW t, s.calls # << >>, t.calls = Tail(s.calls)
  PROVE  Told(t) \subseteq Told(s)
<1> DEFINE q == s.calls
           r == Tail(q)
<1>1. q \in Seq(Notices) /\ q # << >>
  BY DEF Lib
<1>2. /\ Len(q) \in Nat \ {0} /\ Len(r) = Len(q) - 1
      /\ \A i \in 1 .. Len(r) : r[i] = q[i + 1] /\ i + 1 \in 1 .. Len(q)
  BY <1>1
<1> HIDE DEF q, r
<1>3. {r[i] : i \in 1 .. Len(r)} \subseteq {q[i] : i \in 1 .. Len(q)}
  BY <1>2
<1> QED
  BY <1>3 DEF Told, q, r

\* A request of the client moves no thread.
LEMMA IdledKept ==
  ASSUME NEW s, NEW t, Idled(s), t.libstate = s.libstate, t.pc = s.pc,
         t.registered = s.registered, t.target \in {s.target, "IDLE", "RUN", "TERM"},
         Told(t) \subseteq Told(s)
  PROVE  Idled(t)
BY DEF Idled

LEMMA StationKept ==
  ASSUME StationInv, lib' \in [Contexts -> Lib],
         \A c \in Contexts :
           /\ lib'[c].libstate = lib[c].libstate /\ lib'[c].pc = lib[c].pc
           /\ lib'[c].registered = lib[c].registered /\ lib'[c].cmdq = lib[c].cmdq
           /\ lib'[c].cphase = lib[c].cphase /\ lib'[c].stalled = lib[c].stalled
  PROVE  StationInv'
BY DEF StationInv, TypeOK, Consistent

LEMMA Requested ==
  ASSUME StationInv, NEW c \in Contexts, NEW target \in {"IDLE", "TERM"},
         ClientRequests(c, target)
  PROVE  /\ StationInv'
         /\ \A d \in Contexts \ {c} : lib'[d] = lib[d]
         /\ lib'[c].libstate = lib[c].libstate /\ lib'[c].pc = lib[c].pc
         /\ lib'[c].registered = lib[c].registered /\ lib'[c].calls = lib[c].calls
         /\ lib'[c].terminate = lib[c].terminate /\ lib'[c].target = target
<1> DEFINE t == lib_change_state(lib[c], target, "OTHER")
<1>1. lib[c] \in Lib
  BY One
<1>2. lib'[c] = t /\ \A d \in Contexts \ {c} : lib'[d] = lib[d]
  BY OnlyThat DEF ClientRequests
<1>3. StationInv'
  BY ClientKeeps DEF Client
<1>4. /\ t.libstate = lib[c].libstate /\ t.pc = lib[c].pc
      /\ t.registered = lib[c].registered /\ t.calls = lib[c].calls
      /\ t.terminate = lib[c].terminate /\ t.target = target
  BY <1>1 DEF lib_change_state, Lib
<1> QED
  BY <1>2, <1>3, <1>4

\* A thread at rest in IDLE can only rest on, or come to its end.
LEMMA IdledThread ==
  ASSUME StationInv, NEW c \in Contexts, Thread(c), Idled(lib[c])
  PROVE  Idled(lib'[c]) /\ "IDLE" \notin Told(lib'[c])
<1> DEFINE s == lib[c]
<1>1. s \in Lib
  BY One
<1>2. s.calls = << >> /\ s.pc \in {"loop", "rest"} /\ s.libstate = "IDLE"
  BY ThreadDoes DEF Idled
<1>3. ~Reader(c)
  BY <1>2 DEF Reader, ServerChallenge, RegistrationAccepted, ConfigRead, StatusRead,
              read_q330_cfg, PingAnswered, Deregistered, CommandRefused,
              ConnectionReset, DataTick, Answered, Listening, OnLine
<1>4. ~(\/ TimerStopEarly(c) \/ TimerApply(c) \/ TimerDeregister(c)
        \/ TimerDeallocate(c) \/ Deallocate(c) \/ TimerRegister(c)
        \/ TimerDecode(c) \/ decode_cfg(c) \/ TimerRun(c))
  BY <1>2 DEF TimerStopEarly, TimerApply, TimerDeregister, TimerDeallocate,
              Deallocate, TimerRegister, TimerDecode, decode_cfg, TimerRun,
              At, Idled
<1>5. ~(TimerRetry(c) \/ DeregTimeout(c) \/ TimerSecond(c))
  BY <1>2 DEF TimerRetry, DeregTimeout, TimerSecond, At, OnLine
<1>6. ASSUME NEW t, lib'[c] = t, t.libstate = "IDLE", t.target = s.target,
             t.registered = s.registered, t.pc \in {"loop", "rest"},
             t.calls \in {<< >>, <<"OPSTAT">>}
      PROVE  Idled(lib'[c]) /\ "IDLE" \notin Told(lib'[c])
  <2>1. Told(t) \subseteq {"OPSTAT"}
    BY <1>6, ToldNone, ToldOne
  <2> QED
    BY <1>6, <2>1 DEF Idled
<1>7. CASE TimerNoChange(c) \/ TimerParked(c)
  <2>1. \E p \in {"loop", "rest"} : lib'[c] = [s EXCEPT !.pc = p]
    BY <1>2, <1>7, OnlyThat DEF TimerNoChange, TimerParked
  <2> QED
    BY <1>1, <1>2, <1>6, <2>1 DEF Lib
<1>8. CASE TimerTerminate(c)
  <2>1. lib'[c] = [s EXCEPT !.terminate = TRUE, !.pc = "rest"]
    BY <1>8, OnlyThat DEF TimerTerminate
  <2> QED
    BY <1>1, <1>2, <1>6, <2>1, ZenonT(60) DEF Lib
<1>9. CASE Buffers(c)
  <2>1. lib'[c] = [s EXCEPT !.nobufs = ~@]
    BY <1>9, OnlyThat DEF Buffers
  <2> QED
    BY <1>1, <1>2, <1>6, <2>1 DEF Lib
<1>10. CASE lib_stats_timer(c)
  <2>1. lib'[c] = [s EXCEPT !.calls = Append(@, "OPSTAT")]
    BY <1>10, OnlyThat DEF lib_stats_timer, state_callback
  <2> QED
    BY <1>1, <1>2, <1>6, <2>1 DEF Lib
<1>11. CASE ThreadExits(c)
  <2> DEFINE n == new_state(s, "TERM")
             t == [n EXCEPT !.pc = "exited"]
  <2>1. lib'[c] = t
    BY <1>11, OnlyThat DEF ThreadExits
  <2>2. /\ n \in Lib /\ n.libstate = "TERM" /\ n.registered = s.registered
        /\ n.target = s.target /\ Told(n) = Told(s) \union {"TERM"}
    BY <1>1, NewState, ToldNewState DEF LibStates
  <2> HIDE DEF n
  <2>3. /\ t.libstate = "TERM" /\ t.registered = s.registered /\ t.pc = "exited"
        /\ t.target = s.target /\ t.calls = n.calls
    BY <2>2 DEF Lib
  <2> HIDE DEF t
  <2>4. Told(t) = {"TERM"}
    BY <1>2, <2>2, <2>3, ToldNone, ToldSame
  <2> QED
    BY <2>1, <2>3, <2>4 DEF Idled
<1> QED
  BY <1>3, <1>4, <1>5, <1>7, <1>8, <1>9, <1>10, <1>11 DEF Thread, Timer

-----------------------------------------------------------------------------
(* Every step keeps it.  First the threads.                                *)
LEMMA ConnectorThread ==
  ASSUME ConnectorInv, NEW c \in Contexts, StationStep(c)
  PROVE  ConnectorInv'
<1> DEFINE k == station_context
<1> USE DEF StationStep, shared, loop
<1>1. StationInv /\ Places /\ \A d \in Contexts : Notified(d)
  BY DEF ConnectorInv
<1>2. StationInv' /\ \A d \in Contexts \ {c} : lib'[d] = lib[d]
  BY <1>1, ThreadKeeps
<1>3. /\ lib[c].calls = << >> /\ lib[c].pc \notin {"none", "exited"}
      /\ Does(lib'[c], lib[c]) /\ served[c] = "waiting"
  BY <1>1, ThreadDoes DEF Notified, Places
<1>4. Idled(lib[c]) => Idled(lib'[c]) /\ "IDLE" \notin Told(lib'[c])
  BY <1>1, IdledThread
<1>5. lib'[c].pc = "exited" => lib'[c].calls = <<"TERM">>
  BY <1>3 DEF Does, Calm, Obeys, Quits, Exits
<1>6. lib'[c].pc # "none"
  BY <1>3 DEF Does, Calm, Obeys, Quits, Exits
<1>7. "IDLE" \in Told(lib'[c]) => Idled(lib'[c]) /\ lib'[c].pc # "exited"
  <2>1. CASE Calm(lib'[c], lib[c])
    BY <2>1 DEF Calm, Ends
  <2>2. CASE Obeys(lib'[c], lib[c])
    BY <2>2 DEF Obeys, Ends, Idled
  <2>3. CASE Quits(lib'[c], lib[c])
    BY <2>3, ToldNone DEF Quits
  <2>4. CASE Exits(lib'[c], lib[c])
    BY <2>4, ToldOne DEF Exits
  <2> QED
    BY <1>3, <2>1, <2>2, <2>3, <2>4 DEF Does
<1>8. Unended(lib[c]) => Unended(lib'[c])
  <2> SUFFICES ASSUME Unended(lib[c]) PROVE Unended(lib'[c])
    OBVIOUS
  <2>1. CASE Calm(lib'[c], lib[c])
    BY <2>1 DEF Calm, Ends, Unended
  <2>2. CASE Obeys(lib'[c], lib[c])
    BY <2>2 DEF Obeys, Ends, Unended
  <2> QED
    BY <1>3, <2>1, <2>2 DEF Does, Quits, Exits, Unended
<1>9. Places' /\ \A d \in Contexts : Notified(d)'
  BY <1>1, <1>2, <1>3, <1>5, <1>6, <1>7 DEF Places, Notified
<1>10. ASSUME NEW d \in Contexts, NEW S, "waiting" \in S, Witness(d, S)
       PROVE  Witness(d, S)'
  BY <1>2, <1>3, <1>4, <1>5, <1>10 DEF Witness, New
<1>11. IdleStored' /\ IdleCopied'
  BY <1>10 DEF ConnectorInv, IdleStored, IdleCopied
<1>12. TermStored'
  BY <1>2, <1>3 DEF ConnectorInv, TermStored
<1>13. NewIsIdle' /\ ConnectedIsUnended'
  BY <1>1, <1>2, <1>4, <1>8 DEF ConnectorInv, Places, NewIsIdle, ConnectedIsUnended
<1>14. Stops'
  <2> SUFFICES ASSUME py \in {"askTerm", "pollTerm", "destroy"}, ~misread, k # NIL
               PROVE  Stopping(k)'
    BY DEF Stops
  <2>1. k \in Contexts /\ Stopping(k)
    BY <1>1 DEF ConnectorInv, Stops, Places
  <2>2. c = k
    BY <1>3, <2>1 DEF Stopping, Alone, Silent
  <2>3. Alone'
    BY <1>2, <2>1, <2>2 DEF Stopping, Alone, Silent
  <2> QED
    BY <1>3, <1>4, <2>1, <2>2, <2>3 DEF Stopping
<1>15. Freed'
  <2> SUFFICES ASSUME py = "forget", ~misread, NEW d \in destroyed
               PROVE  lib'[d].pc \in {"none", "exited"} /\ Heard(d)'
    BY DEF Freed
  <2>1. d \in Contexts /\ lib[d].pc \in {"none", "exited"} /\ Heard(d)
    BY <1>1 DEF ConnectorInv, Freed, Places
  <2> QED
    BY <1>2, <1>3, <2>1 DEF Heard
<1> QED
  BY <1>2, <1>9, <1>11, <1>12, <1>13, <1>14, <1>15 DEF ConnectorInv

(* The three points of a callback.                                         *)
LEMMA ConnectorStores ==
  ASSUME ConnectorInv, NEW c \in Contexts, my_state_callback(c)
  PROVE  ConnectorInv'
<1> DEFINE k == station_context
<1> USE DEF my_state_callback, loop
<1>1. /\ StationInv /\ Places /\ lib[c] \in Lib
      /\ \A d \in Contexts : Notified(d)
  BY One DEF ConnectorInv
<1>2. /\ served' \in [Contexts -> {"waiting", "stored", "copied"}]
      /\ served'[c] = "stored" /\ \A d \in Contexts \ {c} : served'[d] = served[d]
  BY <1>1 DEF Places
<1>3. state' \in Told(lib[c])
  BY <1>1, ToldHead
<1>4. StationInv' /\ Places'
  BY <1>1, <1>2 DEF StationInv, TypeOK, Consistent, Places
<1>5. \A d \in Contexts : Notified(d)'
  BY <1>1, <1>2 DEF Notified
<1>6. IdleStored'
  <2> SUFFICES ASSUME state' = "IDLE" PROVE Witness(c, {"waiting"})'
    BY DEF IdleStored
  <2>1. Idled(lib[c]) /\ lib[c].pc # "exited"
    BY <1>1, <1>3 DEF Notified
  <2>2. ~New(c)
    BY <1>1, <1>3, NilAssumption DEF ConnectorInv, NewIsIdle, New
  <2> QED
    BY <2>1, <2>2 DEF Witness, New
<1>7. IdleCopied'
  BY <1>2 DEF ConnectorInv, IdleCopied, Witness, New
<1>8. TermStored'
  BY <1>2, <1>3 DEF TermStored
<1>9. NewIsIdle' /\ ConnectedIsUnended'
  BY DEF ConnectorInv, NewIsIdle, ConnectedIsUnended
<1>10. Stops'
  <2> SUFFICES ASSUME py \in {"askTerm", "pollTerm", "destroy"}, ~misread, k # NIL
               PROVE  Stopping(k)'
    BY DEF Stops
  <2>1. k \in Contexts /\ Stopping(k)
    BY <1>1 DEF ConnectorInv, Stops, Places
  <2>2. c = k
    BY <2>1 DEF Stopping, Alone, Silent
  <2>3. Alone'
    BY <1>2, <2>1, <2>2 DEF Stopping, Alone, Silent
  <2>4. state' = "TERM" => lib[c].pc = "exited"
    BY <1>3, <2>1, <2>2 DEF Stopping, Idled
  <2> QED
    BY <1>2, <2>1, <2>2, <2>3, <2>4 DEF Stopping, Heard
<1>11. Freed'
  BY <1>1, <1>2 DEF ConnectorInv, Freed, Heard, Places
<1> QED
  BY <1>4, <1>5, <1>6, <1>7, <1>8, <1>9, <1>10, <1>11 DEF ConnectorInv

LEMMA ConnectorCopies ==
  ASSUME ConnectorInv, NEW c \in Contexts, state_callback_copies(c)
  PROVE  ConnectorInv'
<1> DEFINE k == station_context
<1> USE DEF state_callback_copies, loop
<1>1. /\ StationInv /\ Places /\ \A d \in Contexts : Notified(d)
  BY DEF ConnectorInv
<1>2. /\ served' \in [Contexts -> {"waiting", "stored", "copied"}]
      /\ served'[c] = "copied" /\ \A d \in Contexts \ {c} : served'[d] = served[d]
  BY <1>1 DEF Places
<1>3. StationInv' /\ Places'
  BY <1>1, <1>2 DEF StationInv, TypeOK, Consistent, Places
<1>4. \A d \in Contexts : Notified(d)'
  BY <1>1, <1>2 DEF Notified
<1>5. IdleStored' /\ IdleCopied'
  BY <1>2 DEF ConnectorInv, IdleStored, IdleCopied, Witness, New
<1>6. TermStored'
  BY DEF TermStored
<1>7. NewIsIdle' /\ ConnectedIsUnended'
  BY DEF ConnectorInv, NewIsIdle, ConnectedIsUnended
<1>8. Stops'
  <2> SUFFICES ASSUME py \in {"askTerm", "pollTerm", "destroy"}, ~misread, k # NIL
               PROVE  Stopping(k)'
    BY DEF Stops
  <2>1. k \in Contexts /\ Stopping(k)
    BY <1>1 DEF ConnectorInv, Stops, Places
  <2>2. c = k
    BY <2>1 DEF Stopping, Alone, Silent
  <2>3. Alone'
    BY <1>2, <2>1, <2>2 DEF Stopping, Alone, Silent
  <2> QED
    BY <1>2, <2>1, <2>2, <2>3 DEF Stopping, Heard
<1>9. Freed'
  BY <1>1, <1>2 DEF ConnectorInv, Freed, Heard, Places
<1> QED
  BY <1>3, <1>4, <1>5, <1>6, <1>7, <1>8, <1>9 DEF ConnectorInv

LEMMA ConnectorReturns ==
  ASSUME ConnectorInv, NEW c \in Contexts, state_callback_returns(c)
  PROVE  ConnectorInv'
<1> DEFINE k == station_context
           asked == q330_state = "RUNWAIT" /\ k # NIL
           answered == [lib EXCEPT ![c].calls = Tail(@)]
<1> USE DEF loop
<1>1. /\ StationInv /\ Places /\ \A d \in Contexts : Notified(d)
      /\ lib \in [Contexts -> Lib] /\ \A d \in Contexts : lib[d] \in Lib
  BY One DEF ConnectorInv, StationInv, TypeOK
<1>2. /\ served[c] = "copied" /\ lib[c].calls # << >>
      /\ served' \in [Contexts -> {"waiting", "stored", "copied"}]
      /\ served'[c] = "waiting" /\ \A d \in Contexts \ {c} : served'[d] = served[d]
      /\ UNCHANGED <<station_context, state, q330_state, py, destroyed, misread>>
      /\ lib' = IF asked THEN [answered EXCEPT ![k] = lib_change_state(@, "RUN", "OTHER")]
                         ELSE answered
  BY <1>1 DEF Places, Notified, state_callback_returns
<1>3. /\ Tail(lib[c].calls) \in Seq(Notices) /\ answered \in [Contexts -> Lib]
      /\ \A d \in Contexts :
           /\ answered[d].calls = IF d = c THEN Tail(lib[c].calls) ELSE lib[d].calls
           /\ answered[d].libstate = lib[d].libstate /\ answered[d].pc = lib[d].pc
           /\ answered[d].registered = lib[d].registered
           /\ answered[d].terminate = lib[d].terminate
           /\ answered[d].target = lib[d].target /\ answered[d].cmdq = lib[d].cmdq
           /\ answered[d].cphase = lib[d].cphase
           /\ answered[d].stalled = lib[d].stalled
  <2>1. Tail(lib[c].calls) \in Seq(Notices)
    BY <1>1, <1>2 DEF Lib
  <2> DEFINE t == [lib[c] EXCEPT !.calls = Tail(@)]
  <2>2. /\ t \in Lib /\ t.calls = Tail(lib[c].calls)
        /\ t.libstate = lib[c].libstate /\ t.pc = lib[c].pc
        /\ t.registered = lib[c].registered /\ t.terminate = lib[c].terminate
        /\ t.target = lib[c].target /\ t.cmdq = lib[c].cmdq
        /\ t.cphase = lib[c].cphase /\ t.stalled = lib[c].stalled
    BY <1>1, <2>1 DEF Lib
  <2>3. answered = [lib EXCEPT ![c] = t]
    OBVIOUS
  <2> HIDE DEF t, answered
  <2> QED
    BY <1>1, <2>1, <2>2, <2>3
<1> HIDE DEF answered
<1>4. /\ lib' \in [Contexts -> Lib]
      /\ \A d \in Contexts :
           /\ lib'[d].calls = IF d = c THEN Tail(lib[c].calls) ELSE lib[d].calls
           /\ lib'[d].libstate = lib[d].libstate /\ lib'[d].pc = lib[d].pc
           /\ lib'[d].registered = lib[d].registered
           /\ lib'[d].terminate = lib[d].terminate
           /\ lib'[d].target \in {lib[d].target, "RUN"}
           /\ lib'[d].cmdq = lib[d].cmdq /\ lib'[d].cphase = lib[d].cphase
           /\ lib'[d].stalled = lib[d].stalled
  <2>1. CASE ~asked
    BY <1>2, <1>3, <2>1
  <2>2. CASE asked
    <3> DEFINE t == lib_change_state(answered[k], "RUN", "OTHER")
    <3>1. k \in Contexts /\ answered[k] \in Lib
      BY <1>1, <1>3, <2>2 DEF Places
    <3>2. /\ t \in Lib /\ t.calls = answered[k].calls
          /\ t.libstate = answered[k].libstate /\ t.pc = answered[k].pc
          /\ t.registered = answered[k].registered
          /\ t.terminate = answered[k].terminate /\ t.target = "RUN"
          /\ t.cmdq = answered[k].cmdq /\ t.cphase = answered[k].cphase
          /\ t.stalled = answered[k].stalled
      BY <3>1 DEF lib_change_state, Lib, Targets, LibErrs
    <3>3. lib' = [answered EXCEPT ![k] = t]
      BY <1>2, <2>2
    <3> HIDE DEF t
    <3> QED
      BY <1>3, <3>1, <3>2, <3>3
  <2> QED
    BY <2>1, <2>2
<1> HIDE DEF asked
<1>5. StationInv' /\ Places'
  BY <1>1, <1>2, <1>4, StationKept DEF Places
<1>6. \A d \in Contexts : Told(lib'[d]) \subseteq Told(lib[d])
  BY <1>1, <1>2, <1>4, ToldTail, ToldSame
<1>7. \A d \in Contexts : Idled(lib[d]) => Idled(lib'[d])
  BY <1>4, <1>6, IdledKept
<1>8. lib[c].pc = "exited" => lib'[c].calls = << >>
  <2>1. Tail(<<"TERM">>) = << >>
    OBVIOUS
  <2> QED
    BY <1>1, <1>2, <1>4, <2>1, ZenonT(60) DEF Notified
<1>9. \A d \in Contexts : Notified(d)'
  BY <1>1, <1>2, <1>4, <1>6, <1>7, <1>8 DEF Notified
<1>10. IdleStored' /\ IdleCopied'
  BY <1>2, <1>4, <1>7 DEF ConnectorInv, IdleStored, IdleCopied, Witness, New
<1>11. TermStored'
  <2>1. \A d \in Contexts : served[d] = "stored" =>
          served'[d] = "stored" /\ Told(lib'[d]) = Told(lib[d])
    BY <1>2, <1>4, ToldSame
  <2> QED
    BY <1>2, <2>1 DEF ConnectorInv, TermStored
<1>12. NewIsIdle'
  BY <1>1, <1>2, <1>6, <1>7 DEF ConnectorInv, NewIsIdle, Places
<1>13. ConnectedIsUnended'
  <2>1. \A d \in Contexts : Unended(lib[d]) => Unended(lib'[d])
    BY <1>4, <1>6 DEF Unended
  <2> QED
    BY <1>1, <1>2, <2>1 DEF ConnectorInv, ConnectedIsUnended, Places
<1>14. Stops'
  <2> SUFFICES ASSUME py \in {"askTerm", "pollTerm", "destroy"}, ~misread, k # NIL
               PROVE  Stopping(k)'
    BY <1>2 DEF Stops
  <2>1. k \in Contexts /\ Stopping(k)
    BY <1>1 DEF ConnectorInv, Stops, Places
  <2>2. c = k
    BY <1>2, <2>1 DEF Stopping, Alone, Silent
  <2>3. Alone'
    BY <1>2, <1>4, <2>1, <2>2 DEF Stopping, Alone, Silent
  <2> QED
    BY <1>2, <1>4, <1>7, <1>8, <2>1, <2>2, <2>3 DEF Stopping, Heard
<1>15. Freed'
  <2> SUFFICES ASSUME py = "forget", ~misread, NEW d \in destroyed
               PROVE  lib'[d].pc \in {"none", "exited"} /\ Heard(d)'
    BY <1>2 DEF Freed
  <2>1. d \in Contexts /\ lib[d].pc \in {"none", "exited"} /\ Heard(d)
    BY <1>1 DEF ConnectorInv, Freed, Places
  <2> QED
    BY <1>1, <1>2, <1>4, <1>8, <2>1 DEF Heard, Notified
<1> QED
  BY <1>5, <1>9, <1>10, <1>11, <1>12, <1>13, <1>14, <1>15 DEF ConnectorInv

(* Then the event loop: connect,                                           *)
LEMMA ConnectorCreates ==
  ASSUME ConnectorInv, q330_create_context
  PROVE  ConnectorInv'
<1> USE DEF q330_create_context
<1>1. /\ StationInv /\ Places /\ \A d \in Contexts : Notified(d)
  BY DEF ConnectorInv
<1>2. CASE station_context' = NIL /\ UNCHANGED <<lib, destroyed>>
  <2>1. StationInv' /\ Places'
    BY <1>1, <1>2 DEF StationInv, TypeOK, Consistent, Places
  <2>2. \A d \in Contexts : Notified(d)'
    BY <1>1, <1>2 DEF Notified
  <2>3. \A d \in Contexts : \A S : Witness(d, S) => Witness(d, S)'
    BY <1>2, NilAssumption DEF Witness, New
  <2> QED
    BY <1>2, <2>1, <2>2, <2>3 DEF ConnectorInv, IdleStored, IdleCopied, TermStored,
       NewIsIdle, ConnectedIsUnended, Stops, Freed
<1>3. ASSUME NEW c \in Contexts, served[c] = "waiting", lib_create_context(c),
             station_context' = c, destroyed' = destroyed \ {c}
      PROVE  ConnectorInv'
  <2>1. /\ lib[c].pc \in {"none", "exited"} /\ lib[c].calls = << >>
        /\ lib'[c] = Created /\ \A d \in Contexts \ {c} : lib'[d] = lib[d]
    BY <1>1, <1>3, OnlyThat DEF lib_create_context
  <2>2. StationInv' /\ Places'
    BY <1>1, <1>3, ClientKeeps DEF Client, Places
  <2>3. /\ Created.pc = "loop" /\ Created.calls = << >> /\ Created.libstate = "IDLE"
        /\ Created.target = "IDLE" /\ ~Created.registered /\ ~Created.terminate
        /\ Told(Created) = {}
    BY ToldNone DEF Created, NoContext
  <2>4. Idled(Created) /\ Unended(Created)
    BY <2>3 DEF Idled, Unended
  <2>5. \A d \in Contexts : Notified(d)'
    BY <1>1, <1>3, <2>1, <2>3 DEF Notified
  <2>6. ASSUME NEW d \in Contexts, NEW S, Witness(d, S) PROVE Witness(d, S)'
    <3>1. d # c
      BY <2>1, <2>6 DEF Witness, Idled
    <3> QED
      BY <1>3, <2>1, <2>6, <3>1 DEF Witness, New
  <2>7. IdleStored' /\ IdleCopied'
    BY <2>6 DEF ConnectorInv, IdleStored, IdleCopied
  <2>8. TermStored'
    BY <1>3, <2>1 DEF ConnectorInv, TermStored
  <2>9. NewIsIdle' /\ ConnectedIsUnended' /\ Stops' /\ Freed'
    BY <1>3, <2>1, <2>3, <2>4 DEF NewIsIdle, ConnectedIsUnended, Stops, Freed
  <2> QED
    BY <2>2, <2>5, <2>7, <2>8, <2>9 DEF ConnectorInv
<1> QED
  BY <1>2, <1>3

LEMMA ConnectorRegisters ==
  ASSUME ConnectorInv, q330_register
  PROVE  ConnectorInv'
<1> DEFINE k == station_context
<1> USE DEF q330_register, shared
<1>1. /\ StationInv /\ Places /\ \A d \in Contexts : Notified(d)
  BY DEF ConnectorInv
<1>2. CASE k = NIL
  <2>1. UNCHANGED <<lib, shared, destroyed, misread>> /\ py = "created" /\ py' = "up"
    BY <1>2
  <2>2. StationInv' /\ Places'
    BY <1>1, <2>1 DEF StationInv, TypeOK, Consistent, Places
  <2>3. \A d \in Contexts : Notified(d)'
    BY <1>1, <2>1 DEF Notified
  <2>4. \A d \in Contexts : \A S : Witness(d, S) => Witness(d, S)'
    BY <2>1 DEF Witness, New
  <2> QED
    BY <1>2, <2>1, <2>2, <2>3, <2>4 DEF ConnectorInv, IdleStored, IdleCopied,
       TermStored, NewIsIdle, ConnectedIsUnended, Stops, Freed
<1>3. CASE k # NIL
  <2> DEFINE s == lib[k]
             t == Registering(s)
  <2>1. k \in Contexts /\ lib_register(k) /\ py = "created" /\ py' = "up"
    BY <1>1, <1>3 DEF Places
  <2>2. s \in Lib /\ Queued(s)
    BY <1>1, <2>1, One
  <2>3. /\ t.target = "RUNWAIT" /\ t.terminate = s.terminate /\ t.calls = s.calls
        /\ t.pc = s.pc
    BY <2>2 DEF Registering, Lib
  <2>4. lib'[k] = t /\ \A d \in Contexts \ {k} : lib'[d] = lib[d]
    BY <1>1, <2>1, OnlyThat DEF lib_register
  <2>5. Queued(t) /\ (t.libstate \in Parked => ~t.registered)
        /\ (t.pc = "apply" => t.libstate \in Parked)
    <3>1. /\ t \in Lib /\ ~t.registered /\ t.libstate = s.libstate
          /\ t.cphase = "IDLE" /\ ~t.stalled
      BY <2>2, EmptyQueue DEF Registering, Lib, Targets, Phases
    <3>2. s.pc = "apply" => s.libstate \in Parked
      BY <1>1, <2>1, One
    <3> QED
      BY <2>3, <3>1, <3>2 DEF Queued
  <2>6. Step(k, t)
    BY <2>1 DEF lib_register
  <2> HIDE DEF t
  <2>7. StationInv' /\ Places'
    BY <1>1, <2>1, <2>5, <2>6, Made DEF Places
  <2>8. Unended(s) /\ "IDLE" \notin Told(s) /\ Told(t) = Told(s)
    BY <1>3, <2>1, <2>3, ToldSame DEF ConnectorInv, ConnectedIsUnended, NewIsIdle
  <2>9. \A d \in Contexts : Notified(d)'
    BY <1>1, <2>3, <2>4, <2>8 DEF Notified, Unended
  <2>10. \A d \in Contexts : \A S : Witness(d, S) => Witness(d, S)'
    BY <2>1, <2>4 DEF Witness, New
  <2>11. IdleStored' /\ IdleCopied'
    BY <2>10 DEF ConnectorInv, IdleStored, IdleCopied
  <2>12. TermStored'
    BY <2>4, <2>8 DEF ConnectorInv, TermStored
  <2>13. Unended(t)
    BY <2>3, <2>8 DEF Unended
  <2>14. NewIsIdle' /\ ConnectedIsUnended' /\ Stops' /\ Freed'
    BY <2>1, <2>4, <2>13 DEF NewIsIdle, ConnectedIsUnended, Stops, Freed
  <2> QED
    BY <2>7, <2>9, <2>11, <2>12, <2>14 DEF ConnectorInv
<1> QED
  BY <1>2, <1>3

(* the requests of disconnect,                                             *)
LEMMA ConnectorRequests ==
  ASSUME ConnectorInv, disconnect_idle \/ disconnect_term
  PROVE  ConnectorInv'
<1> DEFINE k == station_context
<1> USE DEF disconnect_idle, disconnect_term, shared
<1>1. /\ StationInv /\ Places /\ \A d \in Contexts : Notified(d)
  BY DEF ConnectorInv
<1>2. /\ UNCHANGED <<station_context, state, q330_state, served, destroyed, misread>>
      /\ \/ py \in {"up", "down"} /\ py' = "pollIdle" /\ q330_change_state("IDLE")
         \/ py = "askTerm" /\ py' = "pollTerm" /\ q330_change_state("TERM")
  OBVIOUS
<1>3. /\ StationInv'
      /\ \A d \in Contexts :
           /\ lib'[d].libstate = lib[d].libstate /\ lib'[d].pc = lib[d].pc
           /\ lib'[d].registered = lib[d].registered
           /\ lib'[d].calls = lib[d].calls /\ lib'[d].terminate = lib[d].terminate
           /\ \/ lib'[d].target = lib[d].target
              \/ d = k /\ lib'[d].target \in {"IDLE", "TERM"}
                       /\ (py' = "pollIdle" => lib'[d].target = "IDLE")
  <2>1. CASE k = NIL
    <3>1. UNCHANGED lib
      BY <1>2, <2>1 DEF q330_change_state
    <3> QED
      BY <1>1, <3>1 DEF StationInv, TypeOK, Consistent
  <2>2. CASE k # NIL
    <3>1. k \in Contexts
      BY <1>1, <2>2 DEF Places
    <3>2. PICK target \in {"IDLE", "TERM"} :
             ClientRequests(k, target) /\ (py' = "pollIdle" => target = "IDLE")
      BY <1>2, <2>2 DEF q330_change_state
    <3> QED
      BY <1>1, <3>1, <3>2, Requested
  <2> QED
    BY <2>1, <2>2
<1>4. \A d \in Contexts : Told(lib'[d]) = Told(lib[d])
  BY <1>3, ToldSame
<1>5. \A d \in Contexts : Idled(lib[d]) => Idled(lib'[d])
  BY <1>3, <1>4, IdledKept
<1>6. Places' /\ \A d \in Contexts : Notified(d)'
  BY <1>1, <1>2, <1>3, <1>4, <1>5 DEF Places, Notified
<1>7. \A d \in Contexts : \A S : Witness(d, S) => Witness(d, S)'
  BY <1>2, <1>3, <1>5 DEF Witness, New
<1>8. IdleStored' /\ IdleCopied' /\ TermStored'
  BY <1>2, <1>4, <1>7 DEF ConnectorInv, IdleStored, IdleCopied, TermStored
<1>9. NewIsIdle' /\ Freed'
  BY <1>2 DEF NewIsIdle, Freed
<1>10. ConnectedIsUnended'
  <2> SUFFICES ASSUME py' = "pollIdle", k # NIL PROVE Unended(lib'[k])
    BY <1>2 DEF ConnectedIsUnended
  <2>1. k \in Contexts /\ Unended(lib[k])
    BY <1>1, <1>2 DEF ConnectorInv, ConnectedIsUnended, Places
  <2> QED
    BY <1>3, <1>4, <2>1 DEF Unended
<1>11. Stops'
  <2> SUFFICES ASSUME py = "askTerm", py' = "pollTerm", ~misread, k # NIL
               PROVE  Stopping(k)'
    BY <1>2 DEF Stops
  <2>1. k \in Contexts /\ Stopping(k)
    BY <1>1 DEF ConnectorInv, Stops, Places
  <2>2. Alone'
    BY <1>2, <1>3, <2>1 DEF Stopping, Alone, Silent
  <2> QED
    BY <1>2, <1>3, <1>5, <2>1, <2>2 DEF Stopping, Heard
<1> QED
  BY <1>3, <1>6, <1>8, <1>9, <1>10, <1>11 DEF ConnectorInv

(* and what it does with the notices it polls for.  Nothing is asked of a  *)
(* thread here; the end of a disconnect has heard the last of it.          *)
LEMMA ConnectorPolls ==
  ASSUME ConnectorInv,
         \/ disconnect_nothing \/ poll_idle \/ poll_term
         \/ q330_destroy_context \/ disconnect_forget
  PROVE  ConnectorInv'
<1> DEFINE k == station_context
<1> USE DEF disconnect_nothing, poll_idle, poll_term, q330_destroy_context,
            disconnect_forget, shared
<1>1. /\ StationInv /\ Places /\ \A d \in Contexts : Notified(d)
  BY DEF ConnectorInv
<1>2. /\ UNCHANGED <<lib, state, served>> /\ q330_state' \in {q330_state, None}
      /\ station_context' \in {k, NIL} /\ py # "created" /\ py' # "created"
      /\ None \notin Notices
  BY NilAssumption
<1>3. StationInv' /\ Places' /\ \A d \in Contexts : Notified(d)'
  <2>1. StationInv' /\ \A d \in Contexts : Notified(d)'
    BY <1>1, <1>2 DEF StationInv, TypeOK, Consistent, Notified
  <2>2. Places'
    BY <1>1 DEF Places
  <2> QED
    BY <2>1, <2>2
<1>4. \A d \in Contexts : \A S : Witness(d, S) => Witness(d, S)'
  BY <1>2 DEF Witness, New
<1>5. q330_state' = "IDLE" => q330_state = "IDLE"
  BY <1>2 DEF Notices, LibStates
<1>6. IdleStored' /\ IdleCopied' /\ TermStored'
  BY <1>2, <1>4, <1>5 DEF ConnectorInv, IdleStored, IdleCopied, TermStored
<1>7. NewIsIdle'
  BY <1>2 DEF NewIsIdle
<1>8. ConnectedIsUnended'
  BY <1>1, <1>2 DEF ConnectorInv, ConnectedIsUnended, Places
<1>9. Stops'
  <2>1. CASE poll_idle
    <3> SUFFICES ASSUME q330_state = "IDLE", Alone, k # NIL PROVE Stopping(k)'
      BY <2>1 DEF Stops
    <3>1. k \in Contexts /\ Unended(lib[k])
      BY <1>1, <2>1 DEF ConnectorInv, ConnectedIsUnended, Places
    <3>2. PICK c \in Contexts : Witness(c, {"waiting", "stored"})
      BY DEF ConnectorInv, IdleCopied
    <3>3. c = k
      BY <3>2 DEF Witness, Idled, Alone, Silent
    <3>4. state # "TERM"
      <4> SUFFICES ASSUME state = "TERM" PROVE FALSE
        OBVIOUS
      <4>1. PICK d \in Contexts : served[d] = "stored" /\ "TERM" \in Told(lib[d])
        BY DEF ConnectorInv, TermStored
      <4> QED
        BY <3>1, <4>1 DEF Alone, Silent, Unended
    <3>5. Alone' /\ Idled(lib[k])
      BY <1>2, <2>1, <3>2, <3>3 DEF Alone, Silent, Witness
    <3> QED
      BY <1>2, <2>1, <3>4, <3>5 DEF Stopping
  <2>2. CASE poll_term
    <3> SUFFICES ASSUME ~misread, q330_state = "TERM", k # NIL PROVE Stopping(k)'
      BY <2>2 DEF Stops
    <3>1. Stopping(k)
      BY <2>2 DEF ConnectorInv, Stops
    <3> QED
      BY <1>2, <2>2, <3>1 DEF Stopping, Alone, Silent, Heard
  <2> QED
    BY <2>1, <2>2 DEF Stops
<1>10. Freed'
  <2>1. CASE q330_destroy_context
    <3> SUFFICES ASSUME py' = "forget", ~misread, NEW d \in destroyed'
                 PROVE  lib[d].pc \in {"none", "exited"} /\ Heard(d)
      BY <1>2, <2>1 DEF Freed, Heard
    <3>1. k # NIL /\ d \in destroyed \union {k}
      BY <2>1
    <3>2. k \in Contexts /\ d \in Contexts /\ Stopping(k)
      BY <1>1, <2>1, <3>1 DEF ConnectorInv, Stops, Places
    <3>3. CASE d = k
      BY <2>1, <3>2, <3>3 DEF Stopping
    <3>4. CASE d # k
      BY <3>2, <3>4 DEF Stopping, Alone, Silent, Heard
    <3> QED
      BY <3>3, <3>4
  <2> QED
    BY <2>1 DEF Freed
<1> QED
  BY <1>3, <1>6, <1>7, <1>8, <1>9, <1>10 DEF ConnectorInv

LEMMA ConnectorStep ==
  ASSUME ConnectorInv, [NextConnector]_vars
  PROVE  ConnectorInv'
<1>1. CASE UNCHANGED vars
  BY <1>1 DEF vars, shared, loop, ConnectorInv, StationInv, TypeOK, Consistent, Places,
     Notified, IdleStored, IdleCopied, TermStored, Witness, New, NewIsIdle,
     ConnectedIsUnended, Stops, Stopping, Alone, Silent, Freed, Heard
<1>2. CASE Loop
  BY <1>2, ConnectorCreates, ConnectorRegisters, ConnectorRequests, ConnectorPolls
  DEF Loop
<1>3. ASSUME NEW c \in Contexts, Callback(c) \/ StationStep(c)
      PROVE  ConnectorInv'
  BY <1>3, ConnectorThread, ConnectorStores, ConnectorCopies, ConnectorReturns
  DEF Callback
<1> QED
  BY <1>1, <1>2, <1>3 DEF NextConnector

(* The invariant of the connection, for any number of contexts: what the   *)
(* notices under way still say of the threads that sent them.              *)
THEOREM ConnectorInvariant == SpecConnector => []ConnectorInv
<1>1. InitConnector => ConnectorInv
  <2> SUFFICES ASSUME InitConnector PROVE ConnectorInv
    OBVIOUS
  <2>1. StationInv
    BY EmptyQueue DEF InitConnector, Init, StationInv, TypeOK, Consistent, NoContext,
       Lib, LibStates, Targets, LibErrs, Phases, ProgramPoints
  <2>2. /\ \A c \in Contexts : /\ lib[c].pc = "none" /\ lib[c].calls = << >>
                               /\ served[c] = "waiting"
        /\ station_context = NIL /\ state = None /\ q330_state = None /\ py = "down"
        /\ served \in [Contexts -> {"waiting", "stored", "copied"}] /\ destroyed = {}
    BY DEF InitConnector, Init, NoContext
  <2>3. Places /\ \A c \in Contexts : Notified(c)
    BY <2>2, ToldNone DEF Places, Notified
  <2>4. None # "IDLE" /\ None # "TERM"
    BY NilAssumption DEF Notices, LibStates
  <2> QED
    BY <2>1, <2>2, <2>3, <2>4 DEF ConnectorInv, IdleStored, IdleCopied, TermStored,
       NewIsIdle, ConnectedIsUnended, Stops, Freed
<1>2. ConnectorInv /\ [NextConnector]_vars => ConnectorInv'
  BY ConnectorStep
<1> QED
  BY <1>1, <1>2, PTL DEF SpecConnector

(* disconnect frees a context under its thread only after it took another  *)
(* notice for one of the two it waits for, or while the thread of another  *)
(* context was still about: else the thread has left its loop and does not *)
(* count itself registered, whatever it was doing when disconnect began.   *)
THEOREM CleanStops == SpecConnector => []CleanStop
<1>1. ConnectorInv => CleanStop
  BY DEF ConnectorInv, Stops, Stopping, Idled, CleanStop
<1> QED
  BY <1>1, ConnectorInvariant, PTL

(* Once such a disconnect has seen TERM, no callback still under way sets  *)
(* q330_state again after disconnect has set it to None.                   *)
THEOREM LastNotice == SpecConnector => []LastNoticeIsTerm
<1>1. ConnectorInv => LastNoticeIsTerm
  BY DEF ConnectorInv, Freed, Heard, LastNoticeIsTerm
<1> QED
  BY <1>1, ConnectorInvariant, PTL
=============================================================================
