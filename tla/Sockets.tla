------------------------------- MODULE Sockets -------------------------------
(***************************************************************************)
(* The descriptors of a station thread: two UDP sockets, one TCP           *)
(* connection or a serial line, opened when a registration or an           *)
(* unregistered ping begins and closed by whoever gives the link up        *)
(* (q330io.c, libcmds.c, libstrucs.c).  Descriptors are small numbers, the *)
(* lowest free one is taken; every call of the system may fail.  RUN       *)
(* stands for the states from READCFG on.                                  *)
(***************************************************************************)
EXTENDS Integers

CONSTANTS
  Modes,                \* the host modes asked for, of ETH, SER and TCP
  Addresses,            \* the Q330's addresses: of q330, baler (announced) and bad
  MaxFd                 \* descriptors a process may have

SocketsAssumption ==
  /\ Modes \subseteq {"ETH", "SER", "TCP"} /\ Addresses \subseteq {"q330", "baler", "bad"}
  /\ MaxFd \in Nat \ {0}

VARIABLES
  io,                   \* the fields of tq330 that say how to communicate
  open,                 \* the descriptors the process has
  libstate, target_state,
  host_mode, q330id_address,    \* of par_register
  asked                 \* ghost: what the client asked for last, registration or ping

vars == <<io, open, libstate, target_state, host_mode, q330id_address, asked>>
par == <<host_mode, q330id_address, asked>>

None == 0

NoLink ==
  [usesock |-> FALSE, tcp |-> FALSE, balesim |-> FALSE, got_connected |-> FALSE,
   cpath |-> None, dpath |-> None, comid |-> None]

Descriptors(d) == {d.cpath, d.dpath, d.comid} \ {None}

Init ==
  /\ io = NoLink /\ open = {} /\ libstate = "IDLE" /\ target_state = "IDLE"
  /\ host_mode = "ETH" /\ q330id_address = "q330" /\ asked = "nothing"

-----------------------------------------------------------------------------
(* What the functions make of a link: the fields and the descriptors.      *)

Link(d, fds) == [d |-> d, fds |-> fds]

\* fault: the data socket is left
close_sockets_fault(k) ==
  IF k.d.usesock
  THEN Link([k.d EXCEPT !.cpath = None, !.dpath = None], k.fds \ {k.d.cpath})
  ELSE Link([k.d EXCEPT !.comid = None], k.fds \ {k.d.comid})

close_sockets(k) ==
  IF k.d.usesock
  THEN Link([k.d EXCEPT !.cpath = None, !.dpath = None], k.fds \ {k.d.cpath, k.d.dpath})
  ELSE Link([k.d EXCEPT !.comid = None], k.fds \ {k.d.comid})

\* The links after a call that may give a descriptor, the lowest free one.
Lowest(fds) == {n \in 1 .. MaxFd : n \notin fds /\ 1 .. n - 1 \subseteq fds}
WithCpath(k) == {Link([k.d EXCEPT !.cpath = n], k.fds \union {n}) : n \in Lowest(k.fds)}
WithDpath(k) == {Link([k.d EXCEPT !.dpath = n], k.fds \union {n}) : n \in Lowest(k.fds)}
WithComid(k) == {Link([k.d EXCEPT !.comid = n], k.fds \union {n}) : n \in Lowest(k.fds)}

\* Baler simulation announces itself with UDP.
Resolved(k, fromback) ==
  IF fromback THEN k
  ELSE Link([k.d EXCEPT !.balesim = q330id_address = "baler",
                        !.tcp = @ /\ q330id_address # "baler"], k.fds)

GotConnected(k, yes) == Link([k.d EXCEPT !.got_connected = yes], k.fds)

\* What open_sockets can leave, with ok for a result of FALSE.  A control
\* socket that cannot be bound or connected is closed again; when there is
\* no data socket the control socket stays.
open_sockets(k, both, fromback) ==
  LET begun == Resolved(GotConnected(close_sockets(k), TRUE), fromback)
      bad == ~fromback /\ q330id_address = "bad"
      data == both /\ (fromback \/ q330id_address # "baler") /\ ~begun.d.tcp
      controls == IF bad THEN {} ELSE WithCpath(begun)
      failed == {begun} \union (IF data THEN controls ELSE {})
      done == IF begun.d.tcp
              THEN controls \union {GotConnected(c, FALSE) : c \in controls}
              ELSE IF data THEN UNION {WithDpath(c) : c \in controls}
              ELSE controls
  IN  {[ok |-> FALSE, link |-> f] : f \in failed} \union {[ok |-> TRUE, link |-> c] : c \in done}

open_serial(k) ==
  LET begun == Link([k.d EXCEPT !.comid = None, !.balesim = q330id_address = "baler"],
                    k.fds \ {k.d.comid})
      opened == IF q330id_address = "bad" THEN {} ELSE WithComid(begun)
  IN  {[ok |-> FALSE, link |-> begun]}
      \union {[ok |-> TRUE, link |-> GotConnected(c, TRUE)] : c \in opened}

Opened(both, fromback) ==
  IF io.usesock THEN open_sockets(Link(io, open), both, fromback)
  ELSE IF fromback THEN {[ok |-> TRUE, link |-> Link(io, open)]}
  ELSE open_serial(Link(io, open))

Become(k) == io' = k.d /\ open' = k.fds

Close == Become(close_sockets(Link(io, open)))

-----------------------------------------------------------------------------
(* The client.                                                             *)

\* What lies between first_clear and last_clear is cleared, tcp does not.
Cleared == [io EXCEPT !.usesock = FALSE, !.balesim = FALSE]

lib_register_330(mode, address) ==
  /\ libstate = "IDLE" /\ target_state = "IDLE"
  /\ host_mode' = mode /\ q330id_address' = address /\ asked' = "registration"
  /\ io' = [Cleared EXCEPT !.tcp = mode = "TCP", !.usesock = mode \in {"ETH", "TCP"}]
  /\ target_state' = "RUNWAIT"
  /\ UNCHANGED <<open, libstate>>

lib_unregping_330(mode, address) ==
  /\ libstate = "IDLE" /\ target_state = "IDLE"
  /\ host_mode' = mode /\ q330id_address' = address /\ asked' = "ping"
  /\ io' = [Cleared EXCEPT !.usesock = mode = "ETH"]
  /\ target_state' = "PING"
  /\ UNCHANGED <<open, libstate>>

\* The client goes back to idle, and from there it may end the thread.
lib_change_state(newstate) ==
  /\ libstate # "TERM" /\ (newstate = "TERM" => libstate = "IDLE" /\ target_state = "IDLE")
  /\ newstate = "IDLE" => asked # "nothing"
  /\ target_state' = newstate
  /\ UNCHANGED <<io, open, libstate, par>>

-----------------------------------------------------------------------------
(* The thread's timer.                                                     *)

Connecting == {"CONN", "REG", "ANNC"}

Answered(r) == r.ok

lib_start_registration ==
  /\ target_state = "RUNWAIT" /\ libstate \in {"IDLE", "WAIT"}
  /\ \E r \in Opened(TRUE, FALSE) :
       /\ Become(r.link)
       /\ IF ~Answered(r) THEN target_state' = "WAIT" /\ UNCHANGED libstate
          ELSE /\ libstate' = IF ~r.link.d.got_connected THEN "CONN"
                              ELSE IF r.link.d.balesim THEN "ANNC" ELSE "REG"
               /\ UNCHANGED target_state
  /\ UNCHANGED par

lib_start_ping ==
  /\ target_state = "PING" /\ libstate = "IDLE"
  /\ \E r \in Opened(FALSE, FALSE) :
       /\ Become(r.link)
       /\ IF r.ok THEN libstate' = "PING" /\ UNCHANGED target_state
          ELSE target_state' = "IDLE" /\ UNCHANGED libstate
  /\ UNCHANGED par

\* lib_timer with a target of WAIT or IDLE, and start_deallocation without
\* its callbacks, the reason being the client's.
Leave ==
  /\ target_state \in {"WAIT", "IDLE"} /\ libstate # target_state
  /\ \/ libstate \in {"IDLE", "WAIT"} /\ libstate' = target_state /\ UNCHANGED <<io, open>>
     \/ libstate \in Connecting \union {"PING"} /\ libstate' = target_state /\ Close
     \/ libstate = "RUN" /\ libstate' = "DEREG" /\ UNCHANGED <<io, open>>
  /\ UNCHANGED <<target_state, par>>

\* The wait is over.
WaitOver ==
  /\ libstate = "WAIT" /\ target_state \in {"WAIT", "RUNWAIT"}
  /\ target_state' = "RUNWAIT"
  /\ UNCHANGED <<io, open, libstate, par>>

\* No answer in three minutes.
RegistrationTimesOut ==
  /\ libstate \in Connecting /\ target_state' = "WAIT"
  /\ UNCHANGED <<io, open, libstate, par>>

Terminate ==
  /\ target_state = "TERM" /\ libstate # "TERM" /\ libstate' = "TERM"
  /\ UNCHANGED <<io, open, target_state, par>>

-----------------------------------------------------------------------------
(* Answers and failures.                                                   *)

Linked == io.cpath # None \/ (~io.usesock /\ io.comid # None)

Writable == io.cpath # None

\* The connection is made: lib_continue_registration.
Connected ==
  /\ libstate = "CONN" /\ Writable
  /\ libstate' = IF io.balesim THEN "ANNC" ELSE "REG"
  /\ UNCHANGED <<io, open, target_state, par>>

\* C2_BACK: the announcement is answered, the sockets are opened anew, and
\* whether they could be is not looked at.
Back ==
  /\ libstate = "ANNC" /\ Linked
  /\ \E r \in Opened(TRUE, TRUE) : Become(r.link)
  /\ libstate' = "REG"
  /\ UNCHANGED <<target_state, par>>

Registered ==
  /\ libstate = "REG" /\ Linked /\ libstate' = "RUN"
  /\ UNCHANGED <<io, open, target_state, par>>

\* The answer to a ping, or that there is none.
PingEnds ==
  /\ libstate = "PING" /\ target_state' = "IDLE"
  /\ UNCHANGED <<io, open, libstate, par>>

\* The answer of the de-registration, or 20 seconds without.
Deregistered ==
  /\ libstate = "DEREG" /\ target_state \in {"IDLE", "WAIT"}
  /\ libstate' = target_state /\ Close
  /\ UNCHANGED <<target_state, par>>

\* A TCP connection fails, or a command cannot be sent for want of buffers.
tcp_error ==
  /\ libstate \in (Connecting \ {"CONN"}) \union {"PING", "RUN", "DEREG"}
  /\ io.usesock /\ io.cpath # None
  /\ target_state' = "WAIT" /\ Close
  /\ UNCHANGED <<libstate, par>>

\* ECONNRESET on the control socket or, with data, on the data socket, which
\* does not change the target.
Reset(data) ==
  /\ libstate \in (Connecting \ {"CONN"}) \union {"PING", "RUN", "DEREG"}
  /\ io.usesock /\ ~io.tcp /\ io.cpath # None
  /\ data => io.dpath # None /\ libstate # "PING"
  /\ libstate' = "WAIT" /\ Close
  /\ target_state' = IF data \/ libstate = "RUN" THEN target_state ELSE "WAIT"
  /\ UNCHANGED par

Next ==
  \/ \E m \in Modes, a \in Addresses : lib_register_330(m, a) \/ lib_unregping_330(m, a)
  \/ \E s \in {"IDLE", "TERM"} : lib_change_state(s)
  \/ lib_start_registration \/ lib_start_ping \/ Leave \/ WaitOver
  \/ RegistrationTimesOut \/ Terminate
  \/ Connected \/ Back \/ Registered \/ PingEnds \/ Deregistered
  \/ tcp_error \/ \E data \in BOOLEAN : Reset(data)

Spec == Init /\ [][Next]_vars

-----------------------------------------------------------------------------
\* No descriptor is lost: close_sockets and open_sockets forget one only when
\* it is closed, whatever failed and in whatever mode the thread is used next.
NothingLeaks == open = Descriptors(io)

\* A session reaches RUN over UDP with both sockets: who is registered with a
\* data socket that could not be opened would wait for data in vain
\* (lib_start_registration looks at open_sockets; C2_BACK, for a baler, does not).
RunHasData ==
  /\ libstate = "RUN" /\ io.usesock /\ ~io.tcp /\ ~io.balesim /\ io.cpath # None
  => io.dpath # None

\* A thread that has no link and is not going to close one waits in vain: CONN
\* is only entered, and left, with a connection (libthread).
ConnectsSomething ==
  libstate = "CONN" => io.tcp /\ io.cpath # None

\* LIBSTATE_IDLE is "Not connected to Q330".
IdleIsClosed == libstate = "IDLE" /\ target_state = "IDLE" => Descriptors(io) = {}

\* An unregistered ping "returns to LIBSTATE_IDLE when done".
PingReturnsToIdle == asked = "ping" => libstate \in {"IDLE", "PING", "WAIT", "TERM"}

\* usesock is "use sockets for I/O", tcp is "Using TCP ethernet connection".
ModeIsUsed ==
  target_state \in {"PING", "RUNWAIT"} =>
    (io.usesock <=> host_mode # "SER") /\ (io.tcp => host_mode = "TCP")

\* send_dopen and send_dack have a branch for TCP, with the descriptor they
\* send on.
SendsOn ==
  IF ~io.usesock THEN io.comid
  ELSE IF io.dpath = None THEN None
  ELSE IF io.tcp THEN io.cpath ELSE io.dpath

AcksCanBeSent == libstate = "RUN" /\ Linked => SendsOn # None
=============================================================================
