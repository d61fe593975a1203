---------------------------------- MODULE Poc ----------------------------------
(***************************************************************************)
(* A Q330 whose address changes, and how a station finds it: the Q330      *)
(* sends its point of contact (POC), a thread of its own receives it       *)
(* (libpoc.c) and calls the client, which passes it to the station         *)
(* (lib_poc_received of libclient.c); a station that waits registers then, *)
(* or when its wait is over and the address it has is not too old          *)
(* (lib_timer of libcmds.c).  A client that is told that the receiver's    *)
(* socket was reset is external and does nothing here.                     *)
(***************************************************************************)
EXTENDS Integers

CONSTANTS
  opt_dynamic_ip,
  q330id_address_given, \* whether the client knows a first address
  opt_ipexpire,         \* minutes, 0 for never
  Minute,               \* seconds
  RegTime, Wait,        \* seconds a registration may take, and a wait
  MaxMoves, MaxAge, MaxFaults   \* bounds

PocAssumption ==
  /\ opt_dynamic_ip \in BOOLEAN /\ q330id_address_given \in BOOLEAN
  /\ {Minute, RegTime, Wait} \subseteq Nat \ {0} /\ {opt_ipexpire, MaxMoves, MaxAge, MaxFaults} \subseteq Nat

VARIABLES
  unit,                 \* the number of the address the Q330 has
  pocs,                 \* addresses in POCs under way
  sockopen,             \* of the receiver
  libstate, target_state,
  q330id_address, dynip_age,
  timer,                \* reg_wait_timer or reg_timer
  age,                  \* ghost: seconds since the last POC, or registration
  faults

vars == <<unit, pocs, sockopen, libstate, target_state, q330id_address, dynip_age, timer, age, faults>>
station == <<libstate, target_state, q330id_address, dynip_age, timer, age>>

None == 0

\* The port may be taken; then nothing is ever received.
open_socket ==
  /\ faults \in {n \in {0, 1} : n <= MaxFaults}
  /\ sockopen = (faults = 0)

\* lib_poc_start, lib_register_330
Init ==
  /\ unit = 1 /\ pocs = {} /\ open_socket
  /\ q330id_address = (IF q330id_address_given THEN unit ELSE None)
  /\ libstate = "IDLE"
  /\ target_state = (IF opt_dynamic_ip /\ q330id_address = None THEN "WAIT" ELSE "REG")
  /\ dynip_age = 0 /\ timer = 0 /\ age = 0

-----------------------------------------------------------------------------
(* The Q330 and the network, which loses, repeats and reorders.            *)

Move ==
  /\ unit < MaxMoves + 1 /\ unit' = unit + 1
  /\ UNCHANGED <<pocs, sockopen, station, faults>>

SendPoc == pocs' = pocs \union {unit} /\ UNCHANGED <<unit, sockopen, station, faults>>

Lose ==
  /\ faults < MaxFaults /\ faults' = faults + 1 /\ \E a \in pocs : pocs' = pocs \ {a}
  /\ UNCHANGED <<unit, sockopen, station>>

-----------------------------------------------------------------------------
NewAddress(a) == a

\* Only a station that waits takes the address.
lib_poc_received(a) ==
  IF libstate = "WAIT"
  THEN /\ q330id_address' = NewAddress(a) /\ dynip_age' = 0 /\ age' = 0
       /\ target_state' = "REG" /\ UNCHANGED <<libstate, timer>>
  ELSE UNCHANGED station

\* A POC with a wrong checksum is dropped like a lost one; the callback of a
\* good one is the client's, which calls lib_poc_received.
process_poc ==
  /\ sockopen
  /\ \E a \in pocs :
       /\ lib_poc_received(a)
       /\ \/ pocs' = pocs \ {a} /\ faults' = faults
          \/ faults < MaxFaults /\ pocs' = pocs /\ faults' = faults + 1
  /\ UNCHANGED <<unit, sockopen>>

\* read_poc_socket with ECONNRESET
Reset ==
  /\ sockopen /\ faults < MaxFaults /\ faults' = faults + 1 /\ sockopen' = FALSE
  /\ UNCHANGED <<unit, pocs, station>>

-----------------------------------------------------------------------------
(* lib_timer. *)

Older(n) == IF n < MaxAge THEN n + 1 ELSE n

\* the state is changed when its target is another
Enter ==
  /\ libstate # target_state /\ target_state \in {"WAIT", "REG"}
  /\ libstate' = target_state
  /\ timer' = (IF target_state = "REG" THEN 0 ELSE timer)
  /\ UNCHANGED <<unit, pocs, sockopen, target_state, q330id_address, dynip_age, age, faults>>

Expired == opt_ipexpire > 0 /\ dynip_age \div Minute >= opt_ipexpire

MustWait == opt_dynamic_ip /\ (q330id_address = None \/ Expired)

\* a second of the wait, which does not make the address older
WaitSecond ==
  /\ libstate = "WAIT" /\ target_state = "WAIT" /\ age' = Older(age)
  /\ \/ timer > 1 /\ timer' = timer - 1 /\ UNCHANGED target_state
     \/ timer <= 1 /\ MustWait /\ timer' = 1 /\ UNCHANGED target_state
     \/ timer <= 1 /\ ~MustWait /\ timer' = timer - 1 /\ target_state' = "REG"
  /\ UNCHANGED <<unit, pocs, sockopen, libstate, q330id_address, dynip_age, faults>>

RegSecond ==
  /\ libstate = "REG" /\ target_state = "REG"
  /\ dynip_age' = Older(dynip_age) /\ age' = Older(age)
  /\ \/ timer < RegTime /\ timer' = timer + 1 /\ UNCHANGED target_state
     \/ timer = RegTime /\ timer' = Wait /\ target_state' = "WAIT"
  /\ UNCHANGED <<unit, pocs, sockopen, libstate, q330id_address, faults>>

Registered ==
  /\ libstate = "REG" /\ target_state = "REG" /\ q330id_address = unit
  /\ libstate' = "RUN" /\ target_state' = "RUN" /\ dynip_age' = 0 /\ age' = 0
  /\ UNCHANGED <<unit, pocs, sockopen, q330id_address, timer, faults>>

\* a session with a Q330 that has moved ends
SessionEnds ==
  /\ libstate = "RUN" /\ q330id_address # unit
  /\ libstate' = "WAIT" /\ target_state' = "WAIT" /\ timer' = Wait
  /\ UNCHANGED <<unit, pocs, sockopen, q330id_address, dynip_age, age, faults>>

Next ==
  \/ Move \/ SendPoc \/ Lose \/ process_poc \/ Reset
  \/ Enter \/ WaitSecond \/ RegSecond \/ Registered \/ SessionEnds

\* The Q330 sends its POC again and again, some of them arrive while the
\* station waits, and a Q330 at the right address answers.
Spec ==
  /\ Init /\ [][Next]_vars
  /\ WF_vars(SendPoc) /\ WF_vars(Enter) /\ WF_vars(WaitSecond) /\ WF_vars(RegSecond) /\ WF_vars(SessionEnds)
  /\ SF_vars(process_poc /\ libstate = "WAIT" /\ unit \in pocs \ pocs')
  /\ SF_vars(Registered)

-----------------------------------------------------------------------------
\* A station does not try to register without an address (lib_register_330,
\* lib_timer).
RegistersSomewhere == opt_dynamic_ip /\ libstate = "REG" => q330id_address # None

\* A station with a receiver that is not reset finds its Q330 wherever that
\* moves, if it stays there long enough (lib_poc_received, lib_timer).
FoundAtLast == []<>(libstate = "RUN" /\ q330id_address = unit)

\* When a wait is over the address is not used if it has expired
\* (opt_ipexpire, "this many minutes since last POC").
ExpiresSincePoc ==
  opt_dynamic_ip /\ opt_ipexpire > 0 /\ libstate = "WAIT" /\ target_state = "REG" =>
    age \div Minute < opt_ipexpire
=============================================================================
