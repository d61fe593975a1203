------------------------------ MODULE Connector ------------------------------
(***************************************************************************)
(* The connection of the client to the library: Q330Connector.connect,     *)
(* disconnect and state_callback (q330_connector.py), the shim between     *)
(* Python and lib330 (q330.c), and the station threads behind it.          *)
(*                                                                         *)
(* Two kinds of threads meet here.  The event loop of Python connects and  *)
(* disconnects; each station thread calls back into Python from within its *)
(* own step.  They share station_context and state, two static words of    *)
(* the shim, and q330_state, an attribute of the connector: disconnect     *)
(* polls the info field of the last notice to learn how far the library    *)
(* has come.                                                               *)
(*                                                                         *)
(* q330_destroy_context frees the buffers of a context but not its tq330,  *)
(* so that a thread which is still alive is modelled as going on.          *)
(***************************************************************************)
EXTENDS StationThread, FiniteSets

CONSTANTS NIL,          \* the null context
          None          \* Python's None

ASSUME NilAssumption == NIL \notin Contexts /\ None \notin Notices

VARIABLES
  station_context,      \* static tcontext of q330.c
  state,                \* static tstate of q330.c: the last notice stored
  q330_state,           \* Q330Connector.q330_state
  served,               \* how far the callback of each thread has come
  py,                   \* how far the event loop has come
  destroyed,            \* contexts whose memory has been freed
  misread               \* history: this disconnect took another notice for the
                        \* new state, or may have taken that of another thread

shared == <<station_context, state, q330_state, served>>
loop == <<py, destroyed, misread>>
vars == <<lib, shared, loop>>

(* The info field of a notice.  It is the ordinal of the state for         *)
(* ST_STATE, 0 for ST_OPSTAT and the end of a stall, 1 for a stall and for *)
(* a status bitmap of the global block alone; 2 stands for anything else.  *)
Info(notice) ==
  CASE notice \in {"IDLE", "OPSTAT", "STALL_OFF"} -> 0
    [] notice \in {"TERM", "STALL_ON", "STATUS_GLB"} -> 1
    [] OTHER -> 2

InitConnector ==
  /\ Init
  /\ station_context = NIL /\ state = None /\ q330_state = None
  /\ served = [c \in Contexts |-> "waiting"]
  /\ py = "down" /\ destroyed = {} /\ misread = FALSE

-----------------------------------------------------------------------------
(* The event loop.                                                         *)

\* No thread calls back for the context, now or later.
Silent(c) ==
  lib[c].pc \in {"none", "exited"} /\ lib[c].calls = << >> /\ served[c] = "waiting"

Alone == \A c \in Contexts \ {station_context} : Silent(c)

\* q330_change_state on whatever station_context is; a null context is
\* ignored by lib_change_state.
q330_change_state(newstate) ==
  IF station_context = NIL THEN UNCHANGED lib
  ELSE ClientRequests(station_context, newstate)

\* q330_create_context: malloc gives a context no thread lives in any more.
\* When its thread cannot be started there is no context.
q330_create_context ==
  /\ py = "down"
  /\ py' = "created"
  /\ \/ \E c \in Contexts :
          /\ served[c] = "waiting"
          /\ lib_create_context(c)
          /\ station_context' = c
          /\ destroyed' = destroyed \ {c}
     \/ station_context' = NIL /\ UNCHANGED <<lib, destroyed>>
  /\ UNCHANGED <<state, q330_state, served, misread>>

q330_register ==
  /\ py = "created"
  /\ py' = "up"
  /\ IF station_context = NIL THEN UNCHANGED lib
                              ELSE lib_register(station_context)
  /\ UNCHANGED <<shared, destroyed, misread>>

\* disconnect without a notice so far: nothing is done.
disconnect_nothing ==
  /\ py = "up" /\ q330_state = None
  /\ py' = "down"
  /\ UNCHANGED <<lib, shared, destroyed, misread>>

disconnect_idle ==
  /\ py \in {"up", "down"} /\ q330_state # None
  /\ py' = "pollIdle"
  /\ q330_change_state("IDLE")
  /\ UNCHANGED <<shared, destroyed, misread>>

\* Fault: TERM is sent without waiting for IDLE.
poll_idle_fault ==
  /\ py = "pollIdle"
  /\ py' = "askTerm"
  /\ UNCHANGED <<lib, shared, destroyed, misread>>

poll_idle ==
  /\ py = "pollIdle" /\ Info(q330_state) = 0
  /\ py' = "askTerm"
  /\ misread' = (q330_state # "IDLE" \/ ~Alone)
  /\ UNCHANGED <<lib, shared, destroyed>>

disconnect_term ==
  /\ py = "askTerm"
  /\ py' = "pollTerm"
  /\ q330_change_state("TERM")
  /\ UNCHANGED <<shared, destroyed, misread>>

poll_term ==
  /\ py = "pollTerm" /\ Info(q330_state) = 1
  /\ py' = "destroy"
  /\ misread' = (misread \/ q330_state # "TERM")
  /\ UNCHANGED <<lib, shared, destroyed>>

\* q330_destroy_context dereferences station_context without a look at it.
q330_destroy_context ==
  /\ py = "destroy"
  /\ IF station_context = NIL
     THEN py' = "crashed" /\ UNCHANGED <<station_context, destroyed>>
     ELSE /\ py' = "forget"
          /\ destroyed' = destroyed \union {station_context}
          /\ station_context' = NIL
  /\ UNCHANGED <<lib, state, q330_state, served, misread>>

disconnect_forget ==
  /\ py = "forget"
  /\ py' = "down" /\ q330_state' = None /\ misread' = FALSE
  /\ UNCHANGED <<lib, station_context, state, served, destroyed>>

-----------------------------------------------------------------------------
(* The callback, on the station thread.                                    *)

\* The shim stores the notice in state.
my_state_callback(c) ==
  /\ lib[c].calls # << >> /\ served[c] = "waiting"
  /\ state' = Head(lib[c].calls)
  /\ served' = [served EXCEPT ![c] = "stored"]
  /\ UNCHANGED <<lib, station_context, q330_state, loop>>

\* Python copies what state holds by now.
state_callback_copies(c) ==
  /\ served[c] = "stored"
  /\ q330_state' = state
  /\ served' = [served EXCEPT ![c] = "copied"]
  /\ UNCHANGED <<lib, station_context, state, loop>>

\* Python looks at q330_state again: RUNWAIT asks the current context to run.
state_callback_returns(c) ==
  /\ served[c] = "copied"
  /\ served' = [served EXCEPT ![c] = "waiting"]
  /\ LET answered == [lib EXCEPT ![c].calls = Tail(@)] IN
     lib' = IF q330_state = "RUNWAIT" /\ station_context # NIL
            THEN [answered EXCEPT ![station_context] =
                                      lib_change_state(@, "RUN", "OTHER")]
            ELSE answered
  /\ UNCHANGED <<station_context, state, q330_state, loop>>

-----------------------------------------------------------------------------
Loop ==
  \/ q330_create_context \/ q330_register \/ disconnect_nothing
  \/ disconnect_idle \/ poll_idle \/ disconnect_term \/ poll_term
  \/ q330_destroy_context \/ disconnect_forget

Callback(c) ==
  my_state_callback(c) \/ state_callback_copies(c) \/ state_callback_returns(c)

Alive == py # "crashed"

StationStep(c) == Thread(c) /\ UNCHANGED <<shared, loop>>

NextConnector ==
  Alive /\ (Loop \/ \E c \in Contexts : Callback(c) \/ StationStep(c))

SpecConnector == InitConnector /\ [][NextConnector]_vars

\* Both kinds of threads are scheduled, and what disconnect has begun goes on.
FairConnector ==
  /\ WF_vars(Alive /\ (q330_register \/ poll_idle \/ disconnect_term
                       \/ poll_term \/ q330_destroy_context
                       \/ disconnect_forget))
  /\ \A c \in Contexts :
       /\ WF_vars(Alive /\ Callback(c))
       /\ SF_vars(Alive /\ Timer(c) /\ UNCHANGED <<shared, loop>>)
       /\ SF_vars(Alive /\ DeregTimeout(c) /\ UNCHANGED <<shared, loop>>)

FairSpecConnector == SpecConnector /\ FairConnector

-----------------------------------------------------------------------------
(* disconnect frees a context under its thread only if it took another     *)
(* notice for IDLE or TERM: after the two real announcements the thread    *)
(* has left its loop and the Q330 counts the host out, whatever the thread *)
(* was doing when disconnect began.                                        *)
CleanStop ==
  py = "destroy" /\ ~misread /\ station_context # NIL
    => /\ lib[station_context].pc = "exited"
       /\ ~lib[station_context].registered

(* TERM is the last thing a thread says: once disconnect has seen it, no   *)
(* callback that is still under way will set q330_state again, and the     *)
(* None that disconnect leaves there stands.                               *)
LastNoticeIsTerm ==
  py = "forget" /\ ~misread
    => \A c \in destroyed :
         /\ served[c] # "stored"
         /\ served[c] = "waiting" => lib[c].calls = << >>

(* After a real IDLE, TERM cannot be overruled by the thread: disconnect   *)
(* comes to its end.                                                       *)
CleanDisconnectEnds ==
  (py = "pollTerm" /\ ~misread /\ station_context # NIL) ~> (py = "down")

(* "This must always be safe to call, whether connected or not."           *)
(* (EarthquakeDataClient.disconnect): it never dereferences the null       *)
(* context.                                                                *)
DisconnectIsSafe == py # "crashed"

(* disconnect sends IDLE and then TERM (Q330Connector.disconnect), which   *)
(* is the order the interface of the library asks for: TERM once the       *)
(* station is in IDLE, that is, de-registered.                             *)
TermOnlyFromIdle ==
  py = "askTerm" /\ station_context # NIL
    => lib[station_context].libstate = "IDLE"

(* disconnect ends by destroying the context (Q330Connector.disconnect):   *)
(* a client that is not connected has no station thread running.           *)
DisconnectStops ==
  py = "down" => \A c \in Contexts : lib[c].pc \in {"none", "exited"}
=============================================================================
