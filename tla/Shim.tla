--------------------------------- MODULE Shim ---------------------------------
(***************************************************************************)
(* One-second data from a station thread to Python (q330.c): the callback  *)
(* of lib330 copies the record field by field to a static structure and    *)
(* calls secdata_callback, which takes the interpreter lock and gets the   *)
(* structure back with get_onesec, a foreign call for which the lock is    *)
(* given up.  The structure is one for all station threads: one that a     *)
(* connection has left behind and the thread of the next (Connector).      *)
(***************************************************************************)
EXTENDS Naturals, Sequences

CONSTANTS
  Threads,              \* the station threads
  Records,              \* bound: records of each
  None                  \* nobody has the lock, nothing was copied

ShimAssumption == Records \in Nat /\ None \notin Threads

VARIABLES
  onesec,               \* the static structure: whose header, whose samples
  pc,                   \* of every thread: "idle", "header", "samples", "call", "get", "got", "process"
  seq,                  \* number of the record that it delivers
  got,                  \* what get_onesec has returned to it so far
  gil,                  \* who has the interpreter lock
  processed             \* what _process_samples was called with, and by whom

vars == <<onesec, pc, seq, got, gil, processed>>

Fields == {"header", "samples"}
Empty == [f \in Fields |-> <<None, 0>>]

Init ==
  /\ onesec = Empty /\ pc = [t \in Threads |-> "idle"] /\ seq = [t \in Threads |-> 0]
  /\ got = [t \in Threads |-> Empty] /\ gil = None /\ processed = << >>

At(t, from, to) == pc[t] = from /\ pc' = [pc EXCEPT ![t] = to]

\* the record in hand
Mine(t) == <<t, seq[t]>>

\* lib330 has a second of a channel: call_secdata
Deliver(t) ==
  /\ At(t, "idle", "header") /\ seq[t] < Records /\ seq' = [seq EXCEPT ![t] = @ + 1]
  /\ UNCHANGED <<onesec, got, gil, processed>>

CopyHeader(t) ==
  /\ At(t, "header", "samples") /\ onesec' = [onesec EXCEPT !["header"] = Mine(t)]
  /\ UNCHANGED <<seq, got, gil, processed>>

CopiedSamples(t) == Mine(t)

CopySamples(t) ==
  /\ At(t, "samples", "call") /\ onesec' = [onesec EXCEPT !["samples"] = CopiedSamples(t)]
  /\ UNCHANGED <<seq, got, gil, processed>>

\* secdata_callback_: Python code runs with the lock
Call(t) ==
  /\ At(t, "call", "get") /\ gil = None /\ gil' = t
  /\ UNCHANGED <<onesec, seq, got, processed>>

Freed(t) == None

\* get_onesec is called without it, the structure is returned by value
GetHeader(t) ==
  /\ At(t, "get", "got") /\ gil = t /\ gil' = Freed(t)
  /\ got' = [got EXCEPT ![t]["header"] = onesec["header"]]
  /\ UNCHANGED <<onesec, seq, processed>>

GetSamples(t) ==
  /\ At(t, "got", "process") /\ got' = [got EXCEPT ![t]["samples"] = onesec["samples"]]
  /\ UNCHANGED <<onesec, seq, gil, processed>>

\* the rest of secdata_callback
Process(t) ==
  /\ At(t, "process", "idle") /\ gil = None
  /\ processed' = Append(processed, [by |-> t, of |-> got[t]])
  /\ UNCHANGED <<onesec, seq, got, gil>>

\* another thread of the interpreter, the event loop
OtherPython == gil \in {None, "loop"} /\ gil' = (IF gil = None THEN "loop" ELSE None) /\ UNCHANGED <<onesec, pc, seq, got, processed>>

Step(t) == Deliver(t) \/ CopyHeader(t) \/ CopySamples(t) \/ Call(t) \/ GetHeader(t) \/ GetSamples(t) \/ Process(t)

Next == OtherPython \/ \E t \in Threads : Step(t)

\* The interpreter gives its lock to everybody who waits, again and again.
Spec == Init /\ [][Next]_vars /\ WF_vars(OtherPython) /\ \A t \in Threads : SF_vars(Call(t)) /\ SF_vars(Process(t)) /\ WF_vars(Step(t))

-----------------------------------------------------------------------------
\* Every record of a thread is processed once, in order and whole, if there is one
\* thread (my_secdata_callback, secdata_callback).
ProcessedInOrder ==
  \A i \in DOMAIN processed :
    LET t == processed[i].by
        before == {j \in 1 .. i - 1 : processed[j].by = t}
    IN  \E n \in 1 .. i :
          /\ processed[i].of = [f \in Fields |-> <<t, n>>]
          /\ before = {} => n = 1
          /\ before # {} =>
               \E j \in before : /\ \A k \in before : k <= j
                                 /\ processed[j].of = [f \in Fields |-> <<t, n - 1>>]

\* and none is left when the interpreter is busy with something else.
EachIsProcessed == \A t \in Threads : (pc[t] = "header") ~> (pc[t] = "idle" /\ \E i \in DOMAIN processed : processed[i].by = t /\ processed[i].of["samples"] = Mine(t))

\* "Get the latest onesec ... as a tonesec struct": a record, of whichever thread.
GotIsOneRecord == \A i \in DOMAIN processed : processed[i].of["header"] = processed[i].of["samples"]
=============================================================================
