-------------------------------- MODULE Stream --------------------------------
(***************************************************************************)
(* What the data link between the Q330 and the station thread promises:    *)
(* from the packet a registration begins with, packets are consumed in the *)
(* order they were produced, each exactly once and none left out.  A new   *)
(* registration begins again with a packet the Q330 still has: it may have *)
(* been consumed before, and none before it is still to be consumed.       *)
(* Nothing of the window, the ring of buffers or the acknowledgements of   *)
(* libslider.c shows here.                                                 *)
(***************************************************************************)
EXTENDS Naturals, Sequences

VARIABLES produced,     \* the Q330 has made the packets below this number
          begun,        \* the packet the registration began with
          consumed      \* the packets consumed since

Init == produced \in Nat /\ begun = produced /\ consumed = << >>

Produce == produced' = produced + 1 /\ UNCHANGED <<begun, consumed>>

\* A run of packets that have become available at once.
Consume ==
  LET position == begun + Len(consumed) IN
  \E count \in 1 .. produced - position :
    /\ consumed' = consumed \o [i \in 1 .. count |-> position + i - 1]
    /\ UNCHANGED <<produced, begun>>

Restart ==
  /\ begun' \in 0 .. begun + Len(consumed)
  /\ consumed' = << >>
  /\ UNCHANGED produced

Next == Produce \/ Consume \/ Restart

Spec == Init /\ [][Next]_<<produced, begun, consumed>>
===============================================================================
