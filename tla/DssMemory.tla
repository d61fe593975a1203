------------------------------ MODULE DssMemory ------------------------------
(***************************************************************************)
(* The memory of the data subscription server (libdss.c): blocks are cut   *)
(* from chunks and returned to a list of free segments, linked both ways   *)
(* through their headers.  Memory is cells; hdr[a] is what a header at a   *)
(* holds, and stays there when a is no longer the start of a segment.      *)
(***************************************************************************)
EXTENDS Integers, Sequences, SequencesExt, FiniteSets, FiniteSetsExt

CONSTANTS
  CHUNK, MIN_CHUNK,     \* DEF_CHUNKSIZE, 1024: what is got at once, at least
  MIN_FRAG,             \* the smallest segment that is cut off
  MemAllowed,           \* mem_allowed
  Sizes,                \* of the blocks asked for
  Cells,                \* addresses are 1 .. Cells
  MergeAll              \* whether the list may be compacted at any time

NIL == 0

DssMemoryAssumption ==
  /\ {CHUNK, MIN_CHUNK, MIN_FRAG, MemAllowed, Cells} \subseteq Nat \ {0}
  /\ MemAllowed <= Cells /\ Sizes \subseteq 1 .. CHUNK /\ MergeAll \in BOOLEAN

VARIABLES
  hdr,                  \* the headers in memory
  free,                 \* the first free segment
  used,                 \* the blocks handed out
  total,                \* memory obtained
  brk                   \* where the next chunk lies

vars == <<hdr, free, used, total, brk>>

NoHeader == [next |-> NIL, prev |-> NIL, size |-> 0]
End(h, a) == a + h[a].size

Init ==
  /\ hdr = [a \in 1 .. Cells |-> NoHeader]
  /\ free = NIL /\ used = {} /\ total = 0 /\ brk = 1

-----------------------------------------------------------------------------
(* The list m = [hdr, free]: its segments in order, and writes to it.      *)

Segments(m) ==
  LET at[n \in 0 .. Cells] ==
        IF n = 0 THEN m.free ELSE IF at[n - 1] = NIL THEN NIL ELSE m.hdr[at[n - 1]].next
      all == [n \in 1 .. Cells + 1 |-> at[n - 1]]
  IN SelectSeq(all, LAMBDA a : a # NIL)

SetNext(m, a, b) == [m EXCEPT !.hdr[a].next = b]
SetPrev(m, a, b) == IF a = NIL THEN m ELSE [m EXCEPT !.hdr[a].prev = b]

\* a takes the place between prev and next
Between(m, a, size, prev, next) ==
  LET n == [m EXCEPT !.hdr[a] = [next |-> next, prev |-> prev, size |-> size]]
      o == IF prev = NIL THEN [n EXCEPT !.free = a] ELSE SetNext(n, prev, a)
  IN SetPrev(o, next, a)

Unlinked(m, prev, next) ==
  SetPrev(IF prev = NIL THEN [m EXCEPT !.free = next] ELSE SetNext(m, prev, next), next, prev)

\* the smallest that is big enough, the first of them
scan(m, sz) ==
  LET s == Segments(m)
      fit == {i \in DOMAIN s : m.hdr[s[i]].size >= sz}
      best == {i \in fit : \A j \in fit : m.hdr[s[i]].size <= m.hdr[s[j]].size}
  IN IF fit = {} THEN NIL ELSE s[Min(best)]

\* a chunk at a joins the segment it follows, or becomes the first of the list
WithChunk(m, a, size) ==
  LET before == {i \in DOMAIN Segments(m) : End(m.hdr, Segments(m)[i]) = a}
  IN IF before # {} THEN [m EXCEPT !.hdr[Segments(m)[Min(before)]].size = @ + size]
     ELSE Between(m, a, size, NIL, m.free)

Chunk == IF CHUNK <= MemAllowed - total THEN CHUNK ELSE MemAllowed - total

\* the block a is cut from its segment; its cells are cleared
Taken(m, a, sz) ==
  LET old == m.hdr[a]
      cleared == [m EXCEPT !.hdr = [b \in DOMAIN m.hdr |->
                                      IF b \in a .. a + sz - 1 THEN NoHeader ELSE m.hdr[b]]]
  IN IF old.size - sz >= MIN_FRAG
     THEN Between([cleared EXCEPT !.hdr[a].size = sz], a + sz, old.size - sz, old.prev, old.next)
     ELSE Unlinked([cleared EXCEPT !.hdr[a].size = old.size], old.prev, old.next)

memreq(sz) ==
  LET m == [hdr |-> hdr, free |-> free]
      grow == scan(m, sz) = NIL
  IN /\ ~grow \/ Chunk >= MIN_CHUNK
     /\ \E gap \in {0, 1} :
          LET chunk == brk + gap
              n == IF grow THEN WithChunk(m, chunk, Chunk) ELSE m
              a == scan(n, sz)
              o == IF a = NIL THEN n ELSE Taken(n, a, sz)
          IN /\ grow \/ gap = 0
             /\ chunk + Chunk <= Cells + 1
             /\ hdr' = o.hdr /\ free' = o.free
             /\ used' = used \cup ({a} \ {NIL})
             /\ total' = IF grow THEN total + Chunk ELSE total
             /\ brk' = IF grow THEN chunk + Chunk ELSE brk

-----------------------------------------------------------------------------
Grown(m, pt, s) == [m EXCEPT !.hdr[pt].size = @ + m.hdr[s].size]

\* pt joins the first segment of the list that it touches, or is put in order
mem_free(m, pt) ==
  LET s == Segments(m)
      touch == {i \in DOMAIN s : s[i] = End(m.hdr, pt) \/ End(m.hdr, s[i]) = pt}
      below == {i \in DOMAIN s : s[i] < pt}
      size == m.hdr[pt].size
  IN IF touch # {}
     THEN LET t == s[Min(touch)]
          IN IF t = End(m.hdr, pt)
             THEN LET n == Grown(m, pt, t)
                  IN Between(n, pt, n.hdr[pt].size, m.hdr[t].prev, m.hdr[t].next)
             ELSE Grown(m, t, pt)
     ELSE IF below # {}
     THEN Between(m, pt, size, s[Max(below)], m.hdr[s[Max(below)]].next)
     ELSE Between(m, pt, size, NIL, m.free)

\* Neighbours in the list that touch become one; prev of the segment after
\* them is left as it is.
compact_memory(m) ==
  LET s == Segments(m)
      \* the first segment of the run that s[i] is merged into
      first[i \in DOMAIN s] ==
        IF i > 1 /\ End(m.hdr, s[i - 1]) = s[i] THEN first[i - 1] ELSE i
      run(i) == {j \in DOMAIN s : first[j] = i}
  IN [m EXCEPT !.hdr = [a \in DOMAIN m.hdr |->
        IF \E i \in DOMAIN s : s[i] = a /\ first[i] = i
        THEN LET i == CHOOSE i \in DOMAIN s : s[i] = a
             IN [m.hdr[a] EXCEPT !.size = End(m.hdr, s[Max(run(i))]) - a,
                                 !.next = m.hdr[s[Max(run(i))]].next]
        ELSE m.hdr[a]]]

\* whether a compaction leaves every prev right
Harmless(m) ==
  LET n == compact_memory(m)  s == Segments(n)
  IN \A i \in DOMAIN s : n.hdr[s[i]].prev = (IF i = 1 THEN NIL ELSE s[i - 1])

Release(pt) ==
  LET m == mem_free([hdr |-> hdr, free |-> free], pt)
  IN /\ used' = used \ {pt} /\ UNCHANGED <<total, brk>>
     /\ \/ hdr' = m.hdr /\ free' = m.free
        \* the block of a client, after which the list is compacted
        \/ /\ MergeAll \/ Harmless(m)
           /\ hdr' = compact_memory(m).hdr /\ free' = m.free

Next == (\E sz \in Sizes : memreq(sz)) \/ (\E pt \in used : Release(pt))

Spec == Init /\ [][Next]_vars

-----------------------------------------------------------------------------
FreeSegments == Range(Segments([hdr |-> hdr, free |-> free]))
Cell(a) == a .. End(hdr, a) - 1

\* The list is linked both ways, its segments are whole, and what is free and
\* what is used is all that was obtained: nothing is lost (memreq, mem_free).
DssMemoryTypeOK ==
  LET s == Segments([hdr |-> hdr, free |-> free])
  IN /\ Len(s) = Cardinality(FreeSegments)
     /\ \A i \in DOMAIN s : hdr[s[i]].prev = (IF i = 1 THEN NIL ELSE s[i - 1])
     /\ Cardinality(UNION {Cell(a) : a \in FreeSegments \cup used}) = total

\* No cell belongs to two blocks, or to a block and to a free segment.
NoOverlap ==
  \A a, b \in used \cup FreeSegments : a # b => Cell(a) \cap Cell(b) = {}
UsedIsNotFree == used \cap FreeSegments = {}
BlocksAreDisjoint == NoOverlap /\ UsedIsNotFree
=============================================================================
