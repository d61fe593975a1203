----------------------------- MODULE MCControl -------------------------------
(* What surrounds the data: commands and status, the sockets and lines they  *)
(* travel on, the records an event sends and the data subscription server.  *)
(* A behaviour is one of a single part, chosen by the initial state, as in   *)
(* MCRecords.                                                                *)
EXTENDS Commands, Wrapping

CONSTANTS
  Parts,                       \* the parts this run checks
  Modes, Addresses, MaxFd,     \* of Sockets
  Wishes, q335, MaxWishes, MaxOthers, MaxAborts, MaxRestarts, \* of Status
  Reasons, MaxReports,         \* of Gps; changes and statuses
  PreEvent, Continuous, MaxRecords, \* of EventRing
  HDR, MinLth, MAXMTU, Lengths, MaxPackets, MaxConnections \* of TcpLink

VARIABLE part                  \* the one that runs

(* Five parts come first, each with its invariant and the lemmas of its      *)
(* proof; the other parts, the composed specification and the theorems are   *)
(* behind them.                                                              *)

-----------------------------------------------------------------------------
(* Records ahead of an event. *)
VARIABLES
  rings, eventring_ring, records_written, eventring_gen_on, gen_last_on, gen_next,
  eventring_on, triggered, event, cont

Ring == INSTANCE EventRing WITH
  ring <- eventring_ring,
  gen_on <- eventring_gen_on, on <- eventring_on

eventring_vars == <<rings, eventring_ring, records_written, eventring_gen_on,
  gen_last_on, gen_next, eventring_on, triggered, event, cont>>

ASSUME RingParameters == Ring!EventRingAssumption

(* The proof of EventOutputIsExact, for any number of records ahead of an    *)
(* event.                                                                    *)

RingInv ==
  /\ eventring_ring \in 0 .. PreEvent /\ records_written \in Nat
  /\ rings \in [0 .. PreEvent -> Nat]
  /\ Ring!EventRingTypeOK

\* The ring when a record is finished: the place i after it, at last its own.
Finished == [rings EXCEPT ![eventring_ring] = records_written + 1]
Place(i) == (eventring_ring + i) % (PreEvent + 1)

LEMMA Counted == ASSUME NEW S PROVE Ring!Cardinality(S) = Cardinality(S)
BY DEF Ring!Cardinality, Cardinality

LEMMA KthOfInterval ==
  ASSUME NEW a \in Nat, NEW b \in Nat, NEW k \in 1 .. (b - a + 1)
  PROVE  /\ Ring!Kth(a .. b, k) = a + k - 1
         /\ Ring!Cardinality(a .. b) = b - a + 1
<1>1. ASSUME NEW i \in a .. b
      PROVE  Ring!Cardinality({j \in a .. b : j <= i}) = i - a + 1
  <2>1. {j \in a .. b : j <= i} = a .. i
    BY <1>1
  <2>2. Cardinality(a .. i) = i - a + 1
    BY <1>1, FS_Interval
  <2> QED
    BY <2>1, <2>2, Counted
<1>2. Cardinality(a .. b) = b - a + 1
  BY FS_Interval
<1>3. a + k - 1 \in a .. b
  OBVIOUS
<1>4. Ring!Kth(a .. b, k) = CHOOSE i \in a .. b : i - a + 1 = k
  BY <1>1 DEF Ring!Kth
<1> DEFINE kth == CHOOSE i \in a .. b : i - a + 1 = k
<1>5. kth \in a .. b /\ kth - a + 1 = k
  <2>1. \E i \in a .. b : i - a + 1 = k
    BY <1>3
  <2> QED
    BY <2>1
<1> HIDE DEF kth
<1>6. kth = a + k - 1
  BY <1>5
<1>7. Ring!Cardinality(a .. b) = b - a + 1
  BY <1>2, Counted
<1> QED
  BY <1>4, <1>6, <1>7 DEF kth

LEMMA PlacesOfRing ==
  ASSUME RingInv
  PROVE  \A i \in 1 .. PreEvent + 1 :
           /\ Place(i) \in 0 .. PreEvent
           /\ Finished[Place(i)] = IF records_written + i > PreEvent
                                   THEN records_written + i - PreEvent ELSE Ring!NoRecord
<1> DEFINE m == PreEvent + 1
<1>1. /\ m \in Nat \ {0} /\ PreEvent \in Nat /\ eventring_ring \in 0 .. m - 1
      /\ records_written \in Nat /\ rings \in [0 .. PreEvent -> Nat]
  BY RingParameters DEF RingInv, Ring!EventRingAssumption
<1> SUFFICES ASSUME NEW i \in 1 .. m
             PROVE  /\ Place(i) \in 0 .. PreEvent
                    /\ Finished[Place(i)] = IF records_written + i > PreEvent
                                            THEN records_written + i - PreEvent ELSE Ring!NoRecord
  OBVIOUS
<1>2. Place(i) \in 0 .. PreEvent
  BY <1>1, ModRange DEF Place
<1>3. CASE i = m
  <2> DEFINE r == eventring_ring
  <2>1. r \in Int /\ r \in 0 .. m - 1 /\ Place(i) = (r + m) % m
    BY <1>1, <1>3 DEF Place
  <2> HIDE DEF r, m
  <2>2. (r + m) % m = r % m
    BY <1>1, <2>1, AddedTurn
  <2>3. r % m = r
    BY <1>1, <2>1, OneTurn
  <2>4. Place(i) = eventring_ring
    BY <2>1, <2>2, <2>3 DEF r
  <2> QED
    BY <1>1, <1>3, <2>4 DEF Finished, m
<1>4. CASE i # m
  <2> DEFINE j == m - i
             r == eventring_ring
             x == r - j
  <2>1. j \in 1 .. PreEvent /\ x \in Int /\ r \in Int /\ r \in 0 .. m - 1 /\ i < m
    BY <1>1, <1>4
  <2>2. rings[x % m] = IF records_written >= j THEN records_written - j + 1 ELSE Ring!NoRecord
    BY <2>1 DEF RingInv, Ring!EventRingTypeOK, Ring!Buffers
  <2>3. Place(i) = (x + m) % m /\ Place(i) = (r + i) % m
    BY <1>1 DEF Place
  <2> HIDE DEF j, r, x, m
  <2>4. Place(i) = x % m
    <3>1. (x + m) % m = x % m
      BY <1>1, <2>1, AddedTurn
    <3> QED
      BY <2>3, <3>1
  <2>5. Place(i) # r
    <3>1. SUFFICES ASSUME (r + i) % m = r PROVE FALSE
      BY <2>3
    <3>2. r % m = r
      BY <1>1, <2>1, OneTurn
    <3> DEFINE y == r + i
    <3>3. y \in Int /\ y % m = r % m /\ y - r < m /\ r - y < m
      BY <1>1, <2>1, <3>1, <3>2
    <3> HIDE DEF y
    <3>4. y = r
      BY <1>1, <2>1, <3>3, NearEqual
    <3> QED
      BY <1>1, <2>1, <3>4 DEF y
  <2>6. Finished[Place(i)] = rings[Place(i)]
    BY <1>1, <1>2, <2>5 DEF Finished, r
  <2>7. records_written >= j <=> records_written + i > PreEvent
    BY <1>1, <2>1 DEF j, m
  <2>8. records_written - j + 1 = records_written + i - PreEvent
    BY <1>1, <2>1 DEF j, m
  <2> QED
    BY <1>2, <2>2, <2>4, <2>6, <2>7, <2>8
<1> QED
  BY <1>2, <1>3, <1>4

\* What ringman sends: the records from first on, the newest last.
LEMMA DueRecords ==
  ASSUME RingInv, NEW contig \in BOOLEAN, NEW next \in 0 .. records_written + 1
  PROVE  \E first \in 1 .. records_written + 1 :
           /\ Ring!Due(Finished, contig, next) =
                [k \in 1 .. records_written + 2 - first |-> first + k - 1]
           /\ IF contig THEN first = records_written + 1
              ELSE /\ first >= next /\ first >= records_written + 1 - PreEvent
                   /\ first \in {1, next, records_written + 1 - PreEvent}
<1> DEFINE m == PreEvent + 1
           n == records_written
           old(i) == Finished[(eventring_ring + i) % m]
           candidates == IF contig THEN {m} ELSE 1 .. m
           sending == {i \in candidates : old(i) # 0 /\ old(i) >= next}
           start == IF contig THEN n + 1
                    ELSE IF next >= 1 /\ next >= n + 1 - PreEvent THEN next
                    ELSE IF n + 1 - PreEvent >= 1 THEN n + 1 - PreEvent ELSE 1
           lowest == start + m - (n + 1)
<1>1. PreEvent \in Nat /\ m \in Nat \ {0} /\ n \in Nat
  BY RingParameters DEF RingInv, Ring!EventRingAssumption
<1>2. \A i \in 1 .. m : old(i) = IF n + i > PreEvent THEN n + i - PreEvent ELSE 0
  BY PlacesOfRing DEF Place, Ring!NoRecord
<1>3. start \in 1 .. n + 1 /\ start >= next /\ start >= n + 1 - PreEvent
  BY <1>1
<1>4. lowest \in 1 .. m
  BY <1>1, <1>3
<1>5. sending = lowest .. m
  <2> HIDE DEF old
  <2>1. CASE contig
    BY <1>1, <1>2, <2>1
  <2>2. CASE ~contig
    BY <1>1, <1>2, <2>2
  <2> QED
    BY <2>1, <2>2
<1>6. Ring!Due(Finished, contig, next) =
        [k \in 1 .. Ring!Cardinality(sending) |-> old(Ring!Kth(sending, k))]
  BY DEF Ring!Due, Ring!Buffers, Ring!NoRecord
<1> HIDE DEF old, sending, start, lowest
<1>7. Ring!Cardinality(sending) = n + 2 - start
  BY <1>1, <1>3, <1>4, <1>5, KthOfInterval DEF lowest
<1>8. ASSUME NEW k \in 1 .. n + 2 - start
      PROVE  old(Ring!Kth(sending, k)) = start + k - 1
  <2>1. k \in 1 .. (m - lowest + 1) /\ lowest \in Nat /\ m \in Nat
    BY <1>1, <1>3, <1>4 DEF lowest
  <2>2. Ring!Kth(sending, k) = lowest + k - 1
    BY <1>5, <2>1, KthOfInterval
  <2>3. lowest + k - 1 \in 1 .. m
    BY <1>4, <2>1
  <2>4. n + (lowest + k - 1) - PreEvent = start + k - 1
    BY <1>1, <1>3 DEF lowest
  <2> QED
    BY <1>1, <1>2, <1>3, <2>2, <2>3, <2>4
<1>9. Ring!Due(Finished, contig, next) = [k \in 1 .. n + 2 - start |-> start + k - 1]
  BY <1>6, <1>7, <1>8
<1> QED
  BY <1>1, <1>3, <1>9 DEF start

\* The event records are sent in order, up to the one before gen_next, which
\* is due because of a trigger near it; a run is being sent while the detector
\* is on.
SentInv ==
  /\ eventring_gen_on \in BOOLEAN /\ eventring_on \in BOOLEAN /\ gen_last_on \in BOOLEAN
  /\ event \in Seq([rec : Nat, begin : BOOLEAN]) /\ triggered \subseteq 1 .. records_written
  /\ gen_next \in 0 .. records_written + 1
  /\ IF event = << >> THEN gen_next = 0 ELSE gen_next = event[Len(event)].rec + 1
  /\ gen_next > 0 => \E t \in triggered : gen_next <= t + 2
  /\ gen_last_on <=> records_written \in triggered
  /\ gen_last_on => gen_next = records_written + 1
  /\ Ring!SentOnceInOrder /\ Ring!RunsAreFlagged /\ Ring!EventOutputIsExact

EndsAfter(j) == \E k \in j + 1 .. Len(cont) : cont[k].end

\* While a run is being sent the last event begun has not ended, else all have.
FlagInv ==
  /\ cont \in Seq([rec : Nat, begin : BOOLEAN, end : BOOLEAN])
  /\ ~Continuous => cont = << >>
  /\ Continuous => IF gen_last_on THEN \E j \in DOMAIN cont : cont[j].begin /\ ~EndsAfter(j)
                   ELSE \A j \in DOMAIN cont : cont[j].begin => EndsAfter(j)
  /\ Ring!BeginsAndEndsAlternate

\* The records a step sends, and what it leaves of a run.
Sends(now, first) ==
  /\ event' = event \o [k \in 1 .. records_written + 2 - first |->
                          [rec |-> first + k - 1, begin |-> ~gen_last_on /\ k = 1]]
  /\ gen_next' = records_written + 2
  /\ IF gen_last_on THEN first = records_written + 1
     ELSE /\ first >= gen_next /\ first >= records_written + 1 - PreEvent
          /\ first \in {1, gen_next, records_written + 1 - PreEvent}

Ends(now) ==
  /\ records_written' = records_written + 1
  /\ eventring_gen_on' \in BOOLEAN /\ eventring_on' \in BOOLEAN
  /\ eventring_ring' = Place(1) /\ rings' = [Finished EXCEPT ![Place(1)] = Ring!NoRecord]
  /\ triggered' = IF now THEN triggered \cup {records_written + 1} ELSE triggered
  /\ cont' = IF Continuous THEN Append(cont, Ring!Flagged(records_written + 1, now)) ELSE cont
  /\ gen_last_on' = now
  /\ IF now \/ gen_last_on THEN \E first \in 1 .. records_written + 1 : Sends(now, first)
     ELSE event' = event /\ gen_next' = gen_next

LEMMA RecordEnds ==
  ASSUME RingInv, SentInv, NEW again \in BOOLEAN, Ring!finish_record(again)
  PROVE  \E now \in BOOLEAN : Ends(now)
<1> DEFINE now == eventring_gen_on \/ (again /\ eventring_on')
           n == records_written
           told_of == IF now \/ gen_last_on THEN Ring!Due(Finished, gen_last_on, gen_next)
                      ELSE << >>
           out == [i \in DOMAIN told_of |-> [rec |-> told_of[i], begin |-> ~gen_last_on /\ i = 1]]
<1>1. n \in Nat /\ now \in BOOLEAN /\ gen_last_on \in BOOLEAN /\ gen_next \in 0 .. n + 1
  BY DEF RingInv, SentInv
<1>2. /\ records_written' = n + 1 /\ eventring_gen_on' = FALSE /\ eventring_on' \in BOOLEAN
      /\ eventring_ring' = Place(1) /\ rings' = [Finished EXCEPT ![Place(1)] = Ring!NoRecord]
      /\ triggered' = IF now THEN triggered \cup {n + 1} ELSE triggered
      /\ cont' = IF Continuous THEN Append(cont, Ring!Flagged(n + 1, now)) ELSE cont
      /\ event' = event \o out
      /\ gen_last_on' = (now /\ (gen_last_on \/ told_of # << >>))
      /\ gen_next' = IF told_of = << >> THEN gen_next ELSE told_of[Len(told_of)] + 1
  BY DEF Ring!finish_record, Ring!ringman, Ring!link, Ring!Buffers, Place, Finished, SentInv
<1>3. CASE now \/ gen_last_on
  <2>1. told_of = Ring!Due(Finished, gen_last_on, gen_next)
    BY <1>3
  <2>2. PICK first \in 1 .. n + 1 :
           /\ told_of = [k \in 1 .. n + 2 - first |-> first + k - 1]
           /\ IF gen_last_on THEN first = n + 1
              ELSE /\ first >= gen_next /\ first >= n + 1 - PreEvent
                   /\ first \in {1, gen_next, n + 1 - PreEvent}
    BY <1>1, <2>1, DueRecords
  <2> HIDE DEF told_of, now
  <2>3. /\ DOMAIN told_of = 1 .. n + 2 - first /\ told_of \in Seq(Nat)
        /\ Len(told_of) = n + 2 - first /\ told_of # << >>
        /\ told_of[Len(told_of)] = n + 1
        /\ \A k \in 1 .. n + 2 - first : told_of[k] = first + k - 1
    <3> DEFINE c == n + 2 - first
    <3>1. c \in Nat \ {0} /\ first + c - 1 = n + 1 /\ first \in Nat
      BY <1>1
    <3>2. told_of = [k \in 1 .. c |-> first + k - 1]
      BY <2>2
    <3> HIDE DEF c
    <3>3. told_of \in Seq(Nat) /\ Len(told_of) = c /\ DOMAIN told_of = 1 .. c
      BY <3>1, <3>2
    <3>4. told_of # << >> /\ told_of[c] = n + 1
      BY <3>1, <3>2, <3>3
    <3> QED
      BY <3>2, <3>3, <3>4 DEF c
  <2>4. out = [k \in 1 .. n + 2 - first |->
                 [rec |-> first + k - 1, begin |-> ~gen_last_on /\ k = 1]]
    BY <2>3
  <2> HIDE DEF out
  <2>5. gen_last_on' = now
    BY <1>1, <1>2, <2>3
  <2>6. gen_next' = n + 2
    BY <1>1, <1>2, <2>3
  <2>7. Sends(now, first)
    BY <1>2, <2>2, <2>4, <2>6 DEF Sends
  <2> QED
    BY <1>1, <1>2, <1>3, <2>5, <2>7 DEF Ends
<1>4. CASE ~(now \/ gen_last_on)
  <2>1. told_of = << >> /\ out = << >>
    BY <1>4
  <2>2. event' = event
    BY <1>2, <2>1 DEF SentInv
  <2>3. gen_next' = gen_next /\ gen_last_on' = now
    BY <1>2, <1>4, <2>1
  <2> HIDE DEF now
  <2> QED
    BY <1>1, <1>2, <1>4, <2>2, <2>3 DEF Ends
<1> QED
  BY <1>3, <1>4

LEMMA RingMoves ==
  ASSUME RingInv, NEW now \in BOOLEAN, Ends(now)
  PROVE  RingInv'
<1> DEFINE m == PreEvent + 1
           r == eventring_ring
           n == records_written
           s == Place(1)
<1>1. /\ m \in Nat \ {0} /\ PreEvent \in Nat /\ r \in 0 .. m - 1 /\ r \in Int /\ n \in Nat
      /\ rings \in [0 .. PreEvent -> Nat] /\ m = PreEvent + 1
  BY RingParameters DEF RingInv, Ring!EventRingAssumption
<1>2. s \in 0 .. PreEvent /\ s = (r + 1) % m
  BY <1>1, PlacesOfRing DEF Place
<1>3. eventring_ring' = s /\ records_written' = n + 1 /\ rings' = [Finished EXCEPT ![s] = 0]
  BY DEF Ends, Ring!NoRecord
<1>4. Finished \in [0 .. PreEvent -> Nat]
  BY <1>1 DEF Finished
<1> HIDE DEF s
<1>5. rings' \in [0 .. PreEvent -> Nat] /\ rings'[s] = 0
  BY <1>2, <1>3, <1>4
<1>6. ASSUME NEW j \in 1 .. PreEvent
      PROVE  rings'[(s - j) % m] = IF n + 1 >= j THEN n + 1 - j + 1 ELSE 0
  <2> DEFINE i == m + 1 - j
             x == r + 1 - j
             y == r + i
             z == r + 1
             d == -j
  <2>1. /\ i \in 2 .. m /\ x \in Int /\ y \in Int /\ z \in Int /\ y = x + m /\ d \in Int
        /\ x = z + d /\ s - j = s + d /\ y - z < m /\ z - y < m /\ y # z
    BY <1>1, <1>2
  <2>2. Finished[Place(i)] = IF n + i > PreEvent THEN n + i - PreEvent ELSE 0
    BY <1>1, <2>1, PlacesOfRing DEF Ring!NoRecord
  <2>3. /\ n + i > PreEvent <=> n + 1 >= j
        /\ n + i - PreEvent = n + 1 - j + 1
    BY <1>1
  <2>4. Place(i) = y % m /\ Place(i) \in 0 .. PreEvent
    BY <1>1, <2>1, PlacesOfRing DEF Place
  <2>5. s = z % m
    BY <1>2
  <2> HIDE DEF i, x, y, z, d, m, r
  <2>6. (x + m) % m = x % m
    BY <1>1, <2>1, AddedTurn
  <2>8. ((z % m) + d) % m = (z + d) % m
    BY <1>1, <2>1, SlotFirst
  <2>9. (s - j) % m = Place(i)
    BY <2>1, <2>4, <2>5, <2>6, <2>8
  <2>10. Place(i) # s
    BY <1>1, <2>1, <2>4, <2>5, NearEqual
  <2> QED
    BY <1>2, <1>3, <1>4, <2>2, <2>3, <2>4, <2>9, <2>10
<1> QED
  BY <1>1, <1>2, <1>3, <1>5, <1>6 DEF RingInv, Ring!EventRingTypeOK, Ring!Buffers, Ring!NoRecord

LEMMA SentMoves ==
  ASSUME RingInv, SentInv, NEW now \in BOOLEAN, Ends(now)
  PROVE  SentInv'
<1> DEFINE n == records_written
           was == gen_last_on
           before == Len(event)
           R == [rec : Nat, begin : BOOLEAN]
<1>1. /\ n \in Nat /\ PreEvent \in Nat /\ was \in BOOLEAN /\ gen_next \in 0 .. n + 1
      /\ event \in Seq(R) /\ before \in Nat /\ triggered \subseteq 1 .. n
      /\ was <=> n \in triggered
  BY RingParameters DEF RingInv, SentInv, Ring!EventRingAssumption
<1>2. /\ records_written' = n + 1 /\ gen_last_on' = now
      /\ eventring_gen_on' \in BOOLEAN /\ eventring_on' \in BOOLEAN
      /\ triggered' = IF now THEN triggered \cup {n + 1} ELSE triggered
  BY DEF Ends
<1>3. triggered' \subseteq 1 .. n + 1 /\ (now <=> n + 1 \in triggered')
  BY <1>1, <1>2
<1>4. CASE now \/ was
  <2>1. PICK first \in 1 .. n + 1 : Sends(now, first)
    BY <1>4 DEF Ends
  <2> DEFINE c == n + 2 - first
             out == [k \in 1 .. c |-> [rec |-> first + k - 1, begin |-> ~was /\ k = 1]]
  <2>2. c \in Nat \ {0} /\ first \in Nat /\ first + c = n + 2 /\ first >= 1
    BY <1>1
  <2>3. /\ event' = event \o out /\ gen_next' = n + 2
        /\ IF was THEN first = n + 1
           ELSE /\ first >= gen_next /\ first >= n + 1 - PreEvent
                /\ first \in {1, gen_next, n + 1 - PreEvent}
    BY <2>1 DEF Sends
  <2>4. first >= gen_next /\ (was => first = gen_next)
    BY <1>1, <2>3 DEF SentInv
  <2> HIDE DEF c, n, was
  <2>5. /\ out \in Seq(R) /\ Len(out) = c
        /\ \A k \in 1 .. c : out[k].rec = first + k - 1 /\ out[k].begin = (~was /\ k = 1)
    <3>1. \A k \in 1 .. c : [rec |-> first + k - 1, begin |-> ~was /\ k = 1] \in R
      BY <2>2
    <3> QED
      BY <2>2, <3>1
  <2> HIDE DEF out
  <2>6. /\ event' \in Seq(R) /\ Len(event') = before + c
        /\ \A i \in 1 .. before : event'[i] = event[i]
        /\ \A k \in 1 .. c : event'[before + k] = out[k]
    <3> HIDE DEF R
    <3>1. event' \in Seq(R) /\ Len(event') = before + c
      <4>1. event \in Seq(R) /\ out \in Seq(R) /\ event' = event \o out
        BY <1>1, <2>3, <2>5
      <4>2. event \o out \in Seq(R) /\ Len(event \o out) = Len(event) + Len(out)
        BY <4>1
      <4> QED
        BY <2>5, <4>1, <4>2
    <3>2. \A i \in 1 .. before + c :
            event'[i] = IF i <= before THEN event[i] ELSE out[i - before]
      BY <1>1, <2>2, <2>3, <2>5
    <3> HIDE DEF before
    <3>3. ASSUME NEW k \in 1 .. c
          PROVE  event'[before + k] = out[k]
      <4> DEFINE i == before + k
      <4>1. i \in 1 .. before + c /\ ~(i <= before) /\ i - before = k
        BY <1>1, <2>2
      <4> HIDE DEF i
      <4>2. event'[i] = out[k]
        BY <3>2, <4>1
      <4> QED
        BY <4>2 DEF i
    <3> QED
      BY SMTT(20), <1>1, <2>2, <3>1, <3>2, <3>3
  <2> HIDE DEF before
  <2>7. event' # << >> /\ event'[Len(event')].rec = n + 1
    BY SMTT(20), <1>1, <2>2, <2>5, <2>6
  <2>8. \E t \in triggered' : n + 2 <= t + 2
    <3>1. CASE now
      BY <1>1, <1>3, <3>1
    <3>2. CASE ~now /\ was
      BY <1>1, <1>2, <3>2
    <3> QED
      BY <1>4, <3>1, <3>2
  <2>9. \A i \in 1 .. before : event[i] \in R
    <3> HIDE DEF R
    <3> QED
      BY <1>1 DEF before
  <2>10. before > 0 => event[before].rec = gen_next - 1 /\ gen_next > 0
    <3>1. event # << >> => gen_next = event[before].rec + 1
      BY DEF SentInv, before
    <3> QED
      BY <1>1, <2>9, <3>1 DEF before
  <2>11. Ring!SentOnceInOrder'
    <3> SUFFICES ASSUME NEW i \in 1 .. before + c - 1
                 PROVE  event'[i].rec < event'[i + 1].rec
      BY <1>1, <2>2, <2>6 DEF Ring!SentOnceInOrder
    <3>1. CASE i < before
      <4>1. event[i].rec < event[i + 1].rec
        BY <1>1, <3>1 DEF SentInv, Ring!SentOnceInOrder, before
      <4> QED
        <5>1. event'[i] = event[i] /\ event'[i + 1] = event[i + 1]
          BY <1>1, <2>6, <3>1
        <5> QED
          BY <4>1, <5>1
    <3>2. CASE i = before
      <4>1. event'[i].rec = gen_next - 1
        BY <2>6, <2>10, <3>2, <1>1
      <4>2. event'[before + 1] = out[1] /\ out[1].rec = first
        <5>1. 1 \in 1 .. c
          BY <2>2
        <5>2. event'[before + 1] = out[1] /\ out[1].rec = first + 1 - 1
          BY <2>5, <2>6, <5>1
        <5> QED
          BY <2>2, <5>2
      <4> QED
        BY <1>1, <2>2, <2>4, <3>2, <4>1, <4>2
    <3>3. CASE i > before
      <4> DEFINE k == i - before
      <4>1. k \in 1 .. c /\ k + 1 \in 1 .. c /\ i = before + k /\ i + 1 = before + (k + 1)
        BY <1>1, <2>2, <3>3
      <4> HIDE DEF k
      <4>2. event'[before + k] = out[k] /\ event'[before + (k + 1)] = out[k + 1]
        BY <2>6, <4>1
      <4>3. out[k].rec = first + k - 1 /\ out[k + 1].rec = first + (k + 1) - 1
        BY <2>5, <4>1
      <4> QED
        BY <2>2, <4>1, <4>2, <4>3
    <3> QED
      BY <1>1, <3>1, <3>2, <3>3
  <2>12. Ring!RunsAreFlagged'
    <3> SUFFICES ASSUME NEW i \in 1 .. before + c, ~event'[i].begin
                 PROVE  i > 1 /\ event'[i].rec = event'[i - 1].rec + 1
      BY <1>1, <2>2, <2>6 DEF Ring!RunsAreFlagged
    <3>1. CASE i <= before
      <4>1. i > 1 /\ event[i].rec = event[i - 1].rec + 1
        <5> HIDE DEF R
        <5>1. i \in DOMAIN event
          BY <1>1, <3>1 DEF before
        <5>2. ~event[i].begin
          BY <1>1, <2>6, <3>1
        <5> QED
          BY <5>1, <5>2 DEF SentInv, Ring!RunsAreFlagged
      <4> QED
        BY <1>1, <2>6, <3>1, <4>1
    <3>2. CASE i = before + 1
      <4>1. event'[i] = out[1] /\ out[1].rec = first /\ out[1].begin = ~was
        BY <2>2, <2>5, <2>6, <3>2
      <4>2. was
        BY <1>1, <4>1 DEF was
      <4>3. gen_next = n + 1 /\ first = n + 1
        BY <2>3, <4>2 DEF SentInv, was, n
      <4>4. before > 0
        BY <1>1, <4>3 DEF SentInv, before, n
      <4>5. event'[before].rec = gen_next - 1
        BY SMTT(20), <1>1, <2>6, <2>10, <4>4
      <4> QED
        BY <1>1, <3>2, <4>1, <4>3, <4>4, <4>5
    <3>3. CASE i > before + 1
      <4> DEFINE k == i - before - 1
      <4>1. /\ k \in 1 .. c /\ k + 1 \in 1 .. c /\ i - 1 = before + k
            /\ i = before + (k + 1) /\ i > 1
        BY <1>1, <2>2, <3>3
      <4> HIDE DEF k
      <4>2. event'[before + k] = out[k] /\ event'[before + (k + 1)] = out[k + 1]
        BY <2>6, <4>1
      <4>3. out[k].rec = first + k - 1 /\ out[k + 1].rec = first + (k + 1) - 1
        BY <2>5, <4>1
      <4> QED
        BY <2>2, <4>1, <4>2, <4>3
    <3> QED
      BY <1>1, <3>1, <3>2, <3>3
  <2>13. Ring!EventOutputIsExact'
    <3> DEFINE near(T, top) == {r \in 1 .. top : \E t \in T : t - PreEvent <= r /\ r <= t + 1}
               sofar == {event[i].rec : i \in 1 .. before}
    <3>1. sofar = near(triggered, n)
      <4> HIDE DEF R
      <4>1. DOMAIN event = 1 .. before
        BY <1>1 DEF before
      <4>2. Ring!SentAsEvent = near(triggered, n)
        BY DEF SentInv, Ring!EventOutputIsExact, n
      <4> QED
        BY <4>1, <4>2 DEF Ring!SentAsEvent
    <3>2. {event'[i].rec : i \in 1 .. before + c} = sofar \cup first .. n + 1
      <4>1. ASSUME NEW i \in 1 .. before + c
            PROVE  event'[i].rec \in sofar \cup first .. n + 1
        <5>1. CASE i <= before
          BY SMTT(20), <1>1, <2>6, <5>1
        <5>2. CASE i > before
          <6> DEFINE k == i - before
          <6>1. k \in 1 .. c /\ i = before + k
            BY <1>1, <2>2, <5>2
          <6> HIDE DEF k
          <6>2. event'[i].rec = first + k - 1
            BY <2>5, <2>6, <6>1
          <6> QED
            BY <1>1, <2>2, <6>1, <6>2
        <5> QED
          BY <1>1, <5>1, <5>2
      <4>2. ASSUME NEW r \in sofar
            PROVE  \E i \in 1 .. before + c : event'[i].rec = r
        <5>1. PICK i \in 1 .. before : r = event[i].rec
          OBVIOUS
        <5>2. i \in 1 .. before + c /\ event'[i].rec = r
          BY SMTT(20), <1>1, <2>2, <2>6, <5>1
        <5> QED
          BY <5>2
      <4>3. ASSUME NEW r \in first .. n + 1
            PROVE  \E i \in 1 .. before + c : event'[i].rec = r
        <5> DEFINE k == r - first + 1
        <5>1. k \in 1 .. c /\ first + k - 1 = r /\ before + k \in 1 .. before + c
          BY <1>1, <2>2
        <5> HIDE DEF k
        <5>2. event'[before + k].rec = r
          BY <2>5, <2>6, <5>1
        <5> QED
          BY <5>1, <5>2
      <4> HIDE DEF sofar
      <4> QED
        BY <4>1, <4>2, <4>3
    <3> HIDE DEF sofar
    <3>3. ASSUME NEW r \in 1 .. n + 1
          PROVE  r \in sofar \cup first .. n + 1 <=> r \in near(triggered', n + 1)
      <4>1. CASE was
        <5>1. n \in triggered /\ first = n + 1
          BY <1>1, <2>3, <4>1 DEF was, n
        <5>2. n \in triggered'
          BY <1>2, <5>1
        <5>3. CASE r = n + 1
          BY <1>1, <5>1, <5>2, <5>3 DEF n
        <5>4. CASE r < n + 1
          <6>1. r \in near(triggered', n + 1) <=> r \in near(triggered, n)
            <7>1. r \in 1 .. n /\ r \in 1 .. n + 1
              BY <1>1, <5>4 DEF n
            <7>2. ASSUME now, n + 1 - PreEvent <= r, r <= n + 1 + 1
                  PROVE  n - PreEvent <= r /\ r <= n + 1
              BY <1>1, <5>4, <7>2 DEF n
            <7>3. ASSUME NEW t \in triggered', t - PreEvent <= r, r <= t + 1
                  PROVE  \E u \in triggered : u - PreEvent <= r /\ r <= u + 1
              <8>1. CASE t \in triggered
                BY <7>3, <8>1
              <8>2. CASE t \notin triggered
                <9>1. now /\ t = n + 1
                  BY <1>2, <8>2
                <9>2. n - PreEvent <= r /\ r <= n + 1
                  BY <1>1, <7>2, <7>3, <9>1 DEF n
                <9> QED
                  BY <5>1, <9>2
              <8> QED
                BY <8>1, <8>2
            <7>4. triggered \subseteq triggered'
              BY <1>2
            <7> QED
              BY <7>1, <7>3, <7>4
          <6>2. r \notin first .. n + 1
            BY <5>1, <5>4, <1>1
          <6> QED
            BY <3>1, <6>1, <6>2
        <5> QED
          BY <1>1, <5>3, <5>4 DEF n
      <4>2. CASE ~was
        <5>1. /\ now /\ n + 1 \in triggered' /\ triggered' = triggered \cup {n + 1}
              /\ n \notin triggered
          BY <1>1, <1>2, <1>4, <4>2 DEF was, n
        <5>2. /\ first >= gen_next /\ first >= n + 1 - PreEvent
              /\ first \in {1, gen_next, n + 1 - PreEvent}
          BY <2>3, <4>2
        <5>3. CASE r >= first
          <6>1. n + 1 - PreEvent <= r /\ r <= (n + 1) + 1
            BY <1>1, <2>2, <5>2, <5>3 DEF n
          <6> QED
            BY <1>1, <2>2, <5>1, <5>3, <6>1 DEF n
        <5>4. CASE r < first
          <6>1. r \notin first .. n + 1 /\ r \in 1 .. n
            BY <1>1, <2>2, <5>4 DEF n
          <6>2. ASSUME n + 1 - PreEvent <= r
                PROVE  \E t \in triggered : t - PreEvent <= r /\ r <= t + 1
            <7>1. first = gen_next /\ gen_next > 0
              BY <1>1, <2>2, <5>2, <5>4, <6>2 DEF n
            <7>2. PICK t \in triggered : gen_next <= t + 2
              BY <7>1 DEF SentInv
            <7>3. t \in 1 .. n
              BY <1>1 DEF n
            <7>4. t - PreEvent <= r /\ r <= t + 1
              BY <1>1, <5>4, <6>2, <7>1, <7>2, <7>3 DEF n
            <7> QED
              BY <7>4
          <6>3. r \in near(triggered', n + 1) <=> r \in near(triggered, n)
            <7>1. ASSUME NEW t \in triggered', t - PreEvent <= r, r <= t + 1
                  PROVE  \E u \in triggered : u - PreEvent <= r /\ r <= u + 1
              <8>1. CASE t \in triggered
                BY <7>1, <8>1
              <8>2. CASE t \notin triggered
                <9>1. t = n + 1
                  BY <5>1, <8>2
                <9>2. n + 1 - PreEvent <= r
                  BY <1>1, <7>1, <9>1 DEF n
                <9> QED
                  BY <6>2, <9>2
              <8> QED
                BY <8>1, <8>2
            <7>2. triggered \subseteq triggered'
              BY <5>1
            <7> QED
              BY <6>1, <7>1, <7>2
          <6> QED
            BY <3>1, <6>1, <6>3
        <5> QED
          BY <2>2, <5>3, <5>4
      <4> QED
        BY <4>1, <4>2
    <3>4. sofar \cup first .. n + 1 \subseteq 1 .. n + 1
      <4>1. sofar \subseteq 1 .. n
        BY <3>1
      <4> QED
        BY <1>1, <2>2, <4>1 DEF n
    <3>5. sofar \cup first .. n + 1 = near(triggered', n + 1)
      BY <3>3, <3>4
    <3>6. /\ Ring!SentAsEvent' = {event'[i].rec : i \in 1 .. before + c}
          /\ records_written' = n + 1
      <4> HIDE DEF R
      <4>1. DOMAIN event' = 1 .. before + c
        BY <2>6
      <4> QED
        BY <1>2, <4>1 DEF Ring!SentAsEvent, n
    <3> QED
      BY <3>2, <3>5, <3>6 DEF Ring!EventOutputIsExact
  <2> QED
    BY <1>1, <1>2, <1>3, <2>3, <2>6, <2>7, <2>8, <2>11, <2>12, <2>13 DEF SentInv, n
<1>5. CASE ~(now \/ was)
  <2>1. /\ event' = event /\ gen_next' = gen_next /\ triggered' = triggered
        /\ n \notin triggered /\ ~gen_last_on'
    BY <1>1, <1>2, <1>5 DEF Ends
  <2>2. Ring!EventOutputIsExact'
    <3>1. \A r \in 1 .. n + 1, t \in triggered : r <= t + 1 => r \in 1 .. n
      BY <1>1, <2>1
    <3>2. {r \in 1 .. n + 1 : \E t \in triggered : t - PreEvent <= r /\ r <= t + 1} =
          {r \in 1 .. n : \E t \in triggered : t - PreEvent <= r /\ r <= t + 1}
      BY SMTT(20), <1>1, <3>1
    <3> QED
      BY <1>2, <2>1, <3>2 DEF SentInv, Ring!EventOutputIsExact, Ring!SentAsEvent
  <2>3. Ring!SentOnceInOrder' /\ Ring!RunsAreFlagged'
    BY <2>1 DEF SentInv, Ring!SentOnceInOrder, Ring!RunsAreFlagged
  <2>4. n + 1 \notin triggered' /\ gen_next' \in 0 .. n + 2
    BY <1>1, <2>1
  <2> QED
    BY <1>1, <1>2, <1>3, <2>1, <2>2, <2>3, <2>4 DEF SentInv
<1> QED
  BY <1>4, <1>5

LEMMA FlagsMove ==
  ASSUME RingInv, SentInv, FlagInv, NEW now \in BOOLEAN, Ends(now)
  PROVE  FlagInv'
<1> DEFINE F == [rec : Nat, begin : BOOLEAN, end : BOOLEAN]
           was == gen_last_on
           f == Ring!Flagged(records_written + 1, now)
           last == Len(cont)
<1>1. /\ cont \in Seq(F) /\ was \in BOOLEAN /\ Continuous \in BOOLEAN /\ gen_last_on' = now
      /\ records_written \in Nat
      /\ Continuous => cont' = Append(cont, f)
      /\ ~Continuous => cont' = cont
  <2>1. cont \in Seq(F) /\ was \in BOOLEAN /\ records_written \in Nat
    BY DEF RingInv, SentInv, FlagInv
  <2>2. Continuous \in BOOLEAN
    BY RingParameters DEF Ring!EventRingAssumption
  <2>3. gen_last_on' = now
    BY DEF Ends
  <2>4. cont' = IF Continuous THEN Append(cont, f) ELSE cont
    BY DEF Ends
  <2> HIDE DEF f, F
  <2> QED
    BY <2>1, <2>2, <2>3, <2>4
<1>2. CASE ~Continuous
  <2>1. cont = << >>
    BY <1>2 DEF FlagInv
  <2>2. cont' = << >>
    BY <1>1, <1>2, <2>1
  <2>3. Ring!BeginsAndEndsAlternate'
    BY <2>2 DEF Ring!BeginsAndEndsAlternate
  <2>4. cont' \in Seq(F)
    <3> HIDE DEF F
    <3> QED
      BY <2>2
  <2> QED
    BY <1>2, <2>2, <2>3, <2>4 DEF FlagInv
<1>3. CASE Continuous
  <2>1. f \in F /\ f.begin = (now /\ ~was) /\ f.end = (~now /\ was)
    <3> DEFINE begins == now /\ ~was
               ends == ~now /\ was
    <3>1. begins \in BOOLEAN /\ ends \in BOOLEAN
      OBVIOUS
    <3>2. f = [rec |-> records_written + 1, begin |-> begins, end |-> ends]
      BY DEF Ring!Flagged
    <3> HIDE DEF begins, ends, f
    <3>3. f \in F /\ f.begin = begins /\ f.end = ends
      BY <1>1, <3>1, <3>2
    <3> QED
      BY <3>3 DEF begins, ends
  <2> HIDE DEF F, f
  <2>2. cont' = Append(cont, f)
    BY <1>1, <1>3
  <2>3. /\ cont' \in Seq(F) /\ last \in Nat /\ Len(cont') = last + 1
        /\ \A i \in 1 .. last : cont'[i] = cont[i]
        /\ cont'[last + 1] = f
    BY <1>1, <2>1, <2>2
  <2>4. /\ DOMAIN cont = 1 .. last /\ DOMAIN cont' = 1 .. last + 1
    BY <1>1, <2>3
  <2> HIDE DEF last, was
  <2>5. ASSUME NEW j \in 1 .. last
        PROVE  EndsAfter(j)' <=> EndsAfter(j) \/ f.end
    <3>1. /\ EndsAfter(j)' <=> \E k \in j + 1 .. last + 1 : cont'[k].end
          /\ EndsAfter(j) <=> \E k \in j + 1 .. last : cont[k].end
      BY <2>3 DEF EndsAfter, last
    <3>2. \A k \in j + 1 .. last + 1 : k = last + 1 \/ (k \in j + 1 .. last /\ k \in 1 .. last)
      BY <2>3
    <3>3. last + 1 \in j + 1 .. last + 1 /\ j + 1 .. last \subseteq j + 1 .. last + 1
      BY <2>3
    <3> QED
      BY <2>3, <3>1, <3>2, <3>3
  <2>6. ASSUME NEW j, j = last + 1
        PROVE  ~EndsAfter(j)'
    <3>1. \A k \in j + 1 .. Len(cont') : FALSE
      BY <2>3, <2>6
    <3> QED
      BY <3>1 DEF EndsAfter
  <2>7. IF was THEN \E j \in 1 .. last : cont[j].begin /\ ~EndsAfter(j)
        ELSE \A j \in 1 .. last : cont[j].begin => EndsAfter(j)
    BY <1>3, <2>4 DEF FlagInv, was
  <2>8. IF now THEN \E j \in 1 .. last + 1 : cont'[j].begin /\ ~EndsAfter(j)'
        ELSE \A j \in 1 .. last + 1 : cont'[j].begin => EndsAfter(j)'
    <3>1. CASE now /\ ~was
      <4>1. f.begin /\ last + 1 \in 1 .. last + 1
        <5>1. f.begin
          BY <2>1, <3>1
        <5> QED
          BY <2>3, <5>1
      <4>2. PICK j \in 1 .. last + 1 : j = last + 1
        BY <4>1
      <4>3. cont'[j].begin /\ ~EndsAfter(j)'
        BY <2>3, <2>6, <4>1, <4>2
      <4> QED
        BY <3>1, <4>3
    <3>2. CASE now /\ was
      <4>1. PICK j \in 1 .. last : cont[j].begin /\ ~EndsAfter(j)
        BY <2>7, <3>2
      <4>2. ~f.end
        BY <2>1, <3>2
      <4>3. ~EndsAfter(j)'
        BY <2>5, <4>1, <4>2
      <4>4. cont'[j].begin /\ j \in 1 .. last + 1
        BY <2>3, <4>1
      <4> QED
        BY <3>2, <4>3, <4>4
    <3>3. CASE ~now
      <4> SUFFICES ASSUME NEW j \in 1 .. last + 1, cont'[j].begin
                   PROVE  EndsAfter(j)'
        BY <3>3
      <4>1. j # last + 1
        BY <2>1, <2>3, <3>3
      <4>2. j \in 1 .. last /\ cont[j].begin
        BY <2>3, <4>1
      <4>3. CASE was
        BY <1>1, <2>1, <2>5, <3>3, <4>2, <4>3
      <4>4. CASE ~was
        BY <2>5, <2>7, <4>2, <4>4
      <4> QED
        BY <4>3, <4>4
    <3> QED
      BY <3>1, <3>2, <3>3
  <2>9. Ring!BeginsAndEndsAlternate'
    <3>1. \A i \in 1 .. last :
            /\ ~(cont[i].begin /\ cont[i].end)
            /\ cont[i].begin => \A j \in 1 .. i - 1 :
                                  cont[j].begin => \E k \in j + 1 .. i - 1 : cont[k].end
            /\ cont[i].end => \E j \in 1 .. i - 1 :
                                cont[j].begin /\ \A k \in j + 1 .. i - 1 : ~cont[k].end
      BY <2>4 DEF FlagInv, Ring!BeginsAndEndsAlternate
    <3> SUFFICES ASSUME NEW i \in 1 .. last + 1
                 PROVE  /\ ~(cont'[i].begin /\ cont'[i].end)
                        /\ cont'[i].begin => \A j \in 1 .. i - 1 :
                             cont'[j].begin => \E k \in j + 1 .. i - 1 : cont'[k].end
                        /\ cont'[i].end => \E j \in 1 .. i - 1 :
                             cont'[j].begin /\ \A k \in j + 1 .. i - 1 : ~cont'[k].end
      BY <2>4 DEF Ring!BeginsAndEndsAlternate
    <3>2. \A k \in 1 .. i - 1 : k \in 1 .. last /\ cont'[k] = cont[k]
      BY <2>3
    <3>3. \A j \in 1 .. i - 1 : \A k \in j + 1 .. i - 1 : k \in 1 .. i - 1
      BY <2>3
    <3>4. CASE i \in 1 .. last
      <4>1. cont'[i] = cont[i]
        BY <2>3, <3>4
      <4>2. /\ ~(cont[i].begin /\ cont[i].end)
            /\ cont[i].begin => \A j \in 1 .. i - 1 :
                                  cont[j].begin => \E k \in j + 1 .. i - 1 : cont[k].end
            /\ cont[i].end => \E j \in 1 .. i - 1 :
                                cont[j].begin /\ \A k \in j + 1 .. i - 1 : ~cont[k].end
        BY <3>1, <3>4
      <4> QED
        BY <3>2, <3>3, <4>1, <4>2
    <3>5. CASE i = last + 1
      <4>1. cont'[i] = f /\ i - 1 = last
        BY <2>3, <3>5
      <4>2. \A j \in 1 .. last : EndsAfter(j) <=> \E k \in j + 1 .. i - 1 : cont[k].end
        BY <4>1 DEF EndsAfter, last
      <4>3. ~(f.begin /\ f.end)
        BY <2>1
      <4>4. ASSUME f.begin, NEW j \in 1 .. i - 1, cont'[j].begin
            PROVE  \E k \in j + 1 .. i - 1 : cont'[k].end
        <5>1. ~was
          BY <2>1, <4>4
        <5>2. EndsAfter(j)
          BY <2>3, <2>7, <4>1, <4>4, <5>1
        <5> QED
          BY <3>2, <3>3, <4>1, <4>2, <5>2
      <4>5. ASSUME f.end
            PROVE  \E j \in 1 .. i - 1 :
                     cont'[j].begin /\ \A k \in j + 1 .. i - 1 : ~cont'[k].end
        <5>1. was
          BY <2>1, <4>5
        <5>2. PICK j \in 1 .. last : cont[j].begin /\ ~EndsAfter(j)
          BY <2>7, <5>1
        <5>3. j \in 1 .. i - 1 /\ cont'[j].begin /\ \A k \in j + 1 .. i - 1 : ~cont[k].end
          BY <2>3, <4>1, <4>2, <5>2
        <5> QED
          BY <3>2, <3>3, <5>3
      <4> QED
        BY <4>1, <4>3, <4>4, <4>5
    <3> QED
      BY <2>3, <3>4, <3>5
  <2>10. Continuous => IF gen_last_on' THEN \E j \in DOMAIN cont' : cont'[j].begin /\ ~EndsAfter(j)'
                       ELSE \A j \in DOMAIN cont' : cont'[j].begin => EndsAfter(j)'
    BY <1>1, <2>4, <2>8
  <2> QED
    BY <1>3, <2>3, <2>9, <2>10 DEF FlagInv, F
<1> QED
  BY <1>2, <1>3

RecordsInv == RingInv /\ SentInv /\ FlagInv

LEMMA RingBegin ==
  ASSUME Ring!Init
  PROVE  RecordsInv
<1> DEFINE m == PreEvent + 1
<1>1. /\ PreEvent \in Nat /\ m \in Nat \ {0} /\ eventring_ring = 0 /\ records_written = 0
      /\ rings = [b \in 0 .. PreEvent |-> 0] /\ event = << >> /\ cont = << >>
      /\ triggered = {} /\ gen_next = 0 /\ ~gen_last_on /\ gen_last_on \in BOOLEAN
      /\ eventring_gen_on \in BOOLEAN /\ eventring_on \in BOOLEAN
  BY RingParameters DEF Ring!Init, Ring!EventRingAssumption, Ring!Buffers, Ring!NoRecord
<1>2. RingInv
  <2>1. ASSUME NEW i \in 1 .. PreEvent
        PROVE  (eventring_ring - i) % m \in 0 .. PreEvent
    <3>1. eventring_ring - i \in Int /\ m - 1 = PreEvent
      BY <1>1
    <3> HIDE DEF m
    <3> QED
      BY <1>1, <3>1, ModRange
  <2>2. rings[eventring_ring] = 0 /\ rings \in [0 .. PreEvent -> Nat]
    BY <1>1
  <2>3. \A i \in 1 .. PreEvent : rings[(eventring_ring - i) % m] = 0
    <3> HIDE DEF m
    <3> QED
      BY <1>1, <2>1
  <2>4. \A i \in 1 .. PreEvent : ~(records_written >= i)
    BY <1>1
  <2> QED
    BY <1>1, <2>2, <2>3, <2>4 DEF RingInv, Ring!EventRingTypeOK, Ring!Buffers, Ring!NoRecord
<1>3. SentInv
  <2>1. Ring!EventOutputIsExact
    BY <1>1 DEF Ring!EventOutputIsExact, Ring!SentAsEvent
  <2>2. Ring!SentOnceInOrder /\ Ring!RunsAreFlagged
    BY <1>1 DEF Ring!SentOnceInOrder, Ring!RunsAreFlagged
  <2> QED
    BY <1>1, <2>1, <2>2 DEF SentInv
<1>4. FlagInv
  BY <1>1 DEF FlagInv, Ring!BeginsAndEndsAlternate
<1> QED
  BY <1>2, <1>3, <1>4 DEF RecordsInv

LEMMA RingStep ==
  ASSUME RecordsInv, Ring!Next \/ UNCHANGED eventring_vars
  PROVE  RecordsInv'
<1>1. ASSUME UNCHANGED <<rings, eventring_ring, records_written, gen_last_on, gen_next,
                         triggered, event, cont>>,
             eventring_gen_on' \in BOOLEAN, eventring_on' \in BOOLEAN
      PROVE  RecordsInv'
  <2>1. RingInv'
    BY <1>1 DEF RecordsInv, RingInv, Ring!EventRingTypeOK
  <2>2. SentInv'
    <3>1. /\ Ring!SentOnceInOrder' <=> Ring!SentOnceInOrder
          /\ Ring!RunsAreFlagged' <=> Ring!RunsAreFlagged
      BY <1>1 DEF Ring!SentOnceInOrder, Ring!RunsAreFlagged
    <3>2. Ring!EventOutputIsExact' <=> Ring!EventOutputIsExact
      BY <1>1 DEF Ring!EventOutputIsExact, Ring!SentAsEvent
    <3> QED
      BY <1>1, <3>1, <3>2 DEF RecordsInv, SentInv
  <2>3. FlagInv'
    BY <1>1 DEF RecordsInv, FlagInv, EndsAfter, Ring!BeginsAndEndsAlternate
  <2> QED
    BY <2>1, <2>2, <2>3 DEF RecordsInv
<1>2. CASE Ring!Evaluate
  BY <1>1, <1>2 DEF Ring!Evaluate, RecordsInv, SentInv
<1>3. CASE \E again \in BOOLEAN : Ring!finish_record(again)
  <2>1. PICK again \in BOOLEAN : Ring!finish_record(again)
    BY <1>3
  <2>2. PICK now \in BOOLEAN : Ends(now)
    BY <2>1, RecordEnds DEF RecordsInv
  <2> QED
    BY <2>2, RingMoves, SentMoves, FlagsMove DEF RecordsInv
<1>4. CASE UNCHANGED eventring_vars
  BY <1>1, <1>4 DEF eventring_vars, RecordsInv, SentInv
<1> QED
  BY <1>2, <1>3, <1>4 DEF Ring!Next

LEMMA RingProperties ==
  ASSUME RecordsInv
  PROVE  /\ Ring!EventRingTypeOK /\ Ring!EventOutputIsExact /\ Ring!SentOnceInOrder
         /\ Ring!RunsAreFlagged /\ Ring!BeginsAndEndsAlternate
BY DEF RecordsInv, RingInv, SentInv, FlagInv

-----------------------------------------------------------------------------
(* Packets that fit the buffer, just fit it or do not. *)
VARIABLES
  tcplink_sent, net, tcpbuf, tcplink_open, looping, tcplink_processed, blamed,
  connections

Tcp == INSTANCE TcpLink WITH
  MovesOverlap <- TRUE, sent <- tcplink_sent, open <- tcplink_open,
  processed <- tcplink_processed

tcplink_vars == <<tcplink_sent, net, tcpbuf, tcplink_open, looping,
  tcplink_processed, blamed, connections>>

ASSUME TcpParameters == Tcp!TcpLinkAssumption

(* The proof of what SocketsAreExact says of the TCP stream.  What has come   *)
(* and is under way are the packets that are not processed, each behind its   *)
(* header; of a connection that was closed it may be only the first bytes.    *)

(* What is known of the sizes. *)
LEMMA TcpConstants ==
  /\ HDR \in Nat /\ HDR > 0 /\ MAXMTU \in Nat /\ MAXMTU > 0 /\ MinLth \in Nat
  /\ Lengths \subseteq Nat /\ \A l \in Lengths : l > 0
BY TcpParameters DEF Tcp!TcpLinkAssumption

(* Headers have bytes, as the lemmas on streams require. *)
LEMMA HeaderHas == Header(HDR)
BY TcpConstants DEF Header

Nth == Len(tcplink_processed) + 1

StreamInv ==
  \E T : /\ Streamed(HDR, tcplink_sent, Nth, tcpbuf, net, T)
         /\ tcplink_open => Len(tcpbuf) + Len(net) = T

Octets == Nat \X Nat

TcpType ==
  /\ tcplink_sent \in Seq(Lengths) /\ net \in Seq(Octets) /\ tcpbuf \in Seq(Octets)
  /\ tcplink_processed \in Seq(Seq(Octets)) /\ tcplink_open \in BOOLEAN
  /\ looping \in BOOLEAN /\ blamed \in BOOLEAN
  /\ Len(tcplink_processed) <= Len(tcplink_sent) /\ Len(tcpbuf) <= MAXMTU + HDR
  /\ ~tcplink_open => net = << >>

\* recv was answered, and nothing that is whole was left.
Rested ==
  ~looping /\ tcplink_open /\ Len(tcpbuf) >= HDR =>
    /\ Nth <= Len(tcplink_sent) /\ tcplink_sent[Nth] <= MAXMTU
    /\ Len(tcpbuf) < HDR + tcplink_sent[Nth]

\* What is processed and what was sent.
Processed ==
  \A i \in 1 .. Len(tcplink_processed) : tcplink_processed[i] = Tcp!Data(i)

TcpInv == TcpType /\ StreamInv /\ Rested /\ Processed /\ Tcp!BlamedRightly

LEMMA TcpFacts ==
  ASSUME TcpType
  PROVE  /\ HDR \in Nat /\ HDR > 0 /\ MAXMTU \in Nat /\ Nth \in Nat /\ Nth >= 1
         /\ Len(tcplink_sent) \in Nat /\ Nth <= Len(tcplink_sent) + 1
         /\ Len(tcpbuf) \in Nat /\ Len(net) \in Nat /\ Len(tcplink_processed) \in Nat
         /\ tcplink_sent \in Seq(Nat)
         /\ \A i \in 1 .. Len(tcplink_sent) :
              tcplink_sent[i] \in Lengths /\ tcplink_sent[i] \in Nat /\ tcplink_sent[i] > 0
<1>1. /\ Len(tcplink_sent) \in Nat /\ Len(tcpbuf) \in Nat /\ Len(net) \in Nat
      /\ Len(tcplink_processed) \in Nat
  BY DEF TcpType
<1>2. Nth \in Nat /\ Nth >= 1 /\ Nth <= Len(tcplink_sent) + 1
  BY <1>1 DEF TcpType, Nth
<1>3. \A i \in 1 .. Len(tcplink_sent) : tcplink_sent[i] \in Lengths
  BY DEF TcpType
<1>4. \A i \in 1 .. Len(tcplink_sent) : tcplink_sent[i] \in Nat /\ tcplink_sent[i] > 0
  BY <1>3, TcpConstants
<1>5. tcplink_sent \in Seq(Nat)
  <2>1. tcplink_sent \in [1 .. Len(tcplink_sent) -> Nat]
    BY <1>4 DEF TcpType
  <2> QED
    BY <1>1, <2>1
<1> QED
  BY <1>1, <1>2, <1>3, <1>4, <1>5, TcpConstants

LEMMA NothingYet ==
  /\ << >> \in Seq(Lengths) /\ << >> \in Seq(Octets) /\ << >> \in Seq(Seq(Octets))
  /\ Len(<< >>) = 0
OBVIOUS

LEMMA NoPackets == Streamed(HDR, << >>, 1, << >>, << >>, 0)
<1> DEFINE off == [p \in 1 .. 1 |-> 0]
<1>1. off \in [1 .. 1 -> Nat] /\ off[1] = 0
  OBVIOUS
<1> HIDE DEF off
<1>2. Offsets(HDR, off, << >>, 1) /\ Framed(HDR, off, << >>, 1, << >>, << >>)
  BY <1>1, NothingYet DEF Offsets, Framed
<1> QED
  BY <1>1, <1>2, NothingYet DEF Streamed

LEMMA TcpBegin == ASSUME Tcp!Init PROVE TcpInv
<1> USE DEF Tcp!Init
<1>1. TcpType
  <2>1. /\ Len(tcplink_sent) = 0 /\ Len(tcpbuf) = 0 /\ Len(tcplink_processed) = 0
        /\ Len(tcpbuf) <= MAXMTU + HDR
    BY TcpConstants
  <2>2. tcplink_open \in BOOLEAN /\ looping \in BOOLEAN /\ blamed \in BOOLEAN /\ tcplink_open
    OBVIOUS
  <2>3. Len(tcplink_processed) <= Len(tcplink_sent)
    BY <2>1
  <2>4. /\ tcplink_sent \in Seq(Lengths) /\ net \in Seq(Octets) /\ tcpbuf \in Seq(Octets)
        /\ tcplink_processed \in Seq(Seq(Octets))
    BY NothingYet
  <2> QED
    BY <2>1, <2>2, <2>3, <2>4 DEF TcpType
<1>2. Rested /\ Processed /\ Tcp!BlamedRightly
  BY TcpConstants DEF Rested, Processed, Tcp!BlamedRightly
<1>3. StreamInv
  <2>1. Nth = 1
    BY NothingYet DEF Nth
  <2> QED
    BY <2>1, NothingYet, NoPackets DEF StreamInv
<1> QED
  BY <1>1, <1>2, <1>3 DEF TcpInv

\* The packets that were sent are those of this connection.
LEMMA HeaderSays ==
  ASSUME TcpInv, Len(tcpbuf) >= HDR
  PROVE  /\ Nth <= Len(tcplink_sent) /\ Tcp!Lth = tcplink_sent[Nth]
         /\ \A i \in 1 .. HDR + tcplink_sent[Nth] : i <= Len(tcpbuf) => tcpbuf[i] = <<Nth, i>>
<1> DEFINE k == Nth  n == Len(tcplink_sent)  T == Len(tcpbuf) + Len(net)
<1>0. /\ k \in Nat /\ k >= 1 /\ n \in Nat /\ k <= n + 1 /\ HDR \in Nat /\ HDR > 0
      /\ Len(tcpbuf) \in Nat /\ Len(net) \in Nat
      /\ \A i \in 1 .. n : tcplink_sent[i] \in Nat /\ tcplink_sent[i] > 0
  BY TcpFacts DEF TcpInv
<1>1. PICK off : Offsets(HDR, off, tcplink_sent, k) /\ Framed(HDR, off, tcplink_sent, k, tcpbuf, net)
  BY DEF TcpInv, StreamInv, Streamed
<1>2. /\ off \in [k .. n + 1 -> Nat] /\ off[k] = 0 /\ T <= off[n + 1]
      /\ \A p \in k .. n : \A j \in 1 .. HDR + tcplink_sent[p] :
           off[p] + j <= T => ByteAt(tcpbuf, net, off[p] + j) = <<p, j>>
  BY <1>1 DEF Offsets, Framed
<1> HIDE DEF k, n
<1>3. k <= n
  BY <1>0, <1>2
<1>4. k \in k .. n /\ tcplink_sent[k] \in Nat /\ tcplink_sent[k] > 0
  BY <1>0, <1>3
<1>5. ASSUME NEW i \in 1 .. HDR + tcplink_sent[k], i <= Len(tcpbuf) PROVE tcpbuf[i] = <<k, i>>
  <2>1. i \in Nat /\ off[k] + i = i /\ i <= T
    BY <1>0, <1>2, <1>4, <1>5
  <2>2. ByteAt(tcpbuf, net, i) = <<k, i>>
    BY <1>2, <1>4, <2>1
  <2> QED
    BY <1>5, <2>2 DEF ByteAt
<1>6. /\ \A i \in 1 .. HDR : i \in 1 .. HDR + tcplink_sent[k] /\ i <= Len(tcpbuf)
      /\ 1 \in 1 .. HDR
  BY <1>0, <1>4
<1>7. \A i \in 1 .. HDR : tcpbuf[i] = <<k, i>>
  BY <1>5, <1>6
<1>8. tcpbuf[1][1] = k /\ k # 0
  BY <1>0, <1>6, <1>7
<1>9. Tcp!Lth = tcplink_sent[k]
  BY <1>7, <1>8 DEF Tcp!Lth
<1> QED
  BY <1>3, <1>5, <1>9 DEF k, n

\* What goes from the stream to the buffer, or is lost behind it.
LEMMA StreamStep ==
  ASSUME TcpInv, UNCHANGED <<tcplink_sent, tcplink_processed>>, First(tcpbuf, net, tcpbuf', net'),
         tcplink_open' => tcplink_open /\ Len(tcpbuf') + Len(net') = Len(tcpbuf) + Len(net)
  PROVE  StreamInv'
<1>0. Nth \in 1 .. Len(tcplink_sent) + 1 /\ tcplink_sent \in Seq(Nat)
  BY TcpFacts DEF TcpInv
<1>1. PICK T : /\ Streamed(HDR, tcplink_sent, Nth, tcpbuf, net, T)
               /\ tcplink_open => Len(tcpbuf) + Len(net) = T
  BY DEF TcpInv, StreamInv
<1>2. Nth' = Nth
  BY DEF Nth
<1>3. Streamed(HDR, tcplink_sent, Nth, tcpbuf', net', T)
  BY <1>0, <1>1, StreamGoesOn, HeaderHas
<1> QED
  BY <1>1, <1>2, <1>3 DEF StreamInv

LEMMA ReceiveStep ==
  ASSUME TcpInv, NEW m \in Nat, Tcp!Receive(m)
  PROVE  TcpInv'
<1>0. /\ HDR \in Nat /\ MAXMTU \in Nat /\ Len(tcpbuf) \in Nat /\ Len(net) \in Nat
      /\ tcpbuf \in Seq(Octets) /\ net \in Seq(Octets)
  BY TcpFacts DEF TcpInv, TcpType
<1>1. /\ tcpbuf' = tcpbuf \o SubSeq(net, 1, m) /\ net' = SubSeq(net, m + 1, Len(net))
      /\ m \in 1 .. (MAXMTU + HDR - Len(tcpbuf)) /\ m <= Len(net) /\ looping' /\ tcplink_open
      /\ UNCHANGED <<tcplink_sent, tcplink_open, tcplink_processed, blamed>>
  <2>1. m \in 1 .. (MAXMTU + HDR - Len(tcpbuf))
    <3>1. m \in 1 .. Tcp!Room
      BY DEF Tcp!Receive
    <3>2. Tcp!Room = MAXMTU + HDR - Len(tcpbuf)
      BY <1>0 DEF Tcp!Room, Tcp!TCPBUFSZ
    <3> QED
      BY <3>1, <3>2
  <2> QED
    BY <2>1 DEF Tcp!Receive
<1>2. m \in 0 .. Len(net)
  BY <1>0, <1>1
<1>3. /\ tcpbuf' \in Seq(Octets) /\ net' \in Seq(Octets) /\ Len(tcpbuf') = Len(tcpbuf) + m
      /\ Len(net') = Len(net) - m
      /\ \A i \in 1 .. Len(tcpbuf) + Len(net) : ByteAt(tcpbuf', net', i) = ByteAt(tcpbuf, net, i)
  BY <1>0, <1>1, <1>2, CutAndJoin
<1>4. TcpType'
  <2>1. Len(tcpbuf') <= MAXMTU + HDR
    BY <1>0, <1>1, <1>3
  <2> QED
    BY <1>1, <1>3, <2>1 DEF TcpInv, TcpType
<1>5. StreamInv'
  <2>1. Len(tcpbuf') + Len(net') = Len(tcpbuf) + Len(net) /\ Len(tcpbuf) + Len(net) \in Nat
    BY <1>0, <1>2, <1>3
  <2>2. Len(tcpbuf') + Len(net') <= Len(tcpbuf) + Len(net)
    BY <2>1
  <2>3. First(tcpbuf, net, tcpbuf', net')
    BY <1>3, <2>1, <2>2 DEF First
  <2> QED
    BY <1>1, <2>1, <2>3, StreamStep
<1>6. Rested' /\ Processed' /\ Tcp!BlamedRightly'
  BY <1>1 DEF TcpInv, Rested, Processed, Tcp!BlamedRightly, Tcp!Data
<1> QED
  BY <1>4, <1>5, <1>6 DEF TcpInv


\* The connection is closed, and what is under way is lost.
LEMMA ClosedStep ==
  ASSUME TcpInv, ~tcplink_open', net' = << >>, tcplink_open' \in BOOLEAN,
         looping' \in BOOLEAN, blamed' \in BOOLEAN,
         UNCHANGED <<tcpbuf, tcplink_sent, tcplink_processed>>
  PROVE  TcpType' /\ StreamInv' /\ Rested' /\ Processed'
<1>0. Len(tcpbuf) \in Nat /\ Len(net) \in Nat /\ Len(net') = 0
  BY TcpFacts DEF TcpInv
<1>1. TcpType'
  BY NothingYet DEF TcpInv, TcpType
<1>2. StreamInv'
  <2>1. Len(tcpbuf') + Len(net') = Len(tcpbuf) /\ Len(tcpbuf) <= Len(tcpbuf) + Len(net)
    BY <1>0
  <2>2. \A i \in 1 .. Len(tcpbuf) : ByteAt(tcpbuf', net', i) = ByteAt(tcpbuf, net, i)
    BY <1>0 DEF ByteAt
  <2>3. First(tcpbuf, net, tcpbuf', net')
    BY <1>0, <2>1, <2>2 DEF First
  <2> QED
    BY <2>3, StreamStep
<1>3. Rested' /\ Processed'
  BY DEF TcpInv, Rested, Processed, Tcp!Data
<1> QED
  BY <1>1, <1>2, <1>3

LEMMA Blamed ==
  ASSUME UNCHANGED tcplink_sent, Tcp!BlamedRightly, blamed' => blamed
  PROVE  Tcp!BlamedRightly'
BY DEF Tcp!BlamedRightly

LEMMA ReceiveFailsStep ==
  ASSUME TcpInv, Tcp!ReceiveFails
  PROVE  TcpInv'
<1>1. TcpType' /\ StreamInv' /\ Rested' /\ Processed'
  <2>1. looping' \in BOOLEAN
    BY DEF TcpInv, TcpType, Tcp!ReceiveFails
  <2> QED
    BY <2>1, ClosedStep DEF Tcp!ReceiveFails, Tcp!tcp_error
<1>2. Tcp!BlamedRightly'
  BY Blamed DEF TcpInv, Tcp!ReceiveFails, Tcp!tcp_error
<1> QED
  BY <1>1, <1>2 DEF TcpInv

LEMMA InvalidHeaderStep ==
  ASSUME TcpInv, Tcp!InvalidHeader
  PROVE  TcpInv'
<1>1. TcpType' /\ StreamInv' /\ Rested' /\ Processed'
  BY ClosedStep DEF Tcp!InvalidHeader, Tcp!tcp_error
<1>2. tcplink_sent' = tcplink_sent /\ Nth <= Len(tcplink_sent) /\ tcplink_sent[Nth] \notin Tcp!Good
  <2>1. Nth <= Len(tcplink_sent) /\ Tcp!Lth = tcplink_sent[Nth]
    BY HeaderSays DEF Tcp!InvalidHeader, Tcp!Headed
  <2> QED
    BY <2>1 DEF Tcp!InvalidHeader, Tcp!Valid, Tcp!Good
<1>3. Nth \in 1 .. Len(tcplink_sent)
  BY <1>2, TcpFacts DEF TcpInv
<1>4. Tcp!BlamedRightly'
  BY <1>2, <1>3 DEF Tcp!BlamedRightly, Tcp!Good
<1> QED
  BY <1>1, <1>4 DEF TcpInv

LEMMA NotEnoughStep ==
  ASSUME TcpInv, Tcp!NotEnough
  PROVE  TcpInv'
<1>1. /\ UNCHANGED <<tcplink_sent, net, tcpbuf, tcplink_open, tcplink_processed, blamed>>
      /\ ~looping' /\ looping' \in BOOLEAN /\ (Tcp!Headed => Tcp!Valid /\ ~Tcp!Complete)
  BY DEF Tcp!NotEnough
<1>2. TcpType' /\ StreamInv' /\ Processed' /\ Tcp!BlamedRightly'
  <2>1. TcpType'
    BY <1>1 DEF TcpInv, TcpType
  <2>2. Nth' = Nth
    BY <1>1 DEF Nth
  <2>3. StreamInv'
    BY <1>1, <2>2 DEF TcpInv, StreamInv
  <2>4. Processed' /\ Tcp!BlamedRightly'
    BY <1>1, Blamed DEF TcpInv, Processed, Tcp!Data
  <2> QED
    BY <2>1, <2>3, <2>4
<1>3. Rested'
  <2> SUFFICES ASSUME Len(tcpbuf) >= HDR
               PROVE  /\ Nth <= Len(tcplink_sent) /\ tcplink_sent[Nth] <= MAXMTU
                      /\ Len(tcpbuf) < HDR + tcplink_sent[Nth]
    BY <1>1 DEF Rested, Nth
  <2>1. Nth <= Len(tcplink_sent) /\ Tcp!Lth = tcplink_sent[Nth]
    BY HeaderSays
  <2>2. tcplink_sent[Nth] <= MAXMTU /\ ~(Len(tcpbuf) >= tcplink_sent[Nth] + HDR)
    BY <1>1, <2>1 DEF Tcp!Headed, Tcp!Valid, Tcp!Complete
  <2>3. /\ Nth \in 1 .. Len(tcplink_sent) /\ tcplink_sent[Nth] \in Nat
        /\ HDR \in Nat /\ Len(tcpbuf) \in Nat
    BY <2>1, TcpFacts DEF TcpInv
  <2>4. Len(tcpbuf) < HDR + tcplink_sent[Nth]
    BY <2>2, <2>3
  <2> QED
    BY <2>1, <2>2, <2>4
<1> QED
  BY <1>2, <1>3 DEF TcpInv

LEMMA ReconnectStep ==
  ASSUME TcpInv, Tcp!Reconnect
  PROVE  TcpInv'
<1>1. /\ tcplink_sent' = << >> /\ tcplink_processed' = << >> /\ tcpbuf' = << >> /\ net' = << >>
      /\ ~blamed' /\ blamed' \in BOOLEAN /\ tcplink_open' /\ tcplink_open' \in BOOLEAN
      /\ looping' \in BOOLEAN
  BY DEF TcpInv, TcpType, Tcp!Reconnect, Tcp!Left
<1>2. Len(tcplink_sent') = 0 /\ Len(tcpbuf') = 0 /\ Len(net') = 0 /\ Len(tcplink_processed') = 0
  BY <1>1
<1>3. TcpType'
  BY <1>1, <1>2, TcpConstants, NothingYet DEF TcpType
<1>4. StreamInv'
  <2>1. Nth' = 1
    BY <1>2 DEF Nth
  <2> QED
    BY <1>1, <2>1, NothingYet, NoPackets DEF StreamInv
<1>5. Rested' /\ Processed' /\ Tcp!BlamedRightly'
  BY <1>1, <1>2, TcpConstants DEF Rested, Processed, Tcp!BlamedRightly
<1> QED
  BY <1>3, <1>4, <1>5 DEF TcpInv

LEMMA SendStep ==
  ASSUME TcpInv, NEW l \in Lengths, Tcp!Send(l)
  PROVE  TcpInv'
<1> DEFINE s == tcplink_sent  n == Len(s)  T == Len(tcpbuf) + Len(net)  new == Tcp!Bytes(n + 1, l)
<1>0. /\ n \in Nat /\ Len(tcpbuf) \in Nat /\ Len(net) \in Nat /\ Nth \in 1 .. n + 1
      /\ s \in Seq(Nat)
      /\ HDR \in Nat /\ HDR > 0 /\ l \in Nat /\ net \in Seq(Octets) /\ s \in Seq(Lengths)
  BY TcpFacts, TcpConstants DEF TcpInv, TcpType
<1>1. /\ tcplink_open /\ s' = Append(s, l) /\ net' = net \o new
      /\ UNCHANGED <<tcpbuf, tcplink_open, looping, tcplink_processed, blamed>>
  BY DEF Tcp!Send
<1>2. /\ new \in Seq(Octets) /\ Len(new) = HDR + l /\ \A j \in 1 .. HDR + l : new[j] = <<n + 1, j>>
  <2>1. new = [j \in 1 .. HDR + l |-> <<n + 1, j>>] /\ HDR + l \in Nat
    BY <1>0 DEF Tcp!Bytes
  <2>2. \A j \in 1 .. HDR + l : <<n + 1, j>> \in Octets
    BY <1>0 DEF Octets
  <2> HIDE DEF new
  <2> QED
    BY <2>1, <2>2
<1> HIDE DEF new, n
<1>3. /\ s' \in Seq(Lengths) /\ Len(s') = n + 1 /\ \A i \in 1 .. n : s'[i] = s[i]
  BY <1>0, <1>1 DEF n
<1>4. /\ net' \in Seq(Octets) /\ Len(net') = Len(net) + HDR + l
      /\ \A i \in 1 .. Len(net) : net'[i] = net[i]
      /\ \A j \in 1 .. HDR + l : net'[Len(net) + j] = new[j]
  <2>1. net' \in Seq(Octets) /\ Len(net') = Len(net) + Len(new)
    BY <1>0, <1>1, <1>2, ConcatProperties
  <2>2. ASSUME NEW i \in 1 .. Len(net) PROVE net'[i] = net[i]
    <3>1. i \in 1 .. Len(net) + Len(new) /\ i <= Len(net)
      BY <1>0, <1>2
    <3> QED
      BY <1>0, <1>1, <1>2, <3>1
  <2>3. ASSUME NEW j \in 1 .. Len(new) PROVE net'[Len(net) + j] = new[j]
    <3> DEFINE i == Len(net) + j
    <3>1. /\ i \in 1 .. Len(net) + Len(new) /\ ~(i <= Len(net)) /\ i - Len(net) = j
      BY <1>0, <1>2
    <3> HIDE DEF i
    <3>2. net'[i] = new[i - Len(net)]
      BY <1>0, <1>1, <1>2, <3>1
    <3> QED
      BY <3>1, <3>2 DEF i
  <2> QED
    BY <1>0, <1>2, <2>1, <2>2, <2>3
<1>5. TcpType'
  <2>1. Len(tcplink_processed') <= Len(s')
    BY <1>0, <1>1, <1>3 DEF TcpInv, TcpType, n
  <2> QED
    BY <1>1, <1>3, <1>4, <2>1 DEF TcpInv, TcpType
<1>6. StreamInv'
  <2>1. Streamed(HDR, s, Nth, tcpbuf, net, Len(tcpbuf) + Len(net))
    BY <1>1 DEF TcpInv, StreamInv
  <2>2. \A i \in 1 .. T : ByteAt(tcpbuf, net', i) = ByteAt(tcpbuf, net, i)
    <3> SUFFICES ASSUME NEW i \in 1 .. T, ~(i <= Len(tcpbuf))
                 PROVE  net'[i - Len(tcpbuf)] = net[i - Len(tcpbuf)]
      BY DEF ByteAt
    <3>1. i - Len(tcpbuf) \in 1 .. Len(net)
      BY <1>0
    <3> QED
      BY <1>4, <3>1
  <2>3. \A j \in 1 .. HDR + l : ByteAt(tcpbuf, net', T + j) = <<n + 1, j>>
    <3> SUFFICES ASSUME NEW j \in 1 .. HDR + l PROVE ByteAt(tcpbuf, net', T + j) = <<n + 1, j>>
      OBVIOUS
    <3>1. ~(T + j <= Len(tcpbuf)) /\ (T + j) - Len(tcpbuf) = Len(net) + j
      BY <1>0
    <3> QED
      BY <1>2, <1>4, <3>1 DEF ByteAt
  <2>4. T \in Nat /\ Len(tcpbuf) + Len(net') \in Nat /\ Len(tcpbuf) + Len(net') = T + HDR + l
    BY <1>0, <1>4
  <2>5. Streamed(HDR, s', Nth, tcpbuf, net', Len(tcpbuf) + Len(net'))
    <3>1. Nth \in 1 .. Len(s) + 1 /\ l \in Nat /\ s \in Seq(Nat)
      BY <1>0 DEF n
    <3>2. Behind(HDR, Len(s) + 1, l, tcpbuf, net, net')
      BY <2>2, <2>3, <2>4 DEF Behind, n
    <3> HIDE DEF T
    <3> QED
      BY <1>1, <2>1, <3>1, <3>2, PacketComes, HeaderHas
  <2>6. Nth' = Nth
    BY <1>1 DEF Nth
  <2> QED
    BY <1>1, <2>5, <2>6 DEF StreamInv
<1>7. Rested' /\ Processed' /\ Tcp!BlamedRightly'
  <2>1. n <= n + 1 /\ \A i \in 1 .. n : i \in 1 .. n + 1
    BY <1>0
  <2>2. Rested'
    <3> SUFFICES ASSUME ~looping, Len(tcpbuf) >= HDR
                 PROVE  Nth <= Len(s') /\ s'[Nth] <= MAXMTU /\ Len(tcpbuf) < HDR + s'[Nth]
      BY <1>1 DEF Rested, Nth
    <3>1. Nth <= n /\ s[Nth] <= MAXMTU /\ Len(tcpbuf) < HDR + s[Nth]
      BY <1>1 DEF TcpInv, Rested, n
    <3>2. Nth \in 1 .. n /\ Nth <= n + 1
      BY <1>0, <3>1
    <3> QED
      BY <1>3, <3>1, <3>2
  <2>3. Processed'
    <3> SUFFICES ASSUME NEW i \in 1 .. Len(tcplink_processed)
                 PROVE  tcplink_processed[i] = Tcp!Data(i)'
      BY <1>1 DEF Processed
    <3>1. i \in 1 .. n
      BY <1>0 DEF TcpInv, TcpType, n
    <3>2. s'[i] = s[i]
      BY <1>3, <3>1
    <3> QED
      BY <3>2 DEF TcpInv, Processed, Tcp!Data
  <2>4. Tcp!BlamedRightly'
    BY <1>1, <1>3, <2>1 DEF TcpInv, Tcp!BlamedRightly, Tcp!Good, n
  <2> QED
    BY <2>2, <2>3, <2>4
<1> QED
  BY <1>5, <1>6, <1>7 DEF TcpInv

LEMMA ProcessStep ==
  ASSUME TcpInv, Tcp!Process
  PROVE  TcpInv'
<1> DEFINE s == tcplink_sent  n == Len(s)  k == Nth  u == HDR + s[k]
           taken == SubSeq(tcpbuf, HDR + 1, u)
<1>0. /\ Len(tcpbuf) >= HDR /\ Len(tcpbuf) \in Nat /\ Len(net) \in Nat /\ n \in Nat /\ k \in Nat
      /\ k >= 1 /\ k <= n + 1 /\ s \in Seq(Nat) /\ HDR \in Nat /\ HDR > 0
      /\ Len(tcplink_processed) \in Nat
      /\ tcpbuf \in Seq(Octets) /\ net \in Seq(Octets) /\ tcplink_processed \in Seq(Seq(Octets))
      /\ k = Len(tcplink_processed) + 1 /\ MAXMTU \in Nat
  BY TcpFacts DEF TcpInv, TcpType, Tcp!Process, Tcp!Headed, Nth
<1>1. /\ k <= n /\ Tcp!Lth = s[k]
      /\ \A i \in 1 .. u : i <= Len(tcpbuf) => tcpbuf[i] = <<k, i>>
  BY <1>0, HeaderSays
<1>2. k \in 1 .. n /\ s[k] \in Nat /\ u \in Nat
  BY <1>0, <1>1, TcpFacts DEF TcpInv
<1>3. u <= Len(tcpbuf) /\ Tcp!Used = u
  BY <1>0, <1>1, <1>2 DEF Tcp!Process, Tcp!Complete, Tcp!Used
<1>4. /\ tcplink_processed' = Append(tcplink_processed, taken)
      /\ tcpbuf' = SubSeq(tcpbuf, u + 1, Len(tcpbuf))
      /\ UNCHANGED <<tcplink_sent, looping>> /\ looping
  <2>1. Tcp!Moved(Tcp!Rest) = Tcp!Rest
    BY DEF Tcp!Moved
  <2> QED
    BY <1>1, <1>3, <2>1 DEF Tcp!Process, Tcp!Rest
<1>5. \/ UNCHANGED <<tcplink_open, net, blamed>>
      \/ /\ ~tcplink_open' /\ tcplink_open' \in BOOLEAN /\ net' = << >>
         /\ ~blamed' /\ blamed' \in BOOLEAN
  BY DEF Tcp!Process, Tcp!tcp_error
<1>6. /\ tcpbuf' \in Seq(Octets) /\ Len(tcpbuf') = Len(tcpbuf) - u
      /\ \A i \in 1 .. Len(tcpbuf) - u : tcpbuf'[i] = tcpbuf[u + i]
  <2>1. u \in 0 .. Len(tcpbuf)
    BY <1>0, <1>2, <1>3
  <2> HIDE DEF u
  <2> QED
    BY <1>0, <1>4, <2>1, Dropped
<1>7. /\ taken \in Seq(Octets) /\ taken = Tcp!Data(k)
  <2> DEFINE meant == SubSeq(Tcp!Bytes(k, s[k]), HDR + 1, u)
  <2>1. \A i \in HDR + 1 .. u : i \in 1 .. u /\ i <= Len(tcpbuf)
    BY <1>0, <1>2, <1>3
  <2>2. \A i \in HDR + 1 .. u : tcpbuf[i] = <<k, i>> /\ <<k, i>> \in Octets
    <3> SUFFICES ASSUME NEW i \in HDR + 1 .. u PROVE tcpbuf[i] = <<k, i>> /\ <<k, i>> \in Octets
      OBVIOUS
    <3>1. i \in Nat
      BY <1>0, <1>2
    <3> QED
      BY <1>0, <1>1, <2>1, <3>1 DEF Octets
  <2>3. /\ taken \in Seq(Octets) /\ Len(taken) = IF HDR + 1 <= u THEN u - (HDR + 1) + 1 ELSE 0
        /\ \A i \in 1 .. u - (HDR + 1) + 1 : taken[i] = tcpbuf[HDR + 1 + i - 1]
    <3>1. HDR + 1 \in Int /\ u \in Int /\ \A i \in HDR + 1 .. u : tcpbuf[i] \in Octets
      <4>1. HDR + 1 \in Int /\ u \in Int
        BY <1>0, <1>2
      <4> HIDE DEF u
      <4> QED
        BY <2>2, <4>1
    <3> HIDE DEF u
    <3> QED
      BY <3>1, SubSeqProperties
  <2>4. \A i \in HDR + 1 .. u : Tcp!Bytes(k, s[k])[i] = <<k, i>>
    BY <2>1 DEF Tcp!Bytes
  <2>5. /\ meant \in Seq(Octets) /\ Len(meant) = IF HDR + 1 <= u THEN u - (HDR + 1) + 1 ELSE 0
        /\ \A i \in 1 .. u - (HDR + 1) + 1 : meant[i] = Tcp!Bytes(k, s[k])[HDR + 1 + i - 1]
    <3>1. HDR + 1 \in Int /\ u \in Int /\ \A i \in HDR + 1 .. u : Tcp!Bytes(k, s[k])[i] \in Octets
      <4>1. HDR + 1 \in Int /\ u \in Int
        BY <1>0, <1>2
      <4> HIDE DEF u
      <4> QED
        BY <2>2, <2>4, <4>1
    <3> HIDE DEF u
    <3> QED
      BY <3>1, SubSeqProperties
  <2>6. Tcp!Data(k) = meant
    BY DEF Tcp!Data
  <2> HIDE DEF taken, meant, u
  <2>7. \A i \in 1 .. u - (HDR + 1) + 1 : HDR + 1 + i - 1 \in HDR + 1 .. u
    BY <1>0, <1>2
  <2>8. Len(taken) = Len(meant) /\ \A i \in 1 .. Len(taken) : taken[i] = meant[i]
    <3>1. \A i \in 1 .. Len(taken) : i \in 1 .. u - (HDR + 1) + 1
      BY <1>0, <1>2, <2>3
    <3>2. \A i \in 1 .. u - (HDR + 1) + 1 : taken[i] = meant[i]
      <4>1. \A i \in HDR + 1 .. u : tcpbuf[i] = Tcp!Bytes(k, s[k])[i]
        BY <2>2, <2>4
      <4> QED
        BY <2>3, <2>5, <2>7, <4>1
    <3> QED
      BY <2>3, <2>5, <3>1, <3>2
  <2> QED
    BY <2>3, <2>5, <2>6, <2>8, SeqEqual
<1> HIDE DEF taken, u, n
<1>8. /\ tcplink_processed' \in Seq(Seq(Octets)) /\ Len(tcplink_processed') = k
      /\ \A i \in 1 .. Len(tcplink_processed) : tcplink_processed'[i] = tcplink_processed[i]
      /\ tcplink_processed'[k] = taken
  BY <1>0, <1>4, <1>7
<1>9. Len(net') \in Nat /\ Len(net') <= Len(net)
  BY <1>0, <1>5, NothingYet
<1>10. TcpType'
  <2>1. Len(tcplink_processed') <= Len(tcplink_sent') /\ Len(tcpbuf') <= MAXMTU + HDR
    <3>1. Len(tcpbuf) <= MAXMTU + HDR
      BY DEF TcpInv, TcpType
    <3> QED
      BY SMTT(20), <1>0, <1>1, <1>2, <1>4, <1>6, <1>8, <3>1 DEF n
  <2>2. /\ net' \in Seq(Octets) /\ tcplink_open' \in BOOLEAN /\ blamed' \in BOOLEAN
        /\ ~tcplink_open' => net' = << >>
    BY <1>5, NothingYet DEF TcpInv, TcpType
  <2> QED
    BY <1>4, <1>6, <1>8, <2>1, <2>2 DEF TcpInv, TcpType
<1>11. StreamInv'
  <2>1. PICK T : /\ Streamed(HDR, s, k, tcpbuf, net, T)
                 /\ tcplink_open => Len(tcpbuf) + Len(net) = T
    BY DEF TcpInv, StreamInv
  <2>2. /\ Len(tcpbuf) + Len(net) \in Nat /\ Len(tcpbuf') + Len(net') \in Nat
        /\ Len(tcpbuf') + Len(net') + u <= Len(tcpbuf) + Len(net)
    <3>1. Len(tcpbuf') \in Nat /\ Len(tcpbuf') + u = Len(tcpbuf)
      <4> HIDE DEF u
      <4> QED
        BY <1>0, <1>2, <1>3, <1>6
    <3> HIDE DEF u
    <3> QED
      BY <1>0, <1>2, <1>9, <3>1
  <2>3. ASSUME NEW i \in 1 .. Len(tcpbuf') + Len(net')
        PROVE  ByteAt(tcpbuf', net', i) = ByteAt(tcpbuf, net, i + u)
    <3>1. i + u = u + i /\ i \in Nat /\ i >= 1
      BY <1>0, <1>2, <2>2
    <3>2. CASE i <= Len(tcpbuf) - u
      <4>1. i \in 1 .. Len(tcpbuf) - u /\ i <= Len(tcpbuf') /\ u + i <= Len(tcpbuf)
        BY <1>0, <1>2, <1>6, <3>1, <3>2
      <4> QED
        BY <1>6, <3>1, <4>1 DEF ByteAt
    <3>3. CASE ~(i <= Len(tcpbuf) - u)
      <4>1. /\ ~(i <= Len(tcpbuf')) /\ ~(u + i <= Len(tcpbuf))
            /\ i - Len(tcpbuf') = (u + i) - Len(tcpbuf)
        BY <1>0, <1>2, <1>6, <3>1, <3>3
      <4>2. net' = net
        <5> SUFFICES ASSUME net' = << >> PROVE FALSE
          BY <1>5
        <5>1. Len(net') = 0
          BY NothingYet
        <5> QED
          BY <1>0, <1>2, <1>6, <3>1, <3>3, <5>1
      <4> QED
        BY <3>1, <4>1, <4>2 DEF ByteAt
    <3> QED
      BY <3>2, <3>3
  <2>4. Streamed(HDR, s, k + 1, tcpbuf', net', T - u)
    <3>1. k \in 1 .. Len(s) /\ s \in Seq(Nat) /\ u = HDR + s[k]
      BY <1>0, <1>2 DEF n, u
    <3>2. Ahead(u, tcpbuf, net, tcpbuf', net')
      BY <2>2, <2>3 DEF Ahead
    <3> HIDE DEF s, k
    <3> QED
      BY <2>1, <3>1, <3>2, PacketGoes, HeaderHas
  <2>5. Nth' = k + 1
    BY <1>8 DEF Nth
  <2>6. ASSUME tcplink_open' PROVE Len(tcpbuf') + Len(net') = T - u
    <3>1. tcplink_open /\ net' = net
      BY <1>5, <2>6
    <3>2. T = Len(tcpbuf) + Len(net) /\ Len(tcpbuf') = Len(tcpbuf) - u /\ u \in Nat
      BY <1>2, <1>6, <2>1, <3>1
    <3> QED
      BY <1>0, <3>1, <3>2
  <2> QED
    BY <1>4, <2>4, <2>5, <2>6 DEF StreamInv
<1>12. Processed'
  <2> SUFFICES ASSUME NEW i \in 1 .. k PROVE tcplink_processed'[i] = Tcp!Data(i)
    BY <1>4, <1>8 DEF Processed, Tcp!Data
  <2>1. CASE i = k
    BY <1>7, <1>8, <2>1
  <2>2. CASE i \in 1 .. Len(tcplink_processed)
    BY <1>8, <2>2 DEF TcpInv, Processed
  <2> QED
    BY <1>0, <2>1, <2>2
<1>13. Rested' /\ Tcp!BlamedRightly'
  BY <1>4, <1>5, Blamed DEF TcpInv, Rested
<1> QED
  BY <1>10, <1>11, <1>12, <1>13 DEF TcpInv

LEMMA TcpStep ==
  ASSUME TcpInv, [Tcp!Next]_tcplink_vars
  PROVE  TcpInv'
<1>1. CASE UNCHANGED tcplink_vars
  <2>1. /\ UNCHANGED <<tcplink_sent, net, tcpbuf, tcplink_open, tcplink_processed, blamed, looping>>
        /\ Nth' = Nth
    BY <1>1 DEF tcplink_vars, Nth
  <2> QED
    BY <2>1 DEF TcpInv, TcpType, StreamInv, Rested, Processed, Tcp!Data, Tcp!BlamedRightly
<1>2. CASE \E l \in Lengths : Tcp!Send(l)
  BY <1>2, SendStep
<1>3. CASE \E m \in 1 .. Tcp!TCPBUFSZ : Tcp!Receive(m)
  <2>1. PICK m \in 1 .. Tcp!TCPBUFSZ : Tcp!Receive(m)
    BY <1>3
  <2>2. m \in Nat
    BY <2>1, TcpConstants DEF Tcp!TCPBUFSZ
  <2> QED
    BY <2>1, <2>2, ReceiveStep
<1> QED
  BY <1>1, <1>2, <1>3, ReceiveFailsStep, ProcessStep, InvalidHeaderStep, NotEnoughStep,
     ReconnectStep DEF Tcp!Next

LEMMA TcpProperties ==
  ASSUME TcpInv
  PROVE  /\ Tcp!ProcessedInOrder /\ Tcp!BlamedRightly /\ Tcp!NeverFull
         /\ Tcp!NothingIsHeld
<1> DEFINE s == tcplink_sent  n == Len(s)  k == Nth
<1>0. /\ Len(tcpbuf) \in Nat /\ Len(net) \in Nat /\ n \in Nat /\ k \in Nat /\ k >= 1 /\ k <= n + 1
      /\ HDR \in Nat /\ HDR > 0 /\ MAXMTU \in Nat /\ MAXMTU > 0 /\ Len(tcplink_processed) \in Nat
      /\ \A i \in 1 .. n : s[i] \in Nat /\ s[i] > 0
  BY TcpFacts, TcpConstants DEF TcpInv
<1>1. Tcp!ProcessedInOrder
  BY DEF TcpInv, TcpType, Processed, Tcp!ProcessedInOrder
<1>2. Tcp!NeverFull
  <2> SUFFICES ASSUME ~looping, tcplink_open PROVE MAXMTU + HDR - Len(tcpbuf) > 0
    BY <1>0 DEF Tcp!NeverFull, Tcp!Room, Tcp!TCPBUFSZ
  <2>1. CASE Len(tcpbuf) < HDR
    BY <1>0, <2>1
  <2>2. CASE Len(tcpbuf) >= HDR
    <3>1. k <= n /\ s[k] <= MAXMTU /\ Len(tcpbuf) < HDR + s[k]
      BY <2>2 DEF TcpInv, Rested
    <3>2. s[k] \in Nat
      BY <1>0, <3>1
    <3> QED
      BY <1>0, <3>1, <3>2
  <2> QED
    BY <1>0, <2>1, <2>2
<1>3. Tcp!NothingIsHeld
  <2> SUFFICES ASSUME tcplink_open, ~looping, net = << >>, k <= n PROVE FALSE
    BY <1>0 DEF Tcp!NothingIsHeld, Nth
  <2>1. PICK off : Offsets(HDR, off, s, k) /\ Len(tcpbuf) + Len(net) = off[n + 1]
    BY DEF TcpInv, StreamInv, Streamed
  <2>2. /\ off \in [k .. n + 1 -> Nat] /\ off[k] = 0
        /\ \A p \in k .. n : off[p + 1] = off[p] + HDR + s[p]
        /\ \A p, q \in k .. n + 1 : p <= q => off[p] <= off[q]
    BY <2>1 DEF Offsets
  <2> HIDE DEF n, k
  <2>3. k \in k .. n /\ k + 1 \in k .. n + 1 /\ n + 1 \in k .. n + 1 /\ k + 1 <= n + 1
    BY <1>0
  <2>4. s[k] \in Nat /\ off[k + 1] = HDR + s[k] /\ off[k + 1] <= off[n + 1]
    BY <1>0, <2>2, <2>3
  <2>5. Len(net) = 0
    BY NothingYet
  <2>6. Len(tcpbuf) >= HDR + s[k] /\ Len(tcpbuf) >= HDR
    BY <1>0, <2>1, <2>4, <2>5
  <2>7. Len(tcpbuf) < HDR + s[k]
    BY <2>6 DEF TcpInv, Rested, k
  <2> QED
    BY <1>0, <2>4, <2>6, <2>7
<1> QED
  BY <1>1, <1>2, <1>3 DEF TcpInv

-----------------------------------------------------------------------------
(* With a baler that answers for the Q330. *)
VARIABLES
  io, sockets_open, libstate, target_state, host_mode, q330id_address, asked

Links == INSTANCE Sockets WITH open <- sockets_open

sockets_vars == <<io, sockets_open, libstate, target_state, host_mode,
  q330id_address, asked>>

ASSUME SocketsParameters == Links!SocketsAssumption

(* The proof of SocketsAreExact.  A link is what the functions of q330io.c  *)
(* make of the fields and of the descriptors; it fits when the fields name  *)
(* what is open, each once.                                                 *)

IoFields ==
  [usesock : BOOLEAN, tcp : BOOLEAN, balesim : BOOLEAN, got_connected : BOOLEAN,
   cpath : Nat, dpath : Nat, comid : Nat]

LinkFits(k) ==
  /\ k.d \in IoFields /\ k.fds = Links!Descriptors(k.d)
  /\ k.d.cpath # Links!None => k.d.cpath \notin {k.d.dpath, k.d.comid}
  /\ k.d.dpath # Links!None => k.d.dpath # k.d.comid

\* A link over UDP to a Q330 that is no baler has both sockets.
HasData(d) ==
  d.usesock /\ ~d.tcp /\ ~d.balesim /\ d.cpath # Links!None => d.dpath # Links!None

\* What the states say of the link.
SocketsInv ==
  /\ LinkFits(Links!Link(io, sockets_open))
  /\ libstate = "CONN" => io.tcp /\ io.cpath # Links!None
  /\ libstate = "ANNC" => io.balesim
  /\ libstate \in {"REG", "RUN"} => HasData(io)

LEMMA CloseFits ==
  ASSUME NEW k, LinkFits(k)
  PROVE  LET c == Links!close_sockets(k)
         IN  /\ LinkFits(c)
             /\ k.d.usesock => c.d.cpath = Links!None /\ c.d.dpath = Links!None
             /\ c.d.usesock = k.d.usesock /\ c.d.tcp = k.d.tcp /\ c.d.balesim = k.d.balesim
<1> DEFINE c == Links!close_sockets(k)
<1> USE DEF LinkFits, IoFields, Links!close_sockets, Links!Link, Links!None
<1>1. CASE k.d.usesock
  <2>1. /\ c.d = [k.d EXCEPT !.cpath = 0, !.dpath = 0]
        /\ c.fds = k.fds \ {k.d.cpath, k.d.dpath}
    BY <1>1
  <2>2. c.fds = Links!Descriptors(c.d)
    BY <2>1 DEF Links!Descriptors
  <2> HIDE DEF c
  <2>3. /\ c.d.usesock = k.d.usesock /\ c.d.tcp = k.d.tcp /\ c.d.balesim = k.d.balesim
        /\ c.d.cpath = 0 /\ c.d.dpath = 0 /\ c.d \in IoFields
    <3> DEFINE d == [k.d EXCEPT !.cpath = 0, !.dpath = 0]
    <3>1. /\ d.usesock = k.d.usesock /\ d.tcp = k.d.tcp /\ d.balesim = k.d.balesim
          /\ d.cpath = 0 /\ d.dpath = 0 /\ d \in IoFields
      <4>1. k.d \in IoFields
        OBVIOUS
      <4>2. d.usesock = k.d.usesock
        BY <4>1
      <4>3. d.tcp = k.d.tcp /\ d.balesim = k.d.balesim
        BY <4>1
      <4>4. d.cpath = 0 /\ d.dpath = 0
        BY <4>1
      <4>5. d \in IoFields
        <5> DEFINE e == [k.d EXCEPT !.cpath = 0]
        <5>1. e \in IoFields
          BY <4>1
        <5>2. d = [e EXCEPT !.dpath = 0]
          OBVIOUS
        <5> HIDE DEF e, d
        <5> QED
          BY <5>1, <5>2
      <4> QED
        BY <4>2, <4>3, <4>4, <4>5
    <3>2. c.d = d
      BY <2>1
    <3> HIDE DEF d
    <3> QED
      BY <3>1, <3>2
  <2> QED
    BY <1>1, <2>2, <2>3 DEF c
<1>2. CASE ~k.d.usesock
  <2>1. c.d = [k.d EXCEPT !.comid = 0] /\ c.fds = k.fds \ {k.d.comid}
    BY <1>2
  <2>2. c.fds = Links!Descriptors(c.d)
    BY <2>1 DEF Links!Descriptors
  <2> QED
    BY <1>2, <2>1, <2>2
<1> QED
  BY <1>1, <1>2

(* A descriptor that was free is in no field yet, so it may go to an empty  *)
(* one.                                                                     *)
LEMMA CpathFits ==
  ASSUME NEW k, LinkFits(k), k.d.cpath = Links!None, NEW c \in Links!WithCpath(k)
  PROVE  LinkFits(c) /\ c.d.cpath # Links!None /\ c.d = [k.d EXCEPT !.cpath = c.d.cpath]
BY DEF LinkFits, IoFields, Links!WithCpath, Links!Lowest, Links!Link, Links!Descriptors,
   Links!None

LEMMA DpathFits ==
  ASSUME NEW k, LinkFits(k), k.d.dpath = Links!None, NEW c \in Links!WithDpath(k)
  PROVE  LinkFits(c) /\ c.d.dpath # Links!None /\ c.d = [k.d EXCEPT !.dpath = c.d.dpath]
BY DEF LinkFits, IoFields, Links!WithDpath, Links!Lowest, Links!Link, Links!Descriptors,
   Links!None

LEMMA ComidFits ==
  ASSUME NEW k, LinkFits(k), k.d.comid = Links!None, NEW c \in Links!WithComid(k)
  PROVE  LinkFits(c) /\ c.d = [k.d EXCEPT !.comid = c.d.comid]
BY DEF LinkFits, IoFields, Links!WithComid, Links!Lowest, Links!Link, Links!Descriptors,
   Links!None

LEMMA MarkFits ==
  ASSUME NEW k, LinkFits(k), NEW yes \in BOOLEAN
  PROVE  LET c == Links!GotConnected(k, yes)
         IN  /\ LinkFits(c) /\ c.d.got_connected = yes
             /\ c.d.usesock = k.d.usesock /\ c.d.tcp = k.d.tcp /\ c.d.balesim = k.d.balesim
             /\ c.d.cpath = k.d.cpath /\ c.d.dpath = k.d.dpath /\ c.d.comid = k.d.comid
<1> DEFINE c == Links!GotConnected(k, yes)
           d == [k.d EXCEPT !.got_connected = yes]
<1>1. c.d = d /\ c.fds = k.fds
  BY DEF Links!GotConnected, Links!Link
<1>2. /\ d \in IoFields /\ d.got_connected = yes
      /\ d.usesock = k.d.usesock /\ d.tcp = k.d.tcp /\ d.balesim = k.d.balesim
      /\ d.cpath = k.d.cpath /\ d.dpath = k.d.dpath /\ d.comid = k.d.comid
  BY DEF LinkFits, IoFields
<1> HIDE DEF c, d
<1> QED
  BY <1>1, <1>2 DEF LinkFits, Links!Descriptors, c

LEMMA ResolvedFits ==
  ASSUME NEW k, LinkFits(k), NEW fromback \in BOOLEAN
  PROVE  LET c == Links!Resolved(k, fromback)
         IN  /\ LinkFits(c) /\ c.d.got_connected = k.d.got_connected
             /\ c.d.cpath = k.d.cpath /\ c.d.dpath = k.d.dpath /\ c.d.comid = k.d.comid
             /\ c.d.balesim = IF fromback THEN k.d.balesim ELSE q330id_address = "baler"
<1> DEFINE c == Links!Resolved(k, fromback)
           sim == q330id_address = "baler"
           tcp == k.d.tcp /\ q330id_address # "baler"
           e == [k.d EXCEPT !.balesim = sim]
           d == [e EXCEPT !.tcp = tcp]
<1>1. CASE fromback
  BY <1>1 DEF Links!Resolved
<1>2. CASE ~fromback
  <2>1. sim \in BOOLEAN /\ tcp \in BOOLEAN
    OBVIOUS
  <2> HIDE DEF sim, tcp
  <2>2. /\ e \in IoFields /\ e.got_connected = k.d.got_connected /\ e.balesim = sim
        /\ e.cpath = k.d.cpath /\ e.dpath = k.d.dpath /\ e.comid = k.d.comid
    BY <2>1 DEF LinkFits, IoFields
  <2>3. c.fds = k.fds /\ c.d = d
    BY <1>2 DEF Links!Resolved, Links!Link, sim, tcp
  <2> HIDE DEF c, e
  <2>4. /\ d \in IoFields /\ d.got_connected = k.d.got_connected /\ d.balesim = sim
        /\ d.cpath = k.d.cpath /\ d.dpath = k.d.dpath /\ d.comid = k.d.comid
    BY <2>1, <2>2 DEF IoFields
  <2> HIDE DEF d
  <2>5. LinkFits(c)
    BY <2>3, <2>4 DEF LinkFits, Links!Descriptors
  <2> QED
    BY <1>2, <2>3, <2>4, <2>5 DEF c, sim
<1> QED
  BY <1>1, <1>2

(* What open_sockets and open_serial leave.                                 *)
LEMMA SocketsOpened ==
  ASSUME NEW k, LinkFits(k), k.d.usesock, NEW both \in BOOLEAN, NEW fromback \in BOOLEAN,
         NEW r \in Links!open_sockets(k, both, fromback)
  PROVE  /\ LinkFits(r.link)
         /\ fromback => r.link.d.balesim = k.d.balesim
         /\ r.ok /\ ~r.link.d.got_connected =>
              r.link.d.tcp /\ r.link.d.cpath # Links!None
         /\ r.ok /\ both /\ ~fromback => HasData(r.link.d)
<1> DEFINE c == Links!close_sockets(k)
           m == Links!GotConnected(c, TRUE)
           b == Links!Resolved(m, fromback)
           bad == ~fromback /\ q330id_address = "bad"
           asksdata == both /\ (fromback \/ q330id_address # "baler") /\ ~b.d.tcp
           controls == IF bad THEN {} ELSE Links!WithCpath(b)
<1>1. LinkFits(c) /\ c.d.cpath = 0 /\ c.d.dpath = 0 /\ c.d.balesim = k.d.balesim
  BY CloseFits DEF Links!None
<1> HIDE DEF c
<1>2. /\ LinkFits(m) /\ m.d.cpath = 0 /\ m.d.dpath = 0 /\ m.d.balesim = k.d.balesim
      /\ m.d.got_connected
  BY <1>1, MarkFits
<1> HIDE DEF m
<1>3. /\ LinkFits(b) /\ b.d.cpath = 0 /\ b.d.dpath = 0 /\ b.d.got_connected
      /\ b.d.balesim = IF fromback THEN k.d.balesim ELSE q330id_address = "baler"
  BY <1>2, ResolvedFits
<1> HIDE DEF b
<1>4. ASSUME NEW x \in controls
      PROVE  /\ LinkFits(x) /\ x.d.cpath # 0 /\ x.d.dpath = 0
             /\ x.d.balesim = b.d.balesim /\ x.d.tcp = b.d.tcp /\ x.d.got_connected
  <2>1. x \in Links!WithCpath(b)
    BY <1>4
  <2>2. LinkFits(x) /\ x.d.cpath # 0 /\ x.d = [b.d EXCEPT !.cpath = x.d.cpath]
    BY <1>3, <2>1, CpathFits DEF Links!None
  <2>3. b.d \in IoFields
    BY <1>3 DEF LinkFits
  <2> QED
    BY <1>3, <2>2, <2>3 DEF IoFields
<1>5. ASSUME NEW x \in controls, NEW y \in Links!WithDpath(x)
      PROVE  /\ LinkFits(y) /\ y.d.dpath # 0 /\ y.d.balesim = b.d.balesim /\ y.d.got_connected
  <2>1. /\ LinkFits(x) /\ x.d.dpath = 0 /\ x.d.balesim = b.d.balesim /\ x.d.got_connected
        /\ x.d \in IoFields
    BY <1>4, <1>5 DEF LinkFits
  <2>2. LinkFits(y) /\ y.d.dpath # 0 /\ y.d = [x.d EXCEPT !.dpath = y.d.dpath]
    BY <1>5, <2>1, DpathFits DEF Links!None
  <2> QED
    BY <2>1, <2>2 DEF IoFields
<1>6. CASE r \in {[ok |-> FALSE, link |-> f] : f \in {b} \union (IF asksdata THEN controls ELSE {})}
  BY <1>3, <1>4, <1>6
<1>7. CASE b.d.tcp /\ r \in {[ok |-> TRUE, link |-> x] :
                 x \in controls \union {Links!GotConnected(y, FALSE) : y \in controls}}
  <2>1. PICK x \in controls :
          r = [ok |-> TRUE, link |-> x] \/
          r = [ok |-> TRUE, link |-> Links!GotConnected(x, FALSE)]
    BY <1>7
  <2>2. /\ LinkFits(x) /\ x.d.cpath # 0 /\ x.d.tcp /\ x.d.balesim = b.d.balesim
        /\ x.d.got_connected
    BY <1>4, <1>7
  <2> DEFINE y == Links!GotConnected(x, FALSE)
  <2>3. LinkFits(y) /\ y.d.cpath # 0 /\ y.d.tcp /\ y.d.balesim = b.d.balesim
    BY <2>2, MarkFits
  <2> HIDE DEF y
  <2>4. CASE r = [ok |-> TRUE, link |-> x]
    BY <1>3, <2>2, <2>4 DEF HasData, Links!None
  <2>5. CASE r = [ok |-> TRUE, link |-> y]
    BY <1>3, <2>3, <2>5 DEF HasData, Links!None
  <2> QED
    BY <2>1, <2>4, <2>5 DEF y
<1>8. CASE ~b.d.tcp /\ asksdata /\
           r \in {[ok |-> TRUE, link |-> y] : y \in UNION {Links!WithDpath(x) : x \in controls}}
  <2>1. PICK x \in controls : r.link \in Links!WithDpath(x) /\ r.ok
    BY <1>8
  <2>2. /\ LinkFits(r.link) /\ r.link.d.dpath # 0 /\ r.link.d.balesim = b.d.balesim
        /\ r.link.d.got_connected
    BY <1>5, <2>1
  <2> QED
    BY <1>3, <2>1, <2>2 DEF HasData, Links!None
<1>9. CASE ~b.d.tcp /\ ~asksdata /\ r \in {[ok |-> TRUE, link |-> x] : x \in controls}
  <2>1. r.link \in controls /\ r.ok
    BY <1>9
  <2>2. both /\ ~fromback => r.link.d.balesim
    BY <1>3, <1>4, <1>9, <2>1
  <2> QED
    BY <1>3, <1>4, <2>1, <2>2 DEF HasData
<1> QED
  BY <1>6, <1>7, <1>8, <1>9 DEF Links!open_sockets, b, c, m

LEMMA SerialOpened ==
  ASSUME NEW k, LinkFits(k), ~k.d.usesock, NEW r \in Links!open_serial(k)
  PROVE  LinkFits(r.link) /\ ~r.link.d.usesock /\ (r.ok => r.link.d.got_connected)
<1> DEFINE d == [k.d EXCEPT !.comid = Links!None, !.balesim = q330id_address = "baler"]
           b == Links!Link(d, k.fds \ {k.d.comid})
           opened == IF q330id_address = "bad" THEN {} ELSE Links!WithComid(b)
<1>1. k.d \in IoFields /\ k.fds = Links!Descriptors(k.d)
  BY DEF LinkFits
<1>2. d \in IoFields /\ d.comid = 0 /\ d.cpath = k.d.cpath /\ d.dpath = k.d.dpath /\ ~d.usesock
  <2> DEFINE e == [k.d EXCEPT !.comid = 0]
  <2>1. /\ e \in IoFields /\ e.comid = 0 /\ e.cpath = k.d.cpath /\ e.dpath = k.d.dpath
        /\ ~e.usesock
    BY <1>1 DEF IoFields
  <2>2. d = [e EXCEPT !.balesim = q330id_address = "baler"]
    BY DEF Links!None
  <2> HIDE DEF d, e
  <2> QED
    BY <2>1, <2>2 DEF IoFields
<1>3. LinkFits(b) /\ b.d = d
  <2>1. b.d = d /\ b.fds = k.fds \ {k.d.comid}
    BY DEF Links!Link
  <2> HIDE DEF b, d
  <2> QED
    BY <1>1, <1>2, <2>1 DEF LinkFits, Links!Descriptors, Links!None
<1> HIDE DEF b, d
<1>4. ASSUME NEW x \in opened
      PROVE  LinkFits(x) /\ ~x.d.usesock
  <2>1. x \in Links!WithComid(b)
    BY <1>4
  <2>2. LinkFits(x) /\ x.d = [d EXCEPT !.comid = x.d.comid]
    BY <1>2, <1>3, <2>1, ComidFits DEF Links!None
  <2> QED
    BY <1>2, <2>2 DEF IoFields
<1>5. CASE r = [ok |-> FALSE, link |-> b]
  BY <1>2, <1>3, <1>5
<1>6. CASE r \in {[ok |-> TRUE, link |-> Links!GotConnected(x, TRUE)] : x \in opened}
  <2>1. PICK x \in opened : r = [ok |-> TRUE, link |-> Links!GotConnected(x, TRUE)]
    BY <1>6
  <2>2. LinkFits(x) /\ ~x.d.usesock
    BY <1>4
  <2> DEFINE y == Links!GotConnected(x, TRUE)
  <2>3. LinkFits(y) /\ ~y.d.usesock /\ y.d.got_connected
    BY <2>2, MarkFits
  <2> HIDE DEF y
  <2>4. r.link = y
    BY <2>1 DEF y
  <2> QED
    BY <2>3, <2>4
<1> QED
  BY <1>5, <1>6 DEF Links!open_serial, b, d

LEMMA Opening ==
  ASSUME LinkFits(Links!Link(io, sockets_open)), NEW both \in BOOLEAN, NEW fromback \in BOOLEAN,
         NEW r \in Links!Opened(both, fromback)
  PROVE  /\ LinkFits(r.link)
         /\ fromback => r.link.d.balesim = io.balesim
         /\ ~fromback /\ r.ok /\ ~r.link.d.got_connected =>
              r.link.d.tcp /\ r.link.d.cpath # Links!None
         /\ r.ok /\ both /\ ~fromback => HasData(r.link.d)
<1> DEFINE k == Links!Link(io, sockets_open)
<1>1. k.d = io
  BY DEF Links!Link
<1> HIDE DEF k
<1>2. CASE io.usesock
  <2>1. r \in Links!open_sockets(k, both, fromback)
    BY <1>2 DEF Links!Opened, k
  <2> QED
    BY <1>1, <1>2, <2>1, SocketsOpened DEF k
<1>3. CASE ~io.usesock /\ fromback
  BY <1>1, <1>3 DEF Links!Opened, k
<1>4. CASE ~io.usesock /\ ~fromback
  <2>1. r \in Links!open_serial(k)
    BY <1>4 DEF Links!Opened, k
  <2>2. LinkFits(r.link) /\ ~r.link.d.usesock /\ (r.ok => r.link.d.got_connected)
    BY <1>1, <1>4, <2>1, SerialOpened DEF k
  <2> QED
    BY <1>4, <2>2 DEF HasData
<1> QED
  BY <1>2, <1>3, <1>4

LEMMA SocketsStep ==
  ASSUME SocketsInv, [Links!Next]_sockets_vars
  PROVE  SocketsInv'
<1> DEFINE k == Links!Link(io, sockets_open)
<1>1. /\ LinkFits(k) /\ k.d = io /\ k.fds = sockets_open
      /\ io \in IoFields
      /\ libstate = "CONN" => io.tcp /\ io.cpath # Links!None
      /\ libstate = "ANNC" => io.balesim
      /\ libstate \in {"REG", "RUN"} => HasData(io)
  BY DEF SocketsInv, Links!Link, LinkFits
<1>2. ASSUME UNCHANGED <<io, sockets_open>>,
             libstate' \in {"CONN", "ANNC"} => libstate' = libstate,
             libstate' \in {"REG", "RUN"} => HasData(io)
      PROVE  SocketsInv'
  BY <1>1, <1>2 DEF SocketsInv, HasData, Links!Link, LinkFits, Links!Descriptors
\* a link that is closed or opened
<1>3. ASSUME NEW c, LinkFits(c), Links!Become(c),
             libstate' = "CONN" => c.d.tcp /\ c.d.cpath # Links!None,
             libstate' = "ANNC" => c.d.balesim,
             libstate' \in {"REG", "RUN"} => HasData(c.d)
      PROVE  SocketsInv'
  <2>1. io' = c.d /\ sockets_open' = c.fds
    BY <1>3 DEF Links!Become
  <2> QED
    BY <1>3, <2>1 DEF SocketsInv, HasData, Links!Link, LinkFits, Links!Descriptors
<1>4. ASSUME Links!Close, libstate' \notin {"CONN", "ANNC"},
             libstate' \in {"REG", "RUN"} => libstate' = libstate /\ io.usesock
      PROVE  SocketsInv'
  <2> DEFINE c == Links!close_sockets(k)
  <2>1. /\ LinkFits(c) /\ (io.usesock => c.d.cpath = Links!None)
    BY <1>1, CloseFits
  <2>2. Links!Become(c)
    BY <1>4 DEF Links!Close
  <2> HIDE DEF c
  <2> QED
    BY <1>3, <1>4, <2>1, <2>2 DEF HasData
\* what the client sets of the link is no descriptor
<1>5. ASSUME NEW d, io' = d, d \in IoFields, UNCHANGED sockets_open,
             d.cpath = io.cpath, d.dpath = io.dpath, d.comid = io.comid,
             libstate' \notin {"CONN", "ANNC", "REG", "RUN"}
      PROVE  SocketsInv'
  <2> DEFINE c == Links!Link(d, sockets_open)
  <2>1. c.d = d /\ c.fds = sockets_open
    BY DEF Links!Link
  <2> HIDE DEF c
  <2>2. LinkFits(c)
    BY <1>1, <1>5, <2>1 DEF LinkFits, Links!Descriptors
  <2>3. Links!Become(c)
    BY <1>5, <2>1 DEF Links!Become
  <2> QED
    BY <1>3, <1>5, <2>2, <2>3
<1>6. CASE \E m \in Modes, a \in Addresses :
             Links!lib_register_330(m, a)
  <2>1. PICK m \in Modes, a \in Addresses :
               Links!lib_register_330(m, a)
    BY <1>6
  <2> DEFINE tcp == m = "TCP"
             use == m \in {"ETH", "TCP"}
             d == [Links!Cleared EXCEPT !.tcp = tcp, !.usesock = use]
  <2>2. io' = d /\ UNCHANGED sockets_open /\ libstate' = "IDLE"
    BY <2>1 DEF Links!lib_register_330
  <2>3. tcp \in BOOLEAN /\ use \in BOOLEAN
    OBVIOUS
  <2> HIDE DEF tcp, use
  <2>4. d \in IoFields /\ d.cpath = io.cpath /\ d.dpath = io.dpath /\ d.comid = io.comid
    <3> DEFINE e == [io EXCEPT !.usesock = FALSE]
               f == [e EXCEPT !.balesim = FALSE]
               g == [f EXCEPT !.tcp = tcp]
    <3>1. e \in IoFields /\ e.cpath = io.cpath /\ e.dpath = io.dpath /\ e.comid = io.comid
      BY <1>1 DEF IoFields
    <3> HIDE DEF e
    <3>2. f \in IoFields /\ f.cpath = io.cpath /\ f.dpath = io.dpath /\ f.comid = io.comid
      BY <3>1 DEF IoFields
    <3>3. f = Links!Cleared
      BY DEF e, Links!Cleared
    <3> HIDE DEF f
    <3>4. g \in IoFields /\ g.cpath = io.cpath /\ g.dpath = io.dpath /\ g.comid = io.comid
      BY <2>3, <3>2 DEF IoFields
    <3>5. d = [g EXCEPT !.usesock = use]
      BY <3>3
    <3> HIDE DEF d, g
    <3> QED
      BY <2>3, <3>4, <3>5 DEF IoFields
  <2> HIDE DEF d
  <2> QED
    BY <1>5, <2>2, <2>4
<1>7. CASE \E m \in Modes, a \in Addresses :
             Links!lib_unregping_330(m, a)
  <2>1. PICK m \in Modes, a \in Addresses :
               Links!lib_unregping_330(m, a)
    BY <1>7
  <2> DEFINE use == m = "ETH"
             d == [Links!Cleared EXCEPT !.usesock = use]
  <2>2. io' = d /\ UNCHANGED sockets_open /\ libstate' = "IDLE"
    BY <2>1 DEF Links!lib_unregping_330
  <2>3. use \in BOOLEAN
    OBVIOUS
  <2> HIDE DEF use
  <2>4. d \in IoFields /\ d.cpath = io.cpath /\ d.dpath = io.dpath /\ d.comid = io.comid
    <3> DEFINE e == [io EXCEPT !.usesock = FALSE]
               f == [e EXCEPT !.balesim = FALSE]
    <3>1. e \in IoFields /\ e.cpath = io.cpath /\ e.dpath = io.dpath /\ e.comid = io.comid
      BY <1>1 DEF IoFields
    <3> HIDE DEF e
    <3>2. f \in IoFields /\ f.cpath = io.cpath /\ f.dpath = io.dpath /\ f.comid = io.comid
      BY <3>1 DEF IoFields
    <3>3. f = Links!Cleared
      BY DEF e, Links!Cleared
    <3> HIDE DEF f
    <3>4. d = [f EXCEPT !.usesock = use]
      BY <3>3
    <3> HIDE DEF d
    <3> QED
      BY <2>3, <3>2, <3>4 DEF IoFields
  <2> HIDE DEF d
  <2> QED
    BY <1>5, <2>2, <2>4
<1>8. CASE \E s \in {"IDLE", "TERM"} : Links!lib_change_state(s)
  BY <1>1, <1>2, <1>8 DEF Links!lib_change_state
<1>9. CASE Links!lib_start_registration
  <2>1. PICK r \in Links!Opened(TRUE, FALSE) :
          /\ Links!Become(r.link)
          /\ IF ~r.ok THEN UNCHANGED libstate
             ELSE libstate' = IF ~r.link.d.got_connected THEN "CONN"
                              ELSE IF r.link.d.balesim THEN "ANNC" ELSE "REG"
    BY <1>9 DEF Links!lib_start_registration, Links!Answered
  <2>2. libstate \in {"IDLE", "WAIT"}
    BY <1>9 DEF Links!lib_start_registration
  <2>3. /\ LinkFits(r.link)
        /\ r.ok /\ ~r.link.d.got_connected => r.link.d.tcp /\ r.link.d.cpath # Links!None
        /\ r.ok => HasData(r.link.d)
    BY <1>1, Opening
  <2> QED
    BY <1>3, <2>1, <2>2, <2>3
<1>10. CASE Links!lib_start_ping
  <2>1. PICK r \in Links!Opened(FALSE, FALSE) :
          Links!Become(r.link) /\ libstate' \in {"PING", "IDLE"}
    BY <1>10 DEF Links!lib_start_ping
  <2>2. LinkFits(r.link)
    BY <1>1, Opening
  <2> QED
    BY <1>3, <2>1, <2>2
<1>11. CASE Links!Leave
  BY <1>2, <1>4, <1>11 DEF Links!Leave
<1>12. CASE Links!WaitOver
  BY <1>2, <1>12 DEF Links!WaitOver
<1>13. CASE Links!RegistrationTimesOut
  BY <1>1, <1>2, <1>13 DEF Links!RegistrationTimesOut
<1>14. CASE Links!Terminate
  BY <1>2, <1>14 DEF Links!Terminate
<1>15. CASE Links!Connected
  <2>1. /\ UNCHANGED <<io, sockets_open>> /\ libstate = "CONN"
        /\ libstate' = IF io.balesim THEN "ANNC" ELSE "REG"
    BY <1>15 DEF Links!Connected
  <2>2. Links!Become(k)
    BY <1>1, <2>1 DEF Links!Become
  <2> HIDE DEF k
  <2> QED
    BY <1>1, <1>3, <2>1, <2>2 DEF HasData
<1>16. CASE Links!Back
  <2>1. PICK r \in Links!Opened(TRUE, TRUE) : Links!Become(r.link)
    BY <1>16 DEF Links!Back
  <2>2. LinkFits(r.link) /\ r.link.d.balesim = io.balesim
    BY <1>1, Opening
  <2>3. libstate = "ANNC" /\ libstate' = "REG"
    BY <1>16 DEF Links!Back
  <2> QED
    BY <1>1, <1>3, <2>1, <2>2, <2>3 DEF HasData
<1>17. CASE Links!Registered
  BY <1>1, <1>2, <1>17 DEF Links!Registered
<1>18. CASE Links!PingEnds
  BY <1>2, <1>18 DEF Links!PingEnds
<1>19. CASE Links!Deregistered
  BY <1>4, <1>19 DEF Links!Deregistered
<1>20. CASE Links!tcp_error
  <2>1. CASE libstate = "ANNC"
    <3> DEFINE c == Links!close_sockets(k)
    <3>1. LinkFits(c) /\ c.d.balesim
      BY <1>1, <2>1, CloseFits
    <3>2. Links!Become(c) /\ libstate' = "ANNC"
      BY <1>20, <2>1 DEF Links!tcp_error, Links!Close
    <3> HIDE DEF c
    <3> QED
      BY <1>3, <3>1, <3>2
  <2>2. CASE libstate # "ANNC"
    BY <1>4, <1>20, <2>2 DEF Links!tcp_error, Links!Connecting
  <2> QED
    BY <2>1, <2>2
<1>21. CASE \E data_lost \in BOOLEAN : Links!Reset(data_lost)
  BY <1>4, <1>21 DEF Links!Reset
<1>22. CASE UNCHANGED sockets_vars
  BY <1>1, <1>2, <1>22 DEF sockets_vars
<1> QED
  BY <1>6, <1>7, <1>8, <1>9, <1>10, <1>11, <1>12, <1>13, <1>14, <1>15, <1>16, <1>17,
     <1>18, <1>19, <1>20, <1>21, <1>22 DEF Links!Next

LEMMA SocketsProperties ==
  ASSUME SocketsInv
  PROVE  Links!NothingLeaks /\ Links!ConnectsSomething /\ Links!RunHasData
BY DEF SocketsInv, LinkFits, HasData, Links!Link, Links!NothingLeaks,
   Links!ConnectsSomething, Links!RunHasData

-----------------------------------------------------------------------------
(* A client that asks for two kinds of status at a time. *)
VARIABLES
  stat_request, extra_status, due, have_status, kept, status_cmdq, status_cphase,
  status_flight, wishes, others, aborts, restarts

Statuses == INSTANCE Status WITH
  cmdq <- status_cmdq, cphase <- status_cphase, flight <- status_flight

status_vars == <<stat_request, extra_status, due, have_status, kept, status_cmdq,
  status_cphase, status_flight, wishes, others, aborts, restarts>>

ASSUME StatusParameters ==
  /\ Statuses!StatusAssumption
  /\ \A w \in Wishes : w \cap {"THR", "LOG2", "SER2"} = {}

(* The proof of what RequestsAreKnown says of the statuses.  Of the kinds    *)
(* that clients may ask for here each has a place of its own.                *)

Readable == Statuses!Kinds \ {"THR", "LOG2", "SER2"}

\* What may lie in place p.
MayLie(p) == {"nothing"} \cup {k \in Readable : Statuses!Place(k) = p}

StatusInv ==
  /\ status_cmdq \in Seq({"RQSTAT", "OTHER"})
  /\ status_cphase # "IDLE" => status_cmdq # << >>
  /\ Statuses!LackingIsAskedFor
  /\ stat_request \subseteq Readable /\ extra_status \subseteq Readable
  /\ status_flight \subseteq Readable /\ have_status \subseteq Readable
  /\ \A p \in Statuses!Places : kept[p] \in MayLie(p)

LEMMA ReadableKinds == Readable = {"GLB", "PLL", "LOG1", "SER1", "FES"}
<1>1. Statuses!Kinds = {"GLB", "THR", "PLL", "LOG1", "LOG2", "SER1", "SER2", "FES"}
  <2>1. DOMAIN Statuses!Order = 1 .. 8
    BY DEF Statuses!Order
  <2>2. Statuses!Kinds = {Statuses!Order[i] : i \in 1 .. 8}
    BY <2>1 DEF Statuses!Kinds
  <2>3. /\ Statuses!Order[1] = "GLB" /\ Statuses!Order[2] = "THR" /\ Statuses!Order[3] = "PLL"
        /\ Statuses!Order[4] = "LOG1" /\ Statuses!Order[5] = "LOG2" /\ Statuses!Order[6] = "SER1"
        /\ Statuses!Order[7] = "SER2" /\ Statuses!Order[8] = "FES"
    BY DEF Statuses!Order
  <2> QED
    BY <2>2, <2>3
<1> QED
  BY <1>1 DEF Readable

LEMMA QueuedCommand ==
  ASSUME NEW q \in Seq({"RQSTAT", "OTHER"}), NEW c \in {"RQSTAT", "OTHER"}
  PROVE  LET n == Statuses!new_cmd(q, c)
         IN  /\ n \in Seq({"RQSTAT", "OTHER"}) /\ n # << >>
             /\ Statuses!Contains(n, c)
             /\ \A d : Statuses!Contains(q, d) => Statuses!Contains(n, d)
<1>1. CASE Statuses!Contains(q, c)
  BY <1>1 DEF Statuses!new_cmd, Statuses!Contains
<1>2. CASE ~Statuses!Contains(q, c)
  <2> DEFINE n == Append(q, c)
  <2>1. /\ n \in Seq({"RQSTAT", "OTHER"}) /\ Len(n) = Len(q) + 1 /\ n[Len(q) + 1] = c
        /\ \A i \in 1 .. Len(q) : n[i] = q[i]
    OBVIOUS
  <2>2. Statuses!new_cmd(q, c) = n
    BY <1>2 DEF Statuses!new_cmd
  <2> HIDE DEF n
  <2>3. Statuses!Contains(n, c)
    BY <2>1 DEF Statuses!Contains
  <2>4. \A d : Statuses!Contains(q, d) => Statuses!Contains(n, d)
    BY <2>1 DEF Statuses!Contains
  <2> QED
    BY <2>1, <2>2, <2>3, <2>4
<1> QED
  BY <1>1, <1>2

LEMMA AnsweredCommand ==
  ASSUME NEW q \in Seq({"RQSTAT", "OTHER"}), q # << >>
  PROVE  /\ Tail(q) \in Seq({"RQSTAT", "OTHER"})
         /\ \A c : Statuses!Contains(q, c) /\ Head(q) # c => Statuses!Contains(Tail(q), c)
<1>1. Tail(q) \in Seq({"RQSTAT", "OTHER"}) /\ Len(Tail(q)) = Len(q) - 1
  OBVIOUS
<1>2. \A i \in 1 .. Len(q) : IF i = 1 THEN q[i] = Head(q) ELSE q[i] = Tail(q)[i - 1]
  OBVIOUS
<1>3. ASSUME NEW c, NEW i \in 1 .. Len(q), q[i] = c, Head(q) # c
      PROVE  i - 1 \in 1 .. Len(Tail(q)) /\ Tail(q)[i - 1] = c
  BY <1>1, <1>2, <1>3
<1> QED
  BY <1>1, <1>3 DEF Statuses!Contains

LEMMA LoadedLies ==
  ASSUME NEW resp \in SUBSET Readable, NEW p \in Statuses!Places, kept[p] \in MayLie(p)
  PROVE  Statuses!Loaded(resp, p) \in MayLie(p)
<1> DEFINE here == {i \in DOMAIN Statuses!Order :
                      Statuses!Order[i] \in resp \ {"THR"} /\ Statuses!Place(Statuses!Order[i]) = p}
           last == CHOOSE i \in here : \A j \in here : j <= i
<1>1. CASE here = {}
  BY <1>1 DEF Statuses!Loaded
<1>2. CASE here # {}
  <2>1. here \subseteq 0 .. 8
    BY DEF Statuses!Order
  <2> HIDE DEF here
  <2>2. \E i \in here : \A j \in here : j <= i
    BY <1>2, <2>1, Largest
  <2>3. last \in here
    BY <2>2
  <2>4. "THR" \notin resp
    BY DEF Readable
  <2> HIDE DEF last
  <2>5. Statuses!Loaded(resp, p) = Statuses!Order[last]
    BY <1>2, <2>4 DEF Statuses!Loaded, here, last
  <2>6. Statuses!Order[last] \in Readable /\ Statuses!Place(Statuses!Order[last]) = p
    BY <2>3 DEF here
  <2> QED
    BY <2>5, <2>6 DEF MayLie
<1> QED
  BY <1>1, <1>2

LEMMA StatusBegin == ASSUME Statuses!Init PROVE StatusInv
<1>1. /\ status_cmdq = <<"RQSTAT">> /\ status_cphase = "IDLE"
      /\ stat_request = {"LOG1", "GLB"} /\ extra_status = {} /\ have_status = {}
      /\ status_flight = {} /\ kept = [p \in Statuses!Places |-> "nothing"]
  BY DEF Statuses!Init, Statuses!AtReboot, Statuses!Mine
<1>2. Statuses!Contains(<<"RQSTAT">>, "RQSTAT")
  BY DEF Statuses!Contains
<1> QED
  BY <1>1, <1>2, ReadableKinds DEF StatusInv, Statuses!LackingIsAskedFor, MayLie

LEMMA StatusStep ==
  ASSUME StatusInv, [Statuses!Next]_status_vars
  PROVE  StatusInv'
<1> DEFINE CmdqInv == /\ status_cmdq \in Seq({"RQSTAT", "OTHER"})
                      /\ status_cphase # "IDLE" => status_cmdq # << >>
                      /\ Statuses!LackingIsAskedFor
           SetsInv == /\ stat_request \subseteq Readable /\ extra_status \subseteq Readable
                      /\ status_flight \subseteq Readable /\ have_status \subseteq Readable
           KeptInv == \A p \in Statuses!Places : kept[p] \in MayLie(p)
<1>1. CmdqInv /\ SetsInv /\ KeptInv
  BY DEF StatusInv
<1>2. SUFFICES CmdqInv' /\ SetsInv' /\ KeptInv'
  BY DEF StatusInv
<1>3. ASSUME UNCHANGED kept PROVE KeptInv'
  BY <1>1, <1>3
<1>4. CASE \E w \in Wishes : Statuses!lib_request_status(w)
  <2>1. PICK w \in Wishes : Statuses!lib_request_status(w)
    BY <1>4
  <2>2. w \cap {"THR", "LOG2", "SER2"} = {}
    BY StatusParameters
  <2>3. w \intersect Statuses!Obtainable \subseteq Readable
    BY <2>2 DEF Statuses!Obtainable, Readable
  <2> QED
    BY <1>1, <1>3, <2>1, <2>3 DEF Statuses!lib_request_status, Statuses!commands,
       Statuses!LackingIsAskedFor
<1>5. CASE Statuses!IntervalOver
  BY <1>1, <1>3, <1>5 DEF Statuses!IntervalOver, Statuses!commands, Statuses!LackingIsAskedFor
<1>6. CASE Statuses!RequestStatus
  <2>1. /\ status_cmdq' = Statuses!new_cmd(status_cmdq, "RQSTAT")
        /\ stat_request' = {"LOG1", "GLB", "PLL"} \union extra_status
        /\ UNCHANGED <<extra_status, have_status, kept, status_cphase, status_flight>>
    BY <1>6 DEF Statuses!RequestStatus, Statuses!Mine
  <2>2. CmdqInv'
    BY <1>1, <2>1, QueuedCommand DEF Statuses!LackingIsAskedFor
  <2> QED
    BY <1>1, <1>3, <2>1, <2>2, ReadableKinds
<1>7. CASE Statuses!OtherCommand
  <2>1. /\ status_cmdq' = Statuses!new_cmd(status_cmdq, "OTHER")
        /\ UNCHANGED <<stat_request, extra_status, have_status, kept, status_cphase, status_flight>>
    BY <1>7 DEF Statuses!OtherCommand
  <2>2. CmdqInv'
    BY <1>1, <2>1, QueuedCommand DEF Statuses!LackingIsAskedFor
  <2> QED
    BY <1>1, <1>3, <2>1, <2>2
<1>8. CASE Statuses!lib_send_next_cmd
  BY <1>1, <1>3, <1>8 DEF Statuses!lib_send_next_cmd, Statuses!LackingIsAskedFor
<1>9. CASE Statuses!Timeout
  BY <1>1, <1>3, <1>9 DEF Statuses!Timeout, Statuses!LackingIsAskedFor
<1>10. CASE Statuses!abort_cmsg
  <2>1. /\ status_cphase = "WAIT" /\ status_cmdq' = Tail(status_cmdq) /\ status_cphase' = "IDLE"
        /\ stat_request' = {}
        /\ UNCHANGED <<extra_status, have_status, kept, status_flight>>
    BY <1>10 DEF Statuses!abort_cmsg, Statuses!clear_cmsg, Statuses!Given_up
  <2>2. CmdqInv'
    BY <1>1, <2>1, AnsweredCommand DEF Statuses!LackingIsAskedFor
  <2> QED
    BY <1>1, <1>3, <2>1, <2>2
<1>11. CASE Statuses!OtherAnswered
  <2>1. /\ status_cphase = "WAIT" /\ Head(status_cmdq) = "OTHER"
        /\ status_cmdq' = Tail(status_cmdq) /\ status_cphase' = "IDLE"
        /\ UNCHANGED <<stat_request, extra_status, have_status, kept, status_flight>>
    BY <1>11 DEF Statuses!OtherAnswered, Statuses!clear_cmsg
  <2>2. CmdqInv'
    BY <1>1, <2>1, AnsweredCommand DEF Statuses!LackingIsAskedFor
  <2> QED
    BY <1>1, <1>3, <2>1, <2>2
<1>12. CASE Statuses!Restart
  <2>1. /\ have_status' = {} /\ stat_request' = {"LOG1", "GLB"} /\ status_cmdq' = <<"RQSTAT">>
        /\ status_cphase' = "IDLE" /\ UNCHANGED <<extra_status, kept, status_flight>>
    BY <1>12 DEF Statuses!Restart, Statuses!AtReboot, Statuses!Mine
  <2>2. Statuses!Contains(<<"RQSTAT">>, "RQSTAT")
    BY DEF Statuses!Contains
  <2>3. CmdqInv'
    BY <2>1, <2>2 DEF Statuses!LackingIsAskedFor
  <2> QED
    BY <1>1, <1>3, <2>1, <2>3, ReadableKinds
<1>13. CASE \E resp \in SUBSET status_flight : Statuses!StatusReceived(resp)
  <2>1. PICK resp \in SUBSET status_flight : Statuses!StatusReceived(resp)
    BY <1>13
  <2>2. /\ status_cphase = "WAIT"
        /\ kept' = [p \in Statuses!Places |-> Statuses!Loaded(resp, p)]
        /\ have_status' = have_status \union resp /\ stat_request' = stat_request \ resp
        /\ status_cmdq' = IF stat_request' = {} THEN Tail(status_cmdq)
                          ELSE Statuses!new_cmd(Tail(status_cmdq), "RQSTAT")
        /\ status_cphase' = "IDLE" /\ status_flight' = {} /\ UNCHANGED extra_status
    BY <2>1 DEF Statuses!StatusReceived, Statuses!StillToCome
  <2>3. resp \in SUBSET Readable
    BY <1>1
  <2>4. KeptInv'
    BY <1>1, <2>2, <2>3, LoadedLies
  <2>5. Tail(status_cmdq) \in Seq({"RQSTAT", "OTHER"})
    BY <1>1, <2>2, AnsweredCommand
  <2>6. CmdqInv'
    BY <2>2, <2>5, QueuedCommand DEF Statuses!LackingIsAskedFor
  <2> QED
    BY <1>1, <2>2, <2>3, <2>4, <2>6
<1>14. CASE UNCHANGED status_vars
  BY <1>1, <1>3, <1>14 DEF status_vars, Statuses!LackingIsAskedFor
<1> QED
  BY <1>4, <1>5, <1>6, <1>7, <1>8, <1>9, <1>10, <1>11, <1>12, <1>13, <1>14 DEF Statuses!Next

LEMMA StatusProperties ==
  ASSUME StatusInv
  PROVE  Statuses!LackingIsAskedFor /\ Statuses!GivenIsAsked
<1>1. ASSUME NEW k \in Readable, Statuses!Place(k) \in Statuses!Places,
             kept[Statuses!Place(k)] \in MayLie(Statuses!Place(k))
      PROVE  kept[Statuses!Place(k)] \in {"nothing", k}
  BY <1>1, ReadableKinds DEF MayLie, Statuses!Place
<1>2. ASSUME NEW k \in Statuses!Kinds PROVE Statuses!Given(k) \in {"nothing", k}
  <2>1. CASE k \in have_status /\ k # "THR"
    <3>1. k \in Readable /\ Statuses!Place(k) \in Statuses!Places
      BY <2>1 DEF StatusInv, Statuses!Places
    <3> QED
      BY <1>1, <3>1 DEF StatusInv, Statuses!Given
  <2>2. CASE k \notin have_status \/ k = "THR"
    BY <2>2 DEF Statuses!Given
  <2> QED
    BY <2>1, <2>2
<1> QED
  BY <1>2 DEF StatusInv, Statuses!GivenIsAsked

-----------------------------------------------------------------------------
Degrees(d, m, s) == [deg |-> d, min |-> m, side |-> s, ok |-> d > 0]
GpsPlaces == {[lat |-> Degrees(33, 5, "S"), long |-> Degrees(70, 4427, "W")],
              [lat |-> Degrees(0, 0, "N"), long |-> Degrees(1, 1, "E")]}

(* Changes and statuses, a stop; a position south and west, and one that cannot be read. *)
VARIABLES
  gps, notices, answer, opstat, running, agreed, told, changes, statuses, stops

Receiver == INSTANCE Gps WITH
  Places <- GpsPlaces, Forgets <- FALSE, MaxChanges <- MaxReports,
  MaxStatus <- MaxReports, MaxStops <- 1

gps_vars == <<gps, notices, answer, opstat, running, agreed, told, changes,
  statuses, stops>>

ASSUME GpsParameters == Receiver!GpsAssumption

(* The proof of what RequestsAreKnown says of the GPS.                       *)

Stats == Receiver!OffStats \cup Receiver!PlainOnStats \cup {"COLDSTART"}
Fixes == {Receiver!FixOf[d] : d \in 1 .. 3} \cup {Receiver!LastFixOf[d] : d \in 1 .. 3}
           \cup {"ON", "NL", "OFF", "LF"}

\* A receiver that has a fix is on.
Receivers == {s \in [on : BOOLEAN, dim : 0 .. 3, good : BOOLEAN] : s.dim > 0 => s.on}

\* None or one, of a receiver as it may be.
Answers == {<< >>} \cup {<<[gps |-> s, place |-> p]>> : s \in Receivers, p \in GpsPlaces}

GpsTypes ==
  /\ gps \in Receivers /\ notices \in Seq(Reasons) /\ answer \in Answers
  /\ opstat \in [gps_stat : Stats, gps_fix : Fixes, aged : BOOLEAN, lat : Int, long : Int]
  /\ told \in [status : Answers, last : 0 .. 3]

\* The last notice on its way says what is.  When none is left, what is told
\* is what is as soon as a status agreed, and a cold start is one.
PowerInv ==
  /\ notices # << >> => (gps.on <=> notices[Len(notices)] \in Receiver!OnReasons)
  /\ notices = << >> /\ agreed => (gps.on <=> opstat.gps_stat \notin Receiver!OffStats)
  /\ notices = << >> /\ opstat.gps_stat = "COLDSTART" => gps.on

\* The fix that is told is of the last one there was, as long as it counts.
FixInv ==
  /\ \A d \in 1 .. 3 : Receiver!Kept(opstat.gps_fix, d) <=> d = told.last
  /\ Receiver!FixIsLast

GpsInv == GpsTypes /\ PowerInv /\ FixInv /\ Receiver!PositionIsRead

LEMMA PhaseStats ==
  ASSUME NEW r \in Reasons
  PROVE  /\ Receiver!PhaseStat[r] \in Stats
         /\ r \in Receiver!OnReasons <=> Receiver!PhaseStat[r] \notin Receiver!OffStats
         /\ Receiver!PhaseStat[r] = "COLDSTART" => r \in Receiver!OnReasons
<1>1. r \in {"OFFLOCK", "OFFPLL", "OFFMAX", "OFFCMD", "COLD", "ONAUTO", "ONCMD"}
  BY GpsParameters DEF Receiver!GpsAssumption, Receiver!PhaseStat
<1> QED
  BY <1>1 DEF Receiver!PhaseStat, Receiver!OnReasons, Receiver!OffStats, Stats,
     Receiver!PlainOnStats

LEMMA FixNames ==
  /\ Receiver!FixOf[1] = "1D" /\ Receiver!FixOf[2] = "2D" /\ Receiver!FixOf[3] = "3D"
  /\ Receiver!LastFixOf[1] = "1DF" /\ Receiver!LastFixOf[2] = "2DF"
  /\ Receiver!LastFixOf[3] = "3DF"
BY DEF Receiver!FixOf, Receiver!LastFixOf

LEMMA NewFixLasts ==
  ASSUME FixInv, GpsTypes, NEW s \in Receivers
  PROVE  LET fix == Receiver!NewFix(opstat.gps_fix, s)
             last == IF s.on THEN s.dim ELSE told.last
         IN  /\ fix \in Fixes
             /\ \A d \in 1 .. 3 : Receiver!Kept(fix, d) <=> d = last
             /\ fix = CASE s.dim > 0 -> Receiver!FixOf[s.dim]
                        [] s.dim = 0 /\ s.on -> IF s.good THEN "ON" ELSE "NL"
                        [] ~s.on /\ last > 0 -> Receiver!LastFixOf[last]
                        [] ~s.on /\ last = 0 -> IF s.good THEN "OFF" ELSE "LF"
<1> DEFINE fix == Receiver!NewFix(opstat.gps_fix, s)
           last == IF s.on THEN s.dim ELSE told.last
<1>1. /\ s.on \in BOOLEAN /\ s.good \in BOOLEAN /\ s.dim \in 0 .. 3 /\ (s.dim > 0 => s.on)
      /\ told.last \in 0 .. 3
      /\ \A d \in 1 .. 3 : Receiver!Kept(opstat.gps_fix, d) <=> d = told.last
  BY DEF FixInv, GpsTypes, Receivers
<1>2. CASE s.dim > 0
  <2>1. fix = Receiver!FixOf[s.dim] /\ last = s.dim /\ s.dim \in 1 .. 3
    BY <1>1, <1>2 DEF Receiver!NewFix
  <2> QED
    BY <1>1, <1>2, <2>1, FixNames DEF Fixes, Receiver!Kept
<1>3. CASE s.dim = 0 /\ s.on
  <2>1. fix = (IF s.good THEN "ON" ELSE "NL") /\ last = 0
    BY <1>1, <1>3 DEF Receiver!NewFix
  <2> QED
    BY <1>1, <1>3, <2>1, FixNames DEF Fixes, Receiver!Kept
<1>4. CASE s.dim = 0 /\ ~s.on /\ told.last > 0
  <2>1. (CHOOSE d \in 1 .. 3 : Receiver!Kept(opstat.gps_fix, d)) = told.last
    BY <1>1, <1>4
  <2>2. fix = Receiver!LastFixOf[told.last] /\ last = told.last /\ told.last \in 1 .. 3
    BY <1>1, <1>4, <2>1 DEF Receiver!NewFix
  <2> QED
    BY <1>1, <1>4, <2>2, FixNames DEF Fixes, Receiver!Kept
<1>5. CASE s.dim = 0 /\ ~s.on /\ told.last = 0
  <2>1. fix = (IF s.good THEN "OFF" ELSE "LF") /\ last = 0
    BY <1>1, <1>5 DEF Receiver!NewFix
  <2> QED
    BY <1>1, <1>5, <2>1, FixNames DEF Fixes, Receiver!Kept
<1> QED
  BY <1>1, <1>2, <1>3, <1>4, <1>5

\* A position loses less than a unit of its last digit but one.
LEMMA PositionRead ==
  ASSUME NEW c \in Receiver!Coordinates
  PROVE  Receiver!Read(c) \in Int /\ Receiver!Near(Receiver!Read(c), c)
<1> DEFINE d == c.deg
           m == c.min
           sign == IF c.side \in {"S", "W"} THEN -1 ELSE 1
           cut == d * 6000 + 10 * (m \div 10)
           whole == d * 6000 + m
<1>1. d \in Int /\ m \in Int
  BY DEF Receiver!Coordinates
<1>2. Receiver!Read(c) = cut * sign /\ Receiver!Exact(c) = whole * sign
  BY DEF Receiver!Read, Receiver!Exact
<1>3. sign \in {-1, 1}
  OBVIOUS
<1> HIDE DEF d, m, sign
<1>4. cut \in Int /\ whole \in Int /\ cut - whole \in -9 .. 0
  <2> DEFINE tens == m \div 10
             rest == m % 10
  <2>1. tens \in Int /\ rest \in 0 .. 9 /\ m = 10 * tens + rest
    BY <1>1
  <2> HIDE DEF tens, rest
  <2> QED
    BY <1>1, <2>1 DEF tens
<1> HIDE DEF cut, whole
<1>5. CASE sign = 1
  <2>1. Receiver!Read(c) = cut /\ Receiver!Exact(c) = whole
    BY <1>2, <1>4, <1>5
  <2> QED
    BY <1>4, <2>1 DEF Receiver!Near
<1>6. CASE sign = -1
  <2>1. Receiver!Read(c) = -cut /\ Receiver!Exact(c) = -whole
    BY <1>2, <1>4, <1>6
  <2> QED
    BY <1>4, <2>1 DEF Receiver!Near
<1> QED
  BY <1>3, <1>5, <1>6

LEMMA StatusCorrects ==
  ASSUME GpsTypes, PowerInv, NEW s \in Receivers
  PROVE  LET stat == Receiver!Warm(Receiver!Corrected(opstat.gps_stat, s.on), s.dim)
         IN  /\ stat \in Stats
             /\ notices = << >> /\ s.on = gps.on => (gps.on <=> stat \notin Receiver!OffStats)
             /\ notices = << >> /\ stat = "COLDSTART" => gps.on
BY DEF GpsTypes, PowerInv, Receivers, Stats, Receiver!Warm, Receiver!Corrected,
   Receiver!OffStats, Receiver!PlainOnStats

LEMMA GpsBegin == ASSUME Receiver!Init PROVE GpsInv
<1>1. /\ gps \in [on : BOOLEAN, dim : {0}, good : BOOLEAN] /\ notices = << >> /\ answer = << >>
      /\ opstat = [gps_stat |-> "OFF", gps_fix |-> "LF", aged |-> FALSE, lat |-> 0, long |-> 0]
      /\ agreed = FALSE /\ told = [status |-> << >>, last |-> 0]
  BY DEF Receiver!Init
<1>2. GpsTypes
  BY <1>1 DEF GpsTypes, Receivers, Answers, Stats, Fixes, Receiver!OffStats
<1>3. PowerInv
  BY <1>1 DEF PowerInv
<1>4. FixInv
  BY <1>1, FixNames DEF FixInv, Receiver!Kept, Receiver!FixIsLast
<1>5. Receiver!PositionIsRead
  BY <1>1 DEF Receiver!PositionIsRead
<1> QED
  BY <1>2, <1>3, <1>4, <1>5 DEF GpsInv

LEMMA GpsStep ==
  ASSUME GpsInv, [Receiver!Next]_gps_vars
  PROVE  GpsInv'
<1>1. GpsTypes /\ PowerInv /\ FixInv /\ Receiver!PositionIsRead
  BY DEF GpsInv
<1>2. SUFFICES GpsTypes' /\ PowerInv' /\ FixInv' /\ Receiver!PositionIsRead'
  BY DEF GpsInv
\* the fix and the position are told by a status only
<1>3. ASSUME opstat'.gps_fix = opstat.gps_fix, opstat'.lat = opstat.lat,
             opstat'.long = opstat.long, UNCHANGED told
      PROVE  FixInv' /\ Receiver!PositionIsRead'
  <2>1. \A d \in 1 .. 3 : Receiver!Kept(opstat.gps_fix, d)' <=> d = told'.last
    BY <1>1, <1>3 DEF FixInv, Receiver!Kept
  <2>2. Receiver!FixIsLast'
    BY <1>1, <1>3 DEF FixInv, Receiver!FixIsLast
  <2>3. Receiver!PositionIsRead'
    BY <1>1, <1>3 DEF Receiver!PositionIsRead
  <2> QED
    BY <2>1, <2>2, <2>3 DEF FixInv
<1>4. CASE Receiver!Power
  <2>1. PICK r \in Reasons :
          /\ gps.on # (r \in Receiver!OnReasons)
          /\ gps' = [gps EXCEPT !.on = ~@, !.dim = 0] /\ notices' = Append(notices, r)
    BY <1>4 DEF Receiver!Power
  <2>2. agreed' = FALSE /\ UNCHANGED <<answer, opstat, told>>
    BY <1>4 DEF Receiver!Power
  <2>3. gps' \in Receivers /\ (gps'.on <=> r \in Receiver!OnReasons)
    <3>1. gps \in [on : BOOLEAN, dim : 0 .. 3, good : BOOLEAN]
      BY <1>1 DEF GpsTypes, Receivers
    <3> DEFINE off == [gps EXCEPT !.dim = 0]
    <3>2. /\ off \in [on : BOOLEAN, dim : 0 .. 3, good : BOOLEAN] /\ off.dim = 0
          /\ off.on = gps.on
      BY <3>1
    <3>3. gps' = [off EXCEPT !.on = ~gps.on]
      BY <2>1, <3>1
    <3> HIDE DEF off
    <3>4. /\ gps' \in [on : BOOLEAN, dim : 0 .. 3, good : BOOLEAN] /\ gps'.dim = 0
          /\ gps'.on = ~gps.on
      BY <3>2, <3>3
    <3>5. gps' \in Receivers
      BY <3>4 DEF Receivers
    <3>6. CASE r \in Receiver!OnReasons
      BY <2>1, <3>1, <3>4, <3>5, <3>6
    <3>7. CASE r \notin Receiver!OnReasons
      <4>1. gps.on = TRUE
        <5>1. (r \in Receiver!OnReasons) = FALSE
          BY <3>7
        <5>2. gps.on # FALSE
          BY <2>1, <5>1
        <5> QED
          BY <3>1, <5>2
      <4> QED
        BY <3>4, <3>5, <3>7, <4>1
    <3> QED
      BY <3>6, <3>7
  <2>4. /\ notices' \in Seq(Reasons) /\ notices' # << >> /\ notices'[Len(notices')] = r
    <3>1. notices \in Seq(Reasons)
      BY <1>1 DEF GpsTypes
    <3> QED
      BY <2>1, <3>1
  <2> QED
    BY <1>1, <1>3, <2>2, <2>3, <2>4 DEF GpsTypes, PowerInv
<1>5. CASE Receiver!Fix
  <2>1. PICK d \in 0 .. 3 : gps' = [gps EXCEPT !.dim = d, !.good = @ \/ d > 0]
    BY <1>5 DEF Receiver!Fix
  <2>2. gps.on /\ UNCHANGED <<notices, answer, opstat, agreed, told>>
    BY <1>5 DEF Receiver!Fix
  <2>3. gps' \in Receivers /\ gps'.on = gps.on
    <3>1. gps \in [on : BOOLEAN, dim : 0 .. 3, good : BOOLEAN]
      BY <1>1 DEF GpsTypes, Receivers
    <3> DEFINE fixed == [gps EXCEPT !.dim = d]
    <3>2. fixed \in [on : BOOLEAN, dim : 0 .. 3, good : BOOLEAN] /\ fixed.on = gps.on
      BY <3>1
    <3>3. gps' = [fixed EXCEPT !.good = gps.good \/ d > 0]
      BY <2>1, <3>1
    <3> HIDE DEF fixed
    <3>4. gps' \in [on : BOOLEAN, dim : 0 .. 3, good : BOOLEAN] /\ gps'.on = gps.on
      BY <3>1, <3>2, <3>3
    <3> QED
      BY <2>2, <3>4 DEF Receivers
  <2> QED
    BY <1>1, <1>3, <2>2, <2>3 DEF GpsTypes, PowerInv
<1>6. CASE Receiver!Status
  <2>1. PICK p \in GpsPlaces : answer' = <<[gps |-> gps, place |-> p]>>
    BY <1>6 DEF Receiver!Status
  <2>2. UNCHANGED <<gps, notices, opstat, agreed, told>>
    BY <1>6 DEF Receiver!Status
  <2> QED
    BY <1>1, <1>3, <2>1, <2>2 DEF GpsTypes, PowerInv, Answers
<1>7. CASE Receiver!Lost
  BY <1>1, <1>3, <1>7 DEF Receiver!Lost, GpsTypes, PowerInv, Answers
<1>8. CASE Receiver!update_gps_stats
  <2>1. answer \in Answers /\ answer # << >>
    BY <1>1, <1>8 DEF Receiver!update_gps_stats, GpsTypes
  <2>2. PICK s \in Receivers, p \in GpsPlaces : answer = <<[gps |-> s, place |-> p]>>
    BY <2>1 DEF Answers
  <2>3. answer[1].gps = s /\ answer[1].place = p
    BY <2>2
  <2> DEFINE read == p.lat.ok /\ p.long.ok
             stat == Receiver!Warm(Receiver!Corrected(opstat.gps_stat, s.on), s.dim)
             fix == Receiver!NewFix(opstat.gps_fix, s)
             lat == IF read THEN Receiver!Read(p.lat) ELSE 0
             long == IF read THEN Receiver!Read(p.long) ELSE 0
             last == IF s.on THEN s.dim ELSE told.last
  <2>4. /\ answer' = << >>
        /\ opstat' = [gps_stat |-> stat, gps_fix |-> fix, aged |-> s.good,
                      lat |-> lat, long |-> long]
        /\ agreed' = (s.on = gps.on) /\ told' = [status |-> answer, last |-> last]
        /\ UNCHANGED <<gps, notices>>
    BY <1>8, <2>3 DEF Receiver!update_gps_stats
  <2>5. /\ stat \in Stats
        /\ notices = << >> /\ s.on = gps.on => (gps.on <=> stat \notin Receiver!OffStats)
        /\ notices = << >> /\ stat = "COLDSTART" => gps.on
    BY <1>1, StatusCorrects
  <2>6. /\ fix \in Fixes /\ \A d \in 1 .. 3 : Receiver!Kept(fix, d) <=> d = last
        /\ fix = CASE s.dim > 0 -> Receiver!FixOf[s.dim]
                   [] s.dim = 0 /\ s.on -> IF s.good THEN "ON" ELSE "NL"
                   [] ~s.on /\ last > 0 -> Receiver!LastFixOf[last]
                   [] ~s.on /\ last = 0 -> IF s.good THEN "OFF" ELSE "LF"
    BY <1>1, NewFixLasts
  <2>7. p.lat \in Receiver!Coordinates /\ p.long \in Receiver!Coordinates
    BY GpsParameters DEF Receiver!GpsAssumption
  <2>8. /\ Receiver!Read(p.lat) \in Int /\ Receiver!Near(Receiver!Read(p.lat), p.lat)
        /\ Receiver!Read(p.long) \in Int /\ Receiver!Near(Receiver!Read(p.long), p.long)
    BY <2>7, PositionRead
  <2>9. lat \in Int /\ long \in Int /\ last \in 0 .. 3 /\ s.good \in BOOLEAN
    BY <1>1, <2>8 DEF GpsTypes, Receivers
  <2>10. /\ told'.status = answer /\ told'.last = last /\ opstat'.gps_stat = stat
         /\ opstat'.gps_fix = fix /\ opstat'.lat = lat /\ opstat'.long = long
    BY <2>4
  <2> HIDE DEF stat, fix, last
  <2>11. Receiver!PositionIsRead'
    <3>1. told'.status[1].place = p
      BY <2>3, <2>10
    <3>2. CASE read
      BY <2>8, <2>10, <3>1, <3>2 DEF Receiver!PositionIsRead
    <3>3. CASE ~read
      BY <2>10, <3>1, <3>3 DEF Receiver!PositionIsRead
    <3> QED
      BY <3>2, <3>3
  <2> HIDE DEF lat, long
  <2>12. GpsTypes'
    <3>1. opstat' \in [gps_stat : Stats, gps_fix : Fixes, aged : BOOLEAN, lat : Int, long : Int]
      BY <2>4, <2>5, <2>6, <2>9
    <3>2. told' \in [status : Answers, last : 0 .. 3]
      BY <2>1, <2>4, <2>9
    <3>3. answer' \in Answers
      BY <2>4 DEF Answers
    <3> QED
      BY <1>1, <2>4, <3>1, <3>2, <3>3 DEF GpsTypes
  <2>13. PowerInv'
    <3>1. notices' # << >> => (gps'.on <=> notices'[Len(notices')] \in Receiver!OnReasons)
      BY <1>1, <2>4 DEF PowerInv
    <3>2. agreed' => s.on = gps.on
      BY <2>4
    <3> QED
      BY <2>4, <2>5, <2>10, <3>1, <3>2 DEF PowerInv
  <2>14. FixInv'
    BY <2>3, <2>6, <2>10 DEF FixInv, Receiver!FixIsLast, Receiver!Kept
  <2> QED
    BY <2>11, <2>12, <2>13, <2>14
<1>9. CASE Receiver!process_gps_phase_change
  <2>1. /\ notices # << >> /\ notices' = Tail(notices)
        /\ opstat' = [opstat EXCEPT !.gps_stat = Receiver!PhaseStat[Head(notices)]]
        /\ UNCHANGED <<gps, answer, agreed, told>>
    BY <1>9 DEF Receiver!process_gps_phase_change
  <2>2. notices \in Seq(Reasons) /\ opstat \in
          [gps_stat : Stats, gps_fix : Fixes, aged : BOOLEAN, lat : Int, long : Int]
    BY <1>1 DEF GpsTypes
  <2> DEFINE r == Head(notices)
             stat == Receiver!PhaseStat[r]
  <2>3. /\ r \in Reasons /\ notices' \in Seq(Reasons)
        /\ notices' = << >> => r = notices[Len(notices)]
        /\ notices' # << >> => notices'[Len(notices')] = notices[Len(notices)]
    <3>1. Len(notices) \in Nat \ {0} /\ r = notices[1] /\ r \in Reasons
      BY <2>1, <2>2
    <3>2. /\ Tail(notices) \in Seq(Reasons) /\ Len(Tail(notices)) = Len(notices) - 1
          /\ \A i \in 1 .. Len(notices) - 1 : Tail(notices)[i] = notices[i + 1]
      BY <2>1, <2>2
    <3>3. IF Tail(notices) = << >> THEN Len(notices) = 1 ELSE Len(notices) > 1
      <4> DEFINE rest == Tail(notices)
      <4>1. rest \in Seq(Reasons) /\ Len(rest) = Len(notices) - 1
        BY <3>2
      <4> HIDE DEF rest
      <4>2. IF rest = << >> THEN Len(rest) = 0 ELSE Len(rest) > 0
        BY <4>1
      <4> QED
        BY <3>1, <4>1, <4>2 DEF rest
    <3> QED
      BY <2>1, <3>1, <3>2, <3>3
  <2> HIDE DEF r
  <2>4. /\ stat \in Stats /\ (r \in Receiver!OnReasons <=> stat \notin Receiver!OffStats)
        /\ stat = "COLDSTART" => r \in Receiver!OnReasons
    BY <2>3, PhaseStats
  <2>5. opstat' = [opstat EXCEPT !.gps_stat = stat]
    BY <2>1 DEF r
  <2> HIDE DEF stat
  <2>6. /\ opstat' \in [gps_stat : Stats, gps_fix : Fixes, aged : BOOLEAN, lat : Int, long : Int]
        /\ opstat'.gps_stat = stat /\ opstat'.gps_fix = opstat.gps_fix
        /\ opstat'.lat = opstat.lat /\ opstat'.long = opstat.long
    BY <2>2, <2>4, <2>5
  <2>7. GpsTypes'
    BY <1>1, <2>1, <2>3, <2>6 DEF GpsTypes
  <2>8. PowerInv'
    BY <1>1, <2>1, <2>3, <2>4, <2>6 DEF PowerInv
  <2> QED
    BY <1>3, <2>1, <2>6, <2>7, <2>8
<1>10. CASE Receiver!Stop
  <2>1. /\ answer' = << >> /\ notices' = notices /\ opstat' = [opstat EXCEPT !.aged = FALSE]
        /\ UNCHANGED <<gps, agreed, told>>
    BY <1>10 DEF Receiver!Stop
  <2>2. opstat \in [gps_stat : Stats, gps_fix : Fixes, aged : BOOLEAN, lat : Int, long : Int]
    BY <1>1 DEF GpsTypes
  <2>3. /\ opstat' \in [gps_stat : Stats, gps_fix : Fixes, aged : BOOLEAN, lat : Int, long : Int]
        /\ opstat'.gps_stat = opstat.gps_stat /\ opstat'.gps_fix = opstat.gps_fix
        /\ opstat'.lat = opstat.lat /\ opstat'.long = opstat.long
    BY <2>1, <2>2
  <2> QED
    BY <1>1, <1>3, <2>1, <2>3 DEF GpsTypes, PowerInv, Answers
<1>11. CASE Receiver!Start \/ UNCHANGED gps_vars
  BY <1>1, <1>3, <1>11 DEF Receiver!Start, gps_vars, GpsTypes, PowerInv
<1> QED
  BY <1>4, <1>5, <1>6, <1>7, <1>8, <1>9, <1>10, <1>11 DEF Receiver!Next

LEMMA GpsProperties ==
  ASSUME GpsInv
  PROVE  Receiver!OnIsKnown /\ Receiver!FixIsLast /\ Receiver!PositionIsRead
BY DEF GpsInv, PowerInv, FixInv, Receiver!OnIsKnown

-----------------------------------------------------------------------------
SerialPackets == {<<2, 7>>, <<3, 192, 220>>, <<3, 219, 221>>}

(* What commands carry, for a client that waits for its answers. *)
VARIABLES
  contents_cmdq, contents_cmdin, contents_cmdout, contents_cphase, contents_ctrlseq,
  contents_lastctrlseq, contents_log, contents_newlog, contents_log_changed,
  contents_tunnel_state, contents_tunnel, contents_configs, contents_tunnels,
  contents_q330log, contents_answers

Contents == INSTANCE CommandsProofs WITH
  Own <- {"RQSTAT"}, Tunnelled <- {"TUNNEL"}, Refused <- {}, CMDQSZ <- 5,
  Overlaps <- FALSE, Purges <- FALSE, MaxChanges <- 2, MaxSends <- 5,
  cmdq <- contents_cmdq, cmdin <- contents_cmdin, cmdout <- contents_cmdout,
  cphase <- contents_cphase, ctrlseq <- contents_ctrlseq,
  lastctrlseq <- contents_lastctrlseq, log <- contents_log,
  newlog <- contents_newlog, log_changed <- contents_log_changed,
  tunnel_state <- contents_tunnel_state, tunnel <- contents_tunnel,
  configs <- contents_configs, tunnels <- contents_tunnels,
  q330log <- contents_q330log, answers <- contents_answers

(* Packets with and without bytes that are escaped (192 and 219), and a fault. *)
VARIABLES
  serial_sent, line, buffer, escpend, needframe, received, faults

Line == INSTANCE Serial WITH
  Packets <- SerialPackets, Noise <- {2, 192, 219, 220}, Leftover <- <<2, 7, 192>>,
  MaxBuffer <- 5, MaxPackets <- 3, MaxFaults <- 1, sent <- serial_sent

(* Packets of up to three bytes, masked and padded. *)
VARIABLES
  packet, datain, damaged, expected, base96_processed

Letters == INSTANCE Base96 WITH
  Values <- {0, 63, 64, 170, 255}, Lengths <- {1, 2, 3}, Masks <- {0, 90, 255},
  Padding <- {0, 255}, processed <- base96_processed

(* Bytes of four values; three headers. *)
VARIABLES
  psuedo, data

Checksum == INSTANCE Cksum WITH
  B <- 4, MaxData <- 5, Pseudo <- {<<0, 0>>, <<15, 1>>, <<15, 15, 15, 15, 15, 15>>}

(* Two chunks and blocks of two sizes. *)
VARIABLES
  hdr, free, used, total, brk

Memory == INSTANCE DssMemory WITH
  CHUNK <- 6, MIN_CHUNK <- 3, MIN_FRAG <- 2, MemAllowed <- 9, Sizes <- {2, 3},
  Cells <- 10, MergeAll <- FALSE

(* Two clients of different priority, whose reports need no data and may be    *)
(* purged; then one client with two reports that depend on data, which comes   *)
(* and goes, and nothing is purged.  Packets may fail to go out. *)
VARIABLES
  clients, gate, command, cur_client, bytecount, bytesec, dss_sent, blocks, sound,
  nodes, seconds

Clients == INSTANCE Dss WITH
  Ids <- {"x"}, CLIENT_TIMEOUT <- 1, CAP <- 1, MaxBytes <- 2, BYTE_INTERVAL <- 1,
  MAX_BPS <- 1, Priorities <- {1}, Passwords <- {0, 2}, Addresses <- {"a", "b"},
  Kinds <- {"boot"}, Intervals <- {0, 1}, RepFlags <- {250}, MaxRequests <- 4,
  MaxSeconds <- 2, DataComes <- FALSE, SendFails <- TRUE, Dangling <- FALSE,
  sent <- dss_sent

Reports == INSTANCE Dss WITH
  Ids <- {"x", "y"}, CLIENT_TIMEOUT <- 4, CAP <- 1, MaxBytes <- 0,
  BYTE_INTERVAL <- 1, MAX_BPS <- 5, Priorities <- {1}, Passwords <- {1},
  Addresses <- {"a"}, Kinds <- {"data", "mean"}, Intervals <- {2},
  RepFlags <- {1}, MaxRequests <- 3, MaxSeconds <- 4, DataComes <- TRUE,
  SendFails <- TRUE, Dangling <- FALSE, sent <- dss_sent

ASSUME Parameters ==
  /\ Parts \subseteq {"commands", "contents", "status", "sockets", "tcp", "serial",
                    "base96", "cksum", "gps", "ring", "memory", "clients", "reports"}
  /\ Contents!CommandsAssumption
  /\ Line!SerialAssumption /\ Letters!Base96Assumption
  /\ Checksum!CksumAssumption
  /\ Memory!DssMemoryAssumption /\ Clients!DssAssumption /\ Reports!DssAssumption

contents_vars == <<contents_cmdq, contents_cmdin, contents_cmdout, contents_cphase,
  contents_ctrlseq, contents_lastctrlseq, contents_log, contents_newlog,
  contents_log_changed, contents_tunnel_state, contents_tunnel, contents_configs,
  contents_tunnels, contents_q330log, contents_answers>>
serial_vars == <<serial_sent, line, buffer, escpend, needframe, received, faults>>
base96_vars == <<packet, datain, damaged, expected, base96_processed>>
cksum_vars == <<psuedo, data>>
dssmemory_vars == <<hdr, free, used, total, brk>>
dss_vars == <<clients, gate, command, cur_client, bytecount, bytesec, dss_sent, blocks,
  sound, nodes, seconds>>

ControlInit ==
  /\ part \in Parts
  /\ Init
  /\ Contents!Init
  /\ Statuses!Init
  /\ Links!Init
  /\ Tcp!Init
  /\ Line!Init
  /\ part # "serial" => line = << >> /\ needframe = FALSE
  /\ Letters!Init
  /\ part # "base96" => expected = FALSE
  /\ Checksum!Init
  /\ part # "cksum" => psuedo = <<0, 0>>
  /\ Receiver!Init
  /\ part # "gps" => gps = [on |-> FALSE, dim |-> 0, good |-> FALSE]
  /\ Ring!Init
  /\ Memory!Init
  /\ Clients!Init

(* The parts that do not run stay as they are. *)
Still ==
  /\ part # "commands" => UNCHANGED vars
  /\ part # "contents" => UNCHANGED contents_vars
  /\ part # "status" => UNCHANGED status_vars
  /\ part # "sockets" => UNCHANGED sockets_vars
  /\ part # "tcp" => UNCHANGED tcplink_vars
  /\ part # "serial" => UNCHANGED serial_vars
  /\ part # "base96" => UNCHANGED base96_vars
  /\ part # "cksum" => UNCHANGED cksum_vars
  /\ part # "gps" => UNCHANGED gps_vars
  /\ part # "ring" => UNCHANGED eventring_vars
  /\ part # "memory" => UNCHANGED dssmemory_vars
  /\ part \notin {"clients", "reports"} => UNCHANGED dss_vars

ControlNext ==
  \/ part = "commands" /\ Next /\ UNCHANGED part /\ Still
  \/ part = "contents" /\ Contents!Next /\ UNCHANGED part /\ Still
  \/ part = "status" /\ Statuses!Next /\ UNCHANGED part /\ Still
  \/ part = "sockets" /\ Links!Next /\ UNCHANGED part /\ Still
  \/ part = "tcp" /\ Tcp!Next /\ UNCHANGED part /\ Still
  \/ part = "serial" /\ Line!Next /\ UNCHANGED part /\ Still
  \/ part = "base96" /\ Letters!Next /\ UNCHANGED part /\ Still
  \/ part = "cksum" /\ Checksum!Next /\ UNCHANGED part /\ Still
  \/ part = "gps" /\ Receiver!Next /\ UNCHANGED part /\ Still
  \/ part = "ring" /\ Ring!Next /\ UNCHANGED part /\ Still
  \/ part = "memory" /\ Memory!Next /\ UNCHANGED part /\ Still
  \/ part = "clients" /\ Clients!Next /\ UNCHANGED part /\ Still
  \/ part = "reports" /\ Reports!Next /\ UNCHANGED part /\ Still

control_vars == <<part, vars, contents_vars, status_vars, sockets_vars, tcplink_vars, serial_vars,
          base96_vars, cksum_vars, gps_vars, eventring_vars,
          dssmemory_vars, dss_vars>>

ControlSpec == ControlInit /\ [][ControlNext]_control_vars

(* The log is the one the Q330 has while no change is on its way, an answer   *)
(* to a tunnelled request carries that request, a busy tunnel has its command *)
(* queued (libcmds.c); what a status is lacking is asked for, and what a      *)
(* client is given is what it is called; of the GPS the station tells what is *)
(* and what was last (libcmds.c, libclient.c, libstats.c).                    *)
RequestsAreKnown ==
  /\ part = "contents" => /\ Contents!LogIsKnown /\ Contents!TunnelAnswerIsTheRequests
                          /\ Contents!BusyIsInProgress
  /\ part = "status" => Statuses!LackingIsAskedFor /\ Statuses!GivenIsAsked
  /\ part = "gps" => Receiver!OnIsKnown /\ Receiver!FixIsLast /\ Receiver!PositionIsRead

(* No descriptor is lost when sockets are opened and closed, a state that     *)
(* sends has the socket it sends on (q330io.c, libpoc.c).  Packets come out   *)
(* of a TCP socket as they went in, whole, once and in order, wherever the    *)
(* stream is cut; none that is whole is held back, recv is never asked for    *)
(* nothing, and only a sender of bad lengths is blamed (q330io.c).            *)
SocketsAreExact ==
  /\ part = "sockets" => /\ Links!NothingLeaks /\ Links!ConnectsSomething
                         /\ Links!RunHasData
  /\ part = "tcp" => /\ Tcp!ProcessedInOrder /\ Tcp!BlamedRightly /\ Tcp!NeverFull
                     /\ Tcp!NothingIsHeld

(* Packets come out of a serial line as they went in, in order, and a fault   *)
(* on the line costs at most a packet (q330io.c). Base-96 letters decode to   *)
(* what was encoded or fail (libpoc.c), and the checksums that are built pass *)
(* and find every changed byte (q330io.c).                                    *)
BytesArrive ==
  /\ part = "serial" => Line!ReceivedInOrder /\ Line!FaultCostsOne
  /\ part = "base96" => Letters!OnlyWhatWasSent /\ Letters!EitherFormIsTaken
  /\ part = "cksum" => /\ Checksum!BuiltPasses /\ Checksum!ChangeIsFound
                       /\ Checksum!NeverNone

(* Event-only output is the triggered records, those before each and the      *)
(* one after, once, in order and with its beginnings and ends flagged.        *)
EventOutputIsExact ==
  part = "ring" => /\ Ring!EventRingTypeOK /\ Ring!EventOutputIsExact /\ Ring!SentOnceInOrder
                   /\ Ring!RunsAreFlagged /\ Ring!BeginsAndEndsAlternate

(* Blocks of the subserver's memory never overlap; its clients and reports    *)
(* are there once and nothing of them leaks, also when a client goes with all *)
(* it has as a packet cannot be sent; who is silent is dropped, the lowest    *)
(* are purged first, and a report is sent in time and no oftener than it may  *)
(* (libdss.c).  This is said of steps that use no block they have returned.   *)
DssIsExact ==
  /\ part = "memory" => Memory!DssMemoryTypeOK /\ Memory!BlocksAreDisjoint
  /\ part = "clients" => /\ Clients!NothingLeaks /\ Clients!PurgedIsLowest
                         /\ Clients!SilentIsDropped
  /\ part = "reports" => /\ Reports!NothingLeaks /\ Reports!ReportedInTime
                         /\ Reports!NoticesAreLimited /\ Reports!MeansKeepStep

-----------------------------------------------------------------------------
(* The contents of commands are proved in CommandsProofs; that client waits  *)
(* for its answers, and the ring has room for its three commands.            *)

LEMMA ContentsFit == Contents!CommandsAssumption
<1> DEFINE own == {"RQSTAT"} \cup {"TUNNEL"}
           all == own \cup {"SLOG"}
<1>1. IsFiniteSet(own) /\ Cardinality(own) <= 2
  <2>1. /\ IsFiniteSet({"RQSTAT"}) /\ Cardinality({"RQSTAT"}) = 1
        /\ IsFiniteSet({"TUNNEL"}) /\ Cardinality({"TUNNEL"}) = 1
    BY SMTT(20), FS_Singleton
  <2>2. /\ IsFiniteSet(own) /\ Cardinality({"RQSTAT"} \cap {"TUNNEL"}) \in Nat
        /\ Cardinality(own) = 1 + 1 - Cardinality({"RQSTAT"} \cap {"TUNNEL"})
    BY <2>1, FS_Union, FS_Intersection, FS_CardinalityType
  <2> QED
    BY <2>2
<1>2. IsFiniteSet(all) /\ Cardinality(all) <= 3
  <2> HIDE DEF own
  <2>1. /\ IsFiniteSet({"SLOG"}) /\ Cardinality({"SLOG"}) = 1
        /\ Cardinality(own) \in Nat
    BY <1>1, FS_Singleton, FS_CardinalityType
  <2>2. /\ IsFiniteSet(all) /\ Cardinality(own \cap {"SLOG"}) \in Nat
        /\ Cardinality(all) = Cardinality(own) + 1 - Cardinality(own \cap {"SLOG"})
    BY <1>1, <2>1, FS_Union, FS_Intersection, FS_CardinalityType
  <2> QED
    BY <1>1, <2>1, <2>2
<1>3. Contents!Cmds = all
  BY DEF Contents!Cmds, Contents!SLOG
<1>4. Cardinality(all) < 5
  <2> HIDE DEF all
  <2> QED
    BY <1>2, FS_CardinalityType
<1> QED
  <2>1. Contents!IsFiniteSet(all) /\ Contents!Cardinality(all) < 5
    <3> HIDE DEF all
    <3>1. Contents!IsFiniteSet(all)
      BY <1>2 DEF Contents!IsFiniteSet, IsFiniteSet
    <3>2. Contents!Cardinality(all) = Cardinality(all)
      BY DEF Contents!Cardinality, Cardinality
    <3> QED
      BY <1>4, <3>1, <3>2
  <2>2. Contents!IsFiniteSet(Contents!Cmds) /\ Contents!Cardinality(Contents!Cmds) < 5
    <3> HIDE DEF all
    <3> QED
      BY <1>3, <2>1
  <2> QED
    BY <2>2 DEF Contents!CommandsAssumption, Contents!SLOG

(* What the Q330 is asked for and what clients are told of it: its log is    *)
(* known, a tunnelled answer is to the request, what is lacking of its       *)
(* status is asked for and each status is what it is called, and of the GPS  *)
(* the station tells what is and was last, for any wishes that need one      *)
(* place each and any reasons to power the receiver (libcmds.c, libclient.c, *)
(* libstats.c).                                                              *)
THEOREM RequestsKnown == ControlSpec => []RequestsAreKnown
<1> DEFINE Inv == /\ part = "contents" => Contents!ContentsInv
                  /\ part = "status" => StatusInv
                  /\ part = "gps" => GpsInv
<1>1. ControlInit => Inv
  BY ContentsFit, Contents!ContentsBegin, StatusBegin, GpsBegin DEF ControlInit
<1>2. Inv /\ [ControlNext]_control_vars => Inv'
  <2> SUFFICES ASSUME Inv, [ControlNext]_control_vars
               PROVE  Inv'
    OBVIOUS
  <2>1. part' = part
    BY DEF ControlNext, control_vars
  <2>2. part = "contents" => [Contents!Next]_(Contents!vars)
    BY SMTT(20) DEF ControlNext, control_vars, contents_vars, Contents!vars, Contents!queue,
       Contents!flight, Contents!share, Contents!client
  <2>3. part = "status" => [Statuses!Next]_status_vars
    BY DEF ControlNext, control_vars, status_vars
  <2>4. part = "gps" => [Receiver!Next]_gps_vars
    BY DEF ControlNext, control_vars, gps_vars
  <2>5. part = "contents" => Contents!ContentsInv'
    BY <2>2, ContentsFit, Contents!ContentsSteps
  <2> QED
    BY <2>1, <2>3, <2>4, <2>5, StatusStep, GpsStep
<1>3. Inv => RequestsAreKnown
  <2>1. Contents!ContentsInv =>
          /\ Contents!LogIsKnown /\ Contents!TunnelAnswerIsTheRequests
          /\ Contents!BusyIsInProgress
    BY ContentsFit, Contents!ContentsProperties
  <2> QED
    BY <2>1, StatusProperties, GpsProperties DEF RequestsAreKnown
<1> QED
  BY <1>1, <1>2, <1>3, PTL DEF ControlSpec

(* No descriptor is lost when links are opened and closed, whatever of it    *)
(* fails and in whatever mode the thread is used next; a thread that waits   *)
(* for a connection has one under way, and one that is registered over UDP   *)
(* with a Q330 has both sockets (q330io.c, libcmds.c).  The packets of a     *)
(* TCP connection are processed as they were sent, wherever the stream is    *)
(* cut and whatever an earlier connection left (read_cmd_socket).            *)
THEOREM DescriptorsAreKept == ControlSpec => []SocketsAreExact
<1> DEFINE Inv == (part = "sockets" => SocketsInv) /\ (part = "tcp" => TcpInv)
<1>1. ControlInit => Inv
  <2>1. ControlInit => SocketsInv
    BY DEF ControlInit, Links!Init, Links!NoLink, SocketsInv, LinkFits, IoFields,
       Links!Link, Links!Descriptors, Links!None
  <2>2. ControlInit => TcpInv
    BY TcpBegin DEF ControlInit
  <2> QED
    BY <2>1, <2>2
<1>2. Inv /\ [ControlNext]_control_vars => Inv'
  <2>1. ASSUME Inv, [ControlNext]_control_vars, part' = "sockets" PROVE SocketsInv'
    <3>1. part = "sockets" /\ [Links!Next]_sockets_vars
      BY SMTT(20), <2>1 DEF ControlNext, control_vars, sockets_vars
    <3> QED
      BY <2>1, <3>1, SocketsStep
  <2>2. ASSUME Inv, [ControlNext]_control_vars, part' = "tcp" PROVE TcpInv'
    <3>1. part = "tcp" /\ [Tcp!Next]_tcplink_vars
      BY SMTT(20), <2>2 DEF ControlNext, control_vars, tcplink_vars
    <3> QED
      BY <2>2, <3>1, TcpStep
  <2> QED
    BY <2>1, <2>2
<1>3. Inv => SocketsAreExact
  BY SocketsProperties, TcpProperties DEF SocketsAreExact
<1> QED
  BY <1>1, <1>2, <1>3, PTL DEF ControlSpec

(* Event output is the records near a trigger: those in which the detector   *)
(* was on, those before them that the ring holds and the one after, each     *)
(* once and in order, whatever the runs of triggers and their distance; its  *)
(* events and those of the continuous output begin and end by their flags,   *)
(* for any number of buffers ahead and of records (libsample.c).             *)
THEOREM EventsSent == ControlSpec => []EventOutputIsExact
<1> DEFINE Inv == part = "ring" => RecordsInv
<1>1. ControlInit => Inv
  BY RingBegin DEF ControlInit
<1>2. Inv /\ [ControlNext]_control_vars => Inv'
  <2> SUFFICES ASSUME Inv, [ControlNext]_control_vars
               PROVE  Inv'
    OBVIOUS
  <2>1. part' = part
    BY DEF ControlNext, control_vars
  <2>2. part = "ring" => [Ring!Next]_eventring_vars
    BY DEF ControlNext, control_vars, eventring_vars
  <2> QED
    BY <2>1, <2>2, RingStep
<1>3. Inv => EventOutputIsExact
  BY RingProperties DEF EventOutputIsExact
<1> QED
  BY <1>1, <1>2, <1>3, PTL DEF ControlSpec
=============================================================================
