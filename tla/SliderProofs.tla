---------------------------- MODULE SliderProofs ----------------------------
(***************************************************************************)
(* Theorems about Slider, for any number of sequence numbers, buffers and  *)
(* packets, any window that fits them and any network.                     *)
(*                                                                         *)
(* The receiver knows packets by their sequence numbers, the properties by *)
(* their absolute ones.  The proof keeps two facts that tie these together: *)
(* whatever is on its way is near enough to the receiver for a sequence    *)
(* number to mean one packet, and whatever lies in a buffer is near enough *)
(* for a slot to mean one packet.                                          *)
(***************************************************************************)
EXTENDS Slider, SequenceTheorems, Wrapping

\* The packet n has been processed or waits in its buffer.
Kept(n) == n < position \/ pkt_bufs[Slot(n)] = n

\* An acknowledgement of the receiver says of the past what still holds.
Honest(m) ==
  /\ m.at \in Nat /\ m.at <= position
  /\ m.low = Seq16(m.at + SeqMod - 1)
  /\ m.map \subseteq 1 .. WINWRAP
  /\ \A i \in m.map : Kept(m.at + i - 1)

\* The sequence number waited for is that of the position.
Aligned == link_recv => last_packet = Seq16(position)

\* Nothing is under way before the link parameters are known.
Quiet ==
  /\ running => link_recv
  /\ ~link_recv => ~opened /\ packets = {} /\ answers = {}

\* The receiver is within the window of the Q330.
Near ==
  /\ oldest <= position /\ position <= next /\ next <= oldest + Window
  /\ \A n \in packets : n < next
  /\ \A s \in Slots : pkt_bufs[s] # NoPacket => pkt_bufs[s] < next

Truthful ==
  /\ \A m \in answers : m # DT_OPEN => Honest(m)
  /\ link_recv /\ ack_delay /\ dataout # DT_OPEN => Honest(dataout)
  /\ \A n \in acked : Kept(n)

SliderInv ==
  /\ SliderTypeOK
  /\ Aligned /\ Quiet /\ Near /\ Truthful
  /\ SlotsHoldWindow /\ TakenInOrder

-----------------------------------------------------------------------------
(* What the assumption says of the constants.                              *)
LEMMA Sizes ==
  /\ SeqMod \in Nat \ {0} /\ BufCount \in Nat \ {0} /\ WINBUFS \in Nat \ {0}
  /\ Window \in Nat \ {0} /\ AckCount \in Nat \ {0} /\ Lifetime \in Nat
  /\ FirstPacket \in Nat /\ MaxPackets \in Nat /\ NoPacket \notin Nat
  /\ SeqMod % BufCount = 0 /\ 1 < WINBUFS
  /\ Window <= WINBUFS /\ WINBUFS <= BufCount /\ Window <= Lifetime
  /\ Lifetime + WINBUFS < SeqMod
  /\ WINWRAP \in Nat \ {0} /\ WINWRAP = WINBUFS - 1
BY SliderAssumption DEF WINWRAP

(* A slot is one of the ring.                                              *)
LEMMA SlotInRing == \A n \in Int : Slot(n) \in Slots
BY Sizes, ModRange DEF Slot, Slots

(* Two packets in the window of the ring that begins at p have different  *)
(* slots.                                                                  *)
LEMMA SlotsDiffer ==
  ASSUME NEW p \in Nat, NEW a \in p .. p + BufCount - 1,
         NEW b \in p .. p + BufCount - 1, Slot(a) = Slot(b)
  PROVE  a = b
<1>1. a \in Int /\ b \in Int /\ a - b < BufCount /\ b - a < BufCount
  BY Sizes
<1> QED BY <1>1, Sizes, NearEqual DEF Slot

(* The slots that the receiver computes from the sequence number are those *)
(* of the packets.                                                         *)
LEMMA SlotOfSequence ==
  ASSUME NEW p \in Nat, NEW j \in Int
  PROVE  Slot(Seq16(p) + j) = Slot(p + j)
<1>1. SeqMod \in Nat \ {0} /\ BufCount \in Nat \ {0} /\ SeqMod % BufCount = 0 /\ p \in Int
  BY Sizes
<1>2. ((p % SeqMod) + j) % BufCount = (p + j) % BufCount
  BY <1>1, RemainderFirst
<1> QED BY <1>2 DEF Slot, Seq16

(* The sequence number goes on as the position does.                       *)
LEMMA SequenceMoves ==
  ASSUME NEW p \in Nat, NEW j \in Int
  PROVE  Seq16(Seq16(p) + j) = Seq16(p + j)
<1>1. SeqMod \in Nat \ {0} /\ SeqMod % SeqMod = 0 /\ p \in Int
  BY Sizes
<1>2. ((p % SeqMod) + j) % SeqMod = (p + j) % SeqMod
  BY <1>1, RemainderFirst
<1> QED BY <1>2 DEF Seq16

(* Sequence numbers keep to their width.                                   *)
LEMMA SequenceType == \A n \in Int : Seq16(n) \in 0 .. SeqMod - 1
BY Sizes, ModRange DEF Seq16

(* The 16-bit test of process_data finds the packets of the window.        *)
LEMMA InWindowMeans ==
  ASSUME NEW p \in Nat, last_packet = Seq16(p), NEW n \in Nat,
         n + Lifetime >= p, n < p + Window
  PROVE  InWindow(Seq16(n)) <=> n >= p
<1> DEFINE d == n - p
           w == WINWRAP
           hw == Seq16(last_packet + w)
           seq == Seq16(n)
           lp == last_packet
<1>1. lp \in 0 .. SeqMod - 1
  BY SequenceType
<1>2. d \in Int /\ d >= - Lifetime /\ d <= w
  BY Sizes
<1>3. seq = Seq16(lp + d)
  BY <1>2, SequenceMoves
<1>4. /\ lp + w < SeqMod => hw = lp + w
      /\ lp + w >= SeqMod => hw = lp + w - SeqMod
  <2>1. lp + w \in Int /\ lp + w \in 0 .. 2 * SeqMod - 1
    BY <1>1, Sizes
  <2> DEFINE x == lp + w
  <2>2. /\ x \in 0 .. SeqMod - 1 => x % SeqMod = x
        /\ x \in SeqMod .. 2 * SeqMod - 1 => x % SeqMod = x - SeqMod
    BY <2>1, Sizes, OneTurn
  <2> QED BY <2>1, <2>2, Sizes DEF Seq16
<1>5. /\ lp + d < 0 => seq = lp + d + SeqMod
      /\ lp + d \in 0 .. SeqMod - 1 => seq = lp + d
      /\ lp + d >= SeqMod => seq = lp + d - SeqMod
  <2>1. lp + d \in Int /\ lp + d \in - SeqMod .. 2 * SeqMod - 1
    BY <1>1, <1>2, Sizes
  <2> DEFINE x == lp + d
  <2>2. /\ x \in 0 .. SeqMod - 1 => x % SeqMod = x
        /\ x \in SeqMod .. 2 * SeqMod - 1 => x % SeqMod = x - SeqMod
        /\ x \in - SeqMod .. -1 => x % SeqMod = x + SeqMod
    BY <2>1, Sizes, OneTurn
  <2> QED BY <1>3, <2>1, <2>2, Sizes DEF Seq16
<1>6. InWindow(seq) <=> (IF hw > lp THEN seq >= lp /\ seq <= hw ELSE seq >= lp \/ seq <= hw)
  BY DEF InWindow
<1> SUFFICES InWindow(seq) <=> d >= 0
  BY <1>2
<1> HIDE DEF d, w, hw, seq, lp
<1>8. w \in Nat \ {0} /\ Lifetime + w + 1 < SeqMod /\ SeqMod \in Nat /\ Lifetime \in Nat
  BY Sizes DEF w
<1>9. CASE d >= 0
  BY <1>1, <1>2, <1>4, <1>5, <1>6, <1>8, <1>9
<1>10. CASE d < 0
  BY <1>1, <1>2, <1>4, <1>5, <1>6, <1>8, <1>10
<1> QED BY <1>2, <1>9, <1>10

-----------------------------------------------------------------------------
(* The receiver.                                                           *)

(* Ready takes buffers up to the first that is empty, or all.              *)
LEMMA ReadyIsPrefix ==
  ASSUME NEW bufs, last_packet \in Nat
  PROVE  \E count \in 0 .. BufCount :
           /\ Ready(bufs) = [i \in 1 .. count |-> bufs[Slot(last_packet + i - 1)]]
           /\ \A i \in 0 .. count - 1 : bufs[Slot(last_packet + i)] # NoPacket
           /\ count = BufCount \/ bufs[Slot(last_packet + count)] = NoPacket
<1> DEFINE there(k) == \A i \in 0 .. k - 1 : bufs[Slot(last_packet + i)] # NoPacket
           ends(k) == there(k) /\ (k = BufCount \/ ~ there(k + 1))
           count == CHOOSE k \in 0 .. BufCount : ends(k)
<1>1. \E k \in 0 .. BufCount : ends(k)
  <2> DEFINE T == {k \in 0 .. BufCount : there(k)}
  <2>1. 0 \in T
    BY Sizes
  <2>2. PICK m \in T : \A k \in T : k <= m
    <3>1. T \in SUBSET (0 .. BufCount) /\ T # {} /\ BufCount \in Nat
      BY <2>1, Sizes
    <3> HIDE DEF T
    <3> QED BY <3>1, Largest
  <2>3. m # BufCount => m + 1 \in 0 .. BufCount
    BY Sizes
  <2>4. m # BufCount => ~ there(m + 1)
    <3> SUFFICES ASSUME m # BufCount, m + 1 \in T PROVE FALSE
      BY <2>3
    <3> QED BY <2>2, Sizes
  <2> QED BY <2>4
<1>2. count \in 0 .. BufCount /\ ends(count)
  BY <1>1
<1>3. Ready(bufs) = [i \in 1 .. count |-> bufs[Slot(last_packet + i - 1)]]
  BY DEF Ready
<1> HIDE DEF count
<1>4. count # BufCount => bufs[Slot(last_packet + count)] = NoPacket
  BY <1>2, Sizes
<1> QED BY <1>2, <1>3, <1>4

\* What the buffers may hold when processing begins, at position p.
Fits(bufs, p) ==
  /\ bufs \in [Slots -> Nat \union {NoPacket}]
  /\ \A s \in Slots :
       bufs[s] # NoPacket =>
         Slot(bufs[s]) = s /\ bufs[s] \in p .. p + WINWRAP /\ bufs[s] < next

(* In buffers that fit, the slot of a packet of the window holds that      *)
(* packet or nothing.                                                      *)
LEMMA SlotMeansPacket ==
  ASSUME NEW p \in Nat, NEW bufs, Fits(bufs, p), NEW n \in p .. p + BufCount - 1
  PROVE  bufs[Slot(n)] \in {n, NoPacket}
<1> DEFINE v == bufs[Slot(n)]
<1>1. Slot(n) \in Slots
  BY Sizes, SlotInRing
<1>2. ASSUME v # NoPacket PROVE v = n
  <2>1. Slot(v) = Slot(n) /\ v \in p .. p + WINWRAP
    BY <1>1, <1>2 DEF Fits
  <2>2. v \in p .. p + BufCount - 1
    BY <2>1, Sizes
  <2> QED BY <2>1, <2>2, SlotsDiffer
<1> QED BY <1>2

(* What is in sequence are the packets from the position on, and those are *)
(* taken out of the buffers.                                               *)
LEMMA InSequence ==
  ASSUME NEW p \in Nat, last_packet = Seq16(p), NEW bufs, Fits(bufs, p), next \in Nat
  PROVE  \E count \in 0 .. WINBUFS :
           /\ Ready(bufs) = [i \in 1 .. count |-> p + i - 1]
           /\ count > 0 => p + count <= next
           /\ \A s \in Slots :
                (\E i \in 1 .. count : s = Slot(last_packet + i - 1)) <=>
                  bufs[s] # NoPacket /\ bufs[s] < p + count
           /\ \A s \in Slots : bufs[s] # p + count
<1>1. last_packet \in Nat
  BY SequenceType
<1>2. PICK count \in 0 .. BufCount :
        /\ Ready(bufs) = [i \in 1 .. count |-> bufs[Slot(last_packet + i - 1)]]
        /\ \A i \in 0 .. count - 1 : bufs[Slot(last_packet + i)] # NoPacket
        /\ count = BufCount \/ bufs[Slot(last_packet + count)] = NoPacket
  BY <1>1, ReadyIsPrefix
<1>3. ASSUME NEW i \in 0 .. count - 1
      PROVE  bufs[Slot(last_packet + i)] = p + i /\ Slot(last_packet + i) = Slot(p + i)
  <2>1. Slot(last_packet + i) = Slot(p + i)
    BY SlotOfSequence
  <2>2. p + i \in p .. p + BufCount - 1
    BY Sizes
  <2>3. bufs[Slot(p + i)] \in {p + i, NoPacket}
    BY <2>2, SlotMeansPacket
  <2> QED BY <1>2, <2>1, <2>3
<1>4. ASSUME NEW i \in 0 .. count - 1
      PROVE  p + i \in p .. p + WINWRAP /\ p + i < next
  <2>1. Slot(p + i) \in Slots /\ p + i \in Nat
    BY Sizes, SlotInRing
  <2>2. bufs[Slot(p + i)] = p + i /\ p + i # NoPacket
    BY <1>3, <2>1, Sizes
  <2> QED BY <2>1, <2>2 DEF Fits
<1>5. count \in 0 .. WINBUFS
  <2> SUFFICES ASSUME count > 0 PROVE count <= WINBUFS
    BY Sizes
  <2>1. count - 1 \in 0 .. count - 1
    OBVIOUS
  <2>2. p + (count - 1) \in p .. p + WINWRAP
    BY <1>4, <2>1
  <2> QED BY <2>2, Sizes
<1>6. count > 0 => p + count <= next
  <2> SUFFICES ASSUME count > 0 PROVE p + count <= next
    OBVIOUS
  <2>1. count - 1 \in 0 .. count - 1
    OBVIOUS
  <2>2. p + (count - 1) < next
    BY <1>4, <2>1
  <2> QED BY <2>2
<1>7. Ready(bufs) = [i \in 1 .. count |-> p + i - 1]
  <2>1. ASSUME NEW i \in 1 .. count
        PROVE  bufs[Slot(last_packet + i - 1)] = p + i - 1
    <3>1. i - 1 \in 0 .. count - 1 /\ last_packet + (i - 1) = last_packet + i - 1 /\ p + (i - 1) = p + i - 1
      BY <1>1
    <3>2. bufs[Slot(last_packet + (i - 1))] = p + (i - 1)
      BY <1>3, <3>1
    <3> QED BY <3>1, <3>2
  <2> QED BY <1>2, <2>1
<1>8. ASSUME NEW s \in Slots
      PROVE  (\E i \in 1 .. count : s = Slot(last_packet + i - 1)) <=>
               bufs[s] # NoPacket /\ bufs[s] < p + count
  <2>1. ASSUME NEW i \in 1 .. count, s = Slot(last_packet + i - 1)
        PROVE  bufs[s] # NoPacket /\ bufs[s] < p + count
    <3>1. i - 1 \in 0 .. count - 1 /\ last_packet + (i - 1) = last_packet + i - 1
      BY <1>1
    <3>2. bufs[Slot(last_packet + (i - 1))] = p + (i - 1) /\ bufs[Slot(last_packet + (i - 1))] # NoPacket
      BY <1>2, <1>3, <3>1
    <3> QED BY <2>1, <3>1, <3>2
  <2>2. ASSUME bufs[s] # NoPacket, bufs[s] < p + count
        PROVE  \E i \in 1 .. count : s = Slot(last_packet + i - 1)
    <3>1. bufs[s] \in p .. p + WINWRAP /\ Slot(bufs[s]) = s
      BY <2>2 DEF Fits
    <3> DEFINE j == bufs[s] - p
    <3>2. j \in 0 .. count - 1 /\ p + j = bufs[s]
      BY <2>2, <3>1, Sizes
    <3>3. Slot(last_packet + j) = s
      BY <1>3, <3>1, <3>2
    <3>4. j + 1 \in 1 .. count /\ last_packet + (j + 1) - 1 = last_packet + j
      BY <1>1, <3>2
    <3> QED BY <3>3, <3>4
  <2> QED BY <2>1, <2>2
<1>9. ASSUME NEW s \in Slots, bufs[s] = p + count PROVE FALSE
  <2>1. p + count \in Nat /\ p + count # NoPacket
    BY Sizes
  <2>2. Slot(p + count) = s /\ p + count \in p .. p + WINWRAP
    BY <1>9, <2>1 DEF Fits
  <2>3. count # BufCount
    BY <2>2, Sizes
  <2>4. Slot(last_packet + count) = s
    BY <2>2, SlotOfSequence
  <2> QED BY <1>2, <1>9, <2>1, <2>3, <2>4
<1> QED BY <1>5, <1>6, <1>7, <1>8, <1>9

(* The position is a number.                                               *)
LEMMA PositionType == ASSUME SliderInv PROVE position \in Nat
BY DEF SliderInv, SliderTypeOK, position

(* send_dack keeps the invariant, whatever fitting packet was stored       *)
(* before, and takes a run of packets from the position on.                *)
LEMMA ReceiverKeeps ==
  ASSUME SliderInv, running, link_recv, NEW bufs, Fits(bufs, position),
         \A n \in Nat : n >= position /\ pkt_bufs[Slot(n)] = n => bufs[Slot(n)] = n,
         send_dack(bufs), packets' \subseteq packets,
         UNCHANGED <<running, link_recv, q330_side>>
  PROVE  /\ SliderInv'
         /\ \E count \in 0 .. next - position :
              taken' = taken \o [i \in 1 .. count |-> position + i - 1]
<1> DEFINE p == position
           q == position'
<1>1. /\ p \in Nat /\ last_packet = Seq16(p) /\ next \in Nat
      /\ taken \in Seq(Nat) /\ first \in Nat /\ next' = next /\ first' = first
  BY PositionType DEF SliderInv, SliderTypeOK, Aligned, q330_side, send_dack
<1>2. PICK count \in 0 .. WINBUFS :
        /\ Ready(bufs) = [i \in 1 .. count |-> p + i - 1]
        /\ count > 0 => p + count <= next
        /\ \A s \in Slots :
             (\E i \in 1 .. count : s = Slot(last_packet + i - 1)) <=>
               bufs[s] # NoPacket /\ bufs[s] < p + count
        /\ \A s \in Slots : bufs[s] # p + count
  BY <1>1, InSequence
<1>3. Ready(bufs) \in Seq(Nat) /\ Len(Ready(bufs)) = count
  BY <1>1, <1>2, Sizes
<1>4. taken' = taken \o Ready(bufs)
  BY DEF send_dack
<1>5. taken' \in Seq(Nat) /\ Len(taken') = Len(taken) + count /\ q = p + count /\ q \in Nat
  <2>1. taken' \in Seq(Nat) /\ Len(taken') = Len(taken) + count
    BY <1>1, <1>3, <1>4, ConcatProperties
  <2>2. Len(taken) \in Nat /\ count \in Nat
    BY <1>1, Sizes
  <2> QED BY <1>1, <2>1, <2>2 DEF position
<1>6. last_packet' = Seq16(q)
  <2>1. last_packet' = Seq16(last_packet + count)
    BY <1>3 DEF send_dack
  <2> QED BY <2>1, <1>1, <1>5, Sizes, SequenceMoves
<1>7. /\ pkt_bufs' \in [Slots -> Nat \union {NoPacket}]
      /\ \A s \in Slots :
           pkt_bufs'[s] = IF bufs[s] # NoPacket /\ bufs[s] < q THEN NoPacket ELSE bufs[s]
  <2>1. pkt_bufs' = [s \in Slots |-> IF \E i \in 1 .. count : s = Slot(last_packet + i - 1)
                                    THEN NoPacket ELSE bufs[s]]
    BY <1>3 DEF send_dack
  <2>2. \A s \in Slots : bufs[s] \in Nat \union {NoPacket}
    BY DEF Fits
  <2>3. \A s \in Slots :
          pkt_bufs'[s] = IF bufs[s] # NoPacket /\ bufs[s] < q THEN NoPacket ELSE bufs[s]
    BY <2>1, <1>2, <1>5
  <2> QED BY <2>1, <2>2, <2>3
<1>8. ASSUME NEW s \in Slots, pkt_bufs'[s] # NoPacket
      PROVE  /\ Slot(pkt_bufs'[s]) = s /\ pkt_bufs'[s] \in Nat
             /\ pkt_bufs'[s] \in q + 1 .. q + WINWRAP /\ pkt_bufs'[s] < next
  <2>1. pkt_bufs'[s] = bufs[s] /\ ~ (bufs[s] < q)
    BY <1>7, <1>8
  <2>2. Slot(bufs[s]) = s /\ bufs[s] \in p .. p + WINWRAP /\ bufs[s] < next
    BY <1>8, <2>1 DEF Fits
  <2>3. bufs[s] # q
    BY <1>2, <1>5
  <2> DEFINE v == bufs[s]
  <2>4. v \in Nat /\ ~ (v < q) /\ v # q /\ v \in p .. p + WINWRAP
    BY <2>1, <2>2, <2>3, <1>1, Sizes
  <2> HIDE DEF v
  <2>5. v \in q + 1 .. q + WINWRAP
    BY <2>4, <1>1, <1>5, Sizes
  <2> QED BY <2>1, <2>2, <2>4, <2>5 DEF v
<1>9. SlotsHoldWindow'
  BY <1>8 DEF SlotsHoldWindow
<1>10. ASSUME NEW n \in Nat, Kept(n) PROVE Kept(n)'
  <2>1. CASE n < p
    BY <2>1, <1>1, <1>5 DEF Kept
  <2>2. CASE n >= p
    <3>1. bufs[Slot(n)] = n /\ Slot(n) \in Slots /\ n # NoPacket
      BY <1>10, <2>2, <1>1, Sizes, SlotInRing DEF Kept
    <3>2. n < q \/ pkt_bufs'[Slot(n)] = n
      BY <3>1, <1>7
    <3> QED BY <3>2 DEF Kept
  <2> QED BY <2>1, <2>2, <1>1
<1>11. dataout' = Dack(pkt_bufs', last_packet')
  BY DEF send_dack
<1>12. ASSUME NEW m, m = dataout' PROVE Honest(m)'
  <2>1. /\ m.low = Seq16(last_packet' + SeqMod - 1)
        /\ m.map = {i \in 1 .. WINWRAP : pkt_bufs'[Slot(last_packet' + i - 1)] # NoPacket}
        /\ m.at = q
    BY <1>11, <1>12 DEF Dack
  <2>2. m.low = Seq16(m.at + SeqMod - 1)
    <3>1. last_packet' + SeqMod - 1 = Seq16(q) + (SeqMod - 1) /\ q + SeqMod - 1 = q + (SeqMod - 1)
      BY <1>5, <1>6, Sizes, SequenceType
    <3>2. Seq16(Seq16(q) + (SeqMod - 1)) = Seq16(q + (SeqMod - 1))
      BY <1>5, Sizes, SequenceMoves
    <3> QED BY <2>1, <3>1, <3>2
  <2>3. ASSUME NEW i \in m.map PROVE Kept(m.at + i - 1)'
    <3>1. i \in 1 .. WINWRAP /\ pkt_bufs'[Slot(last_packet' + i - 1)] # NoPacket
      BY <2>1, <2>3
    <3>2. Slot(last_packet' + i - 1) = Slot(q + i - 1)
      <4>1. last_packet' + i - 1 = Seq16(q) + (i - 1) /\ q + i - 1 = q + (i - 1)
        BY <3>1, <1>5, <1>6, Sizes, SequenceType
      <4>2. Slot(Seq16(q) + (i - 1)) = Slot(q + (i - 1))
        BY <3>1, <1>5, SlotOfSequence
      <4> QED BY <4>1, <4>2
    <3> DEFINE n == q + i - 1
               v == pkt_bufs'[Slot(n)]
    <3>3. n \in q .. q + BufCount - 1 /\ n \in Int
      BY <3>1, <1>5, Sizes
    <3>4. Slot(n) \in Slots
      BY <3>3, SlotInRing
    <3>5. Slot(v) = Slot(n) /\ v \in q + 1 .. q + WINWRAP
      BY <3>1, <3>2, <3>4, <1>8
    <3>6. v \in q .. q + BufCount - 1
      BY <3>5, <1>5, Sizes
    <3>7. v = n
      BY <3>3, <3>5, <3>6, <1>5, SlotsDiffer
    <3> QED BY <3>7, <2>1 DEF Kept
  <2>4. m.map \subseteq 1 .. WINWRAP
    BY <2>1
  <2> QED BY <1>5, <2>1, <2>2, <2>3, <2>4 DEF Honest
<1>13. ASSUME NEW m, Honest(m) PROVE Honest(m)'
  <2>1. \A i \in m.map : m.at + i - 1 \in Nat
    BY <1>13, Sizes DEF Honest
  <2>2. \A i \in m.map : Kept(m.at + i - 1)'
    BY <1>13, <2>1, <1>10 DEF Honest
  <2>3. m.at <= q
    BY <1>13, <1>1, <1>5 DEF Honest
  <2> QED BY <1>13, <2>2, <2>3 DEF Honest
<1>14. answers' \subseteq answers \union {dataout'}
  BY DEF send_dack, Transmit
<1>15. Truthful'
  <2>1. \A m \in answers' : m # DT_OPEN => Honest(m)'
    BY <1>12, <1>13, <1>14 DEF SliderInv, Truthful
  <2>3. Honest(dataout)'
    <3>1. PICK m : m = dataout'
      OBVIOUS
    <3> QED BY <3>1, <1>12 DEF Honest, Kept
  <2>2. \A n \in acked' : Kept(n)'
    BY <1>10 DEF SliderInv, SliderTypeOK, Truthful, q330_side
  <2> QED BY <2>1, <2>2, <2>3 DEF Truthful
<1>16. TakenInOrder'
  <2> SUFFICES ASSUME NEW i \in 1 .. Len(taken') PROVE taken'[i] = first + i - 1
    BY <1>1 DEF TakenInOrder
  <2>1. CASE i \in 1 .. Len(taken)
    <3>1. taken'[i] = taken[i]
      BY <2>1, <1>1, <1>3, <1>4, ConcatProperties
    <3> QED BY <2>1, <3>1 DEF SliderInv, TakenInOrder
  <2>2. CASE i \notin 1 .. Len(taken)
    <3> DEFINE j == i - Len(taken)
    <3>1. j \in 1 .. count /\ i = Len(taken) + j /\ Len(taken) \in Nat
      BY <2>2, <1>1, <1>5, Sizes
    <3>2. taken'[i] = Ready(bufs)[j]
      BY <2>2, <3>1, <1>1, <1>3, <1>4, <1>5, ConcatProperties
    <3>3. Ready(bufs)[j] = p + j - 1
      BY <3>1, <1>2
    <3> QED BY <3>1, <3>2, <3>3, <1>1 DEF position
  <2> QED BY <2>1, <2>2
<1>17. Near'
  <2>1. oldest' = oldest /\ next' = next /\ oldest \in Nat
    BY DEF q330_side, SliderInv, SliderTypeOK
  <2>2. q <= next /\ oldest <= q
    BY <1>1, <1>2, <1>5, <2>1 DEF SliderInv, Near
  <2>3. next <= oldest + Window
    BY DEF SliderInv, Near
  <2>4. \A n \in packets' : n < next
    BY DEF SliderInv, Near
  <2>5. \A s \in Slots : pkt_bufs'[s] # NoPacket => pkt_bufs'[s] < next
    BY <1>8
  <2> QED BY <2>1, <2>2, <2>3, <2>4, <2>5 DEF Near
<1>18. SliderTypeOK'
  <2>1. dataout' \in Acks
    <3>1. Seq16(last_packet' + SeqMod - 1) \in 0 .. SeqMod - 1
      <4>1. last_packet' \in 0 .. SeqMod - 1
        BY <1>5, <1>6, SequenceType
      <4>2. last_packet' + SeqMod - 1 \in Int
        BY <4>1, Sizes
      <4> QED BY <4>2, SequenceType
    <3> QED BY <3>1, <1>5, <1>11 DEF Dack, Acks
  <2>2. ack_counter' \in 0 .. AckCount - 1 /\ ack_delay' \in BOOLEAN
    <3>1. ack_counter \in 0 .. AckCount - 1
      BY DEF SliderInv, SliderTypeOK
    <3>2. \/ ack_counter + 1 < AckCount /\ ack_counter' = ack_counter + 1 /\ ack_delay' = TRUE
          \/ ack_counter' = 0 /\ ack_delay' = FALSE
      BY DEF send_dack
    <3>3. ack_counter' \in 0 .. AckCount - 1
      BY <3>1, <3>2, Sizes
    <3> QED BY <3>2, <3>3
  <2>3. last_packet' \in 0 .. SeqMod - 1
    BY <1>5, <1>6, SequenceType
  <2>4. answers' \subseteq Acks \union {DT_OPEN}
    BY <2>1, <1>14 DEF SliderInv, SliderTypeOK
  <2>5. packets' \subseteq Nat
    BY DEF SliderInv, SliderTypeOK
  <2> QED BY <2>1, <2>2, <2>3, <2>4, <2>5, <1>1, <1>5, <1>7 DEF SliderInv, SliderTypeOK, q330_side
<1>19. Aligned' /\ Quiet'
  BY <1>6 DEF Aligned, Quiet, SliderInv
<1>20. count \in 0 .. next - p /\ taken' = taken \o [i \in 1 .. count |-> p + i - 1]
  <2>1. p <= next
    BY DEF SliderInv, Near
  <2> QED BY <2>1, <1>1, <1>2, <1>4, Sizes
<1> QED BY <1>9, <1>15, <1>16, <1>17, <1>18, <1>19, <1>20 DEF SliderInv

(* A packet that is stored keeps the buffers in order: its slot is free or *)
(* has the packet already.                                                 *)
LEMMA StoredFits ==
  ASSUME SliderInv, link_recv, NEW n \in Nat, n \in packets, n + Lifetime >= position
  PROVE  LET bufs == IF InWindow(Seq16(n)) THEN [pkt_bufs EXCEPT ![Slot(Seq16(n))] = n] ELSE pkt_bufs
         IN  /\ Fits(bufs, position)
             /\ \A k \in Nat : k >= position /\ pkt_bufs[Slot(k)] = k => bufs[Slot(k)] = k
<1> DEFINE p == position
           bufs == IF InWindow(Seq16(n)) THEN [pkt_bufs EXCEPT ![Slot(Seq16(n))] = n] ELSE pkt_bufs
<1>1. /\ p \in Nat /\ last_packet = Seq16(p) /\ next \in Nat /\ oldest \in Nat
      /\ pkt_bufs \in [Slots -> Nat \union {NoPacket}]
  BY PositionType DEF SliderInv, SliderTypeOK, Aligned
<1>2. n < next /\ n < p + Window
  BY <1>1, Sizes DEF SliderInv, Near
<1>3. InWindow(Seq16(n)) <=> n >= p
  BY <1>1, <1>2, InWindowMeans
<1>4. Slot(Seq16(n)) = Slot(n) /\ Slot(n) \in Slots
  <2>1. Slot(Seq16(n) + 0) = Slot(n + 0)
    BY SlotOfSequence
  <2>2. Seq16(n) \in Int /\ Seq16(n) + 0 = Seq16(n) /\ n + 0 = n
    BY SequenceType
  <2> QED BY <2>1, <2>2, SlotInRing
<1>5. Fits(pkt_bufs, p)
  BY <1>1, Sizes DEF Fits, SliderInv, SlotsHoldWindow, Near
<1>6. CASE n < p
  <2>1. bufs = pkt_bufs
    BY <1>1, <1>3, <1>6
  <2> QED BY <2>1, <1>5
<1>7. CASE n >= p
  <2>1. bufs = [pkt_bufs EXCEPT ![Slot(n)] = n]
    BY <1>3, <1>4, <1>7
  <2>2. \A s \in Slots : bufs[s] = IF s = Slot(n) THEN n ELSE pkt_bufs[s]
    BY <1>1, <2>1
  <2>3. n \in p .. p + WINWRAP
    BY <1>1, <1>2, <1>7, Sizes
  <2>4. bufs \in [Slots -> Nat \union {NoPacket}]
    BY <1>1, <2>1
  <2> HIDE DEF bufs
  <2>5. Fits(bufs, p)
    BY <1>2, <1>5, <2>2, <2>3, <2>4 DEF Fits
  <2>6. ASSUME NEW k \in Nat, k >= p, pkt_bufs[Slot(k)] = k PROVE bufs[Slot(k)] = k
    <3>1. Slot(k) \in Slots /\ k # NoPacket
      BY SlotInRing, Sizes
    <3>2. k \in p .. p + WINWRAP
      BY <3>1, <2>6, <1>5 DEF Fits
    <3>3. Slot(k) = Slot(n) => k = n
      <4>1. k \in p .. p + BufCount - 1 /\ n \in p .. p + BufCount - 1
        BY <3>2, <2>3, <1>1, Sizes
      <4> QED BY <4>1, <1>1, SlotsDiffer
    <3> QED BY <3>1, <3>3, <2>2, <2>6
  <2> QED BY <2>5, <2>6 DEF bufs
<1> QED BY <1>1, <1>6, <1>7

-----------------------------------------------------------------------------
(* Steps that leave the window alone.                                      *)

(* What has been processed or buffered stays so.                           *)
LEMMA StaysKept ==
  ASSUME UNCHANGED <<pkt_bufs, history>>
  PROVE  /\ position' = position
         /\ \A n : Kept(n) => Kept(n)'
         /\ \A m : Honest(m) => Honest(m)'
<1>1. position' = position
  BY DEF history, position
<1>2. \A n : Kept(n) => Kept(n)'
  BY <1>1 DEF Kept
<1> QED BY <1>1, <1>2 DEF Honest

(* The timers, the end of a session and lost packets: nothing is sent but  *)
(* a DT_OPEN or the acknowledgement that was put off.                      *)
LEMMA TimerKeeps ==
  ASSUME SliderInv, UNCHANGED <<last_packet, pkt_bufs, history, oldest, acked, next>>,
         running' \in BOOLEAN, link_recv' \in BOOLEAN, opened' \in BOOLEAN,
         ack_counter' = ack_counter \/ ack_counter' = 0,
         ack_delay' \in BOOLEAN, ack_delay' => ack_delay,
         dataout' = dataout \/ dataout' = DT_OPEN, link_recv' => link_recv,
         packets' \subseteq packets,
         \A m \in answers' : m \in answers \/ m = DT_OPEN \/ (link_recv /\ ack_delay /\ m = dataout),
         Quiet'
  PROVE  SliderInv'
<1>1. SliderTypeOK'
  <2>1. ack_counter' \in 0 .. AckCount - 1
    BY Sizes DEF SliderInv, SliderTypeOK
  <2>2. ack_delay' \in BOOLEAN /\ dataout' \in Acks \union {DT_OPEN}
    BY DEF SliderInv, SliderTypeOK
  <2>3. answers' \subseteq Acks \union {DT_OPEN} /\ packets' \subseteq Nat
    BY DEF SliderInv, SliderTypeOK
  <2> QED BY <2>1, <2>2, <2>3 DEF SliderInv, SliderTypeOK, history
<1>2. /\ position' = position
      /\ \A n : Kept(n) => Kept(n)'
      /\ \A m : Honest(m) => Honest(m)'
  BY StaysKept
<1>3. Aligned' /\ Near'
  BY <1>2 DEF SliderInv, Aligned, Near
<1>4. Truthful'
  <2>1. \A m \in answers' : m # DT_OPEN => Honest(m)
    BY DEF SliderInv, Truthful
  <2>2. link_recv' /\ ack_delay' /\ dataout' # DT_OPEN => Honest(dataout) /\ dataout' = dataout
    BY DEF SliderInv, Truthful
  <2>3. Honest(dataout) /\ dataout' = dataout => Honest(dataout)'
    BY <1>2 DEF Honest, Kept
  <2>4. \A n \in acked' : Kept(n)'
    BY <1>2 DEF SliderInv, Truthful
  <2> QED BY <1>2, <2>1, <2>2, <2>3, <2>4 DEF Truthful
<1>5. SlotsHoldWindow' /\ TakenInOrder'
  BY <1>2 DEF SliderInv, SlotsHoldWindow, TakenInOrder, history
<1> QED BY <1>1, <1>3, <1>4, <1>5 DEF SliderInv

(* The actions of the station thread that only do this.                    *)
LEMMA HostKeeps ==
  ASSUME SliderInv, dack_out \/ StartRun \/ AckTimeout \/ StopRun \/ Reregister
  PROVE  SliderInv'
<1>1. running \in BOOLEAN /\ link_recv \in BOOLEAN /\ opened \in BOOLEAN /\ ack_delay \in BOOLEAN /\ Quiet
  BY DEF SliderInv, SliderTypeOK
<1> DEFINE Sent == \A m \in answers' : m \in answers \/ m = DT_OPEN \/ (link_recv /\ ack_delay /\ m = dataout)
<1>2. CASE dack_out
  <2>1. answers' \subseteq answers \union (IF link_recv THEN {dataout} ELSE {})
    BY <1>2 DEF dack_out, Transmit
  <2>2. Sent
    <3>1. ack_delay
      BY <1>2 DEF dack_out
    <3> QED BY <2>1, <3>1
  <2>3. Quiet'
    BY <1>1, <1>2, <2>1 DEF dack_out, Quiet, q330_side
  <2>4. /\ UNCHANGED <<last_packet, pkt_bufs, history, oldest, acked, next, running, link_recv, opened,
                      ack_counter, dataout>>
        /\ packets' \subseteq packets /\ ack_delay' = FALSE
    BY <1>2 DEF dack_out, q330_side
  <2> HIDE DEF Sent
  <2> QED BY <1>1, <2>2, <2>3, <2>4, TimerKeeps DEF Sent
<1>3. CASE StartRun
  <2>1. answers' \subseteq answers \union {DT_OPEN}
    BY <1>3 DEF StartRun, send_dopen, Transmit
  <2>2. Quiet'
    BY <1>1, <1>3 DEF StartRun, Quiet, q330_side
  <2>3. /\ UNCHANGED <<last_packet, pkt_bufs, history, oldest, acked, next, link_recv, opened, ack_delay>>
        /\ packets' \subseteq packets /\ ack_counter' = 0 /\ dataout' = DT_OPEN
        /\ running' \in BOOLEAN
    BY <1>1, <1>3 DEF StartRun, send_dopen, q330_side
  <2>4. Sent
    BY <2>1
  <2> HIDE DEF Sent
  <2> QED BY <1>1, <2>2, <2>3, <2>4, TimerKeeps DEF Sent
<1>4. CASE AckTimeout
  <2>1. answers' \subseteq answers \union {DT_OPEN}
    BY <1>4 DEF AckTimeout, send_dopen, Transmit
  <2>2. Quiet'
    BY <1>1, <1>4 DEF AckTimeout, Quiet, q330_side
  <2>3. /\ UNCHANGED <<last_packet, pkt_bufs, history, oldest, acked, next, link_recv, opened, ack_delay>>
        /\ packets' \subseteq packets /\ ack_counter' = 0 /\ dataout' = DT_OPEN
        /\ running' \in BOOLEAN
    BY <1>1, <1>4 DEF AckTimeout, send_dopen, q330_side
  <2>4. Sent
    BY <2>1
  <2> HIDE DEF Sent
  <2> QED BY <1>1, <2>2, <2>3, <2>4, TimerKeeps DEF Sent
<1>5. CASE StopRun
  <2>1. Quiet'
    BY <1>1, <1>5 DEF StopRun, Quiet, q330_side, network
  <2>2. /\ UNCHANGED <<last_packet, pkt_bufs, history, oldest, acked, next, link_recv, opened, ack_delay,
                      ack_counter, dataout, answers, packets>>
        /\ running' = FALSE
    BY <1>5 DEF StopRun, q330_side, network
  <2>3. Sent
    BY <2>2
  <2> HIDE DEF Sent
  <2> QED BY <1>1, <2>1, <2>2, <2>3, TimerKeeps DEF Sent
<1>6. CASE Reregister
  <2>1. Quiet'
    BY <1>6 DEF Reregister, Quiet
  <2> QED BY <1>1, <1>6, <2>1, TimerKeeps DEF Reregister
<1> QED BY <1>2, <1>3, <1>4, <1>5, <1>6

(* A packet is lost.                                                       *)
LEMMA ExpiryKeeps ==
  ASSUME SliderInv, NEW n \in Numbers, PacketExpires(n)
  PROVE  SliderInv'
<1>1. /\ running' = running /\ link_recv' = link_recv /\ opened' = opened /\ answers' = answers
      /\ packets' \subseteq packets /\ ack_counter' = ack_counter /\ ack_delay' = ack_delay
      /\ dataout' = dataout
      /\ UNCHANGED <<last_packet, pkt_bufs, history, oldest, acked, next>>
  BY DEF PacketExpires, q330_vars, q330_side
<1>2. Quiet'
  BY <1>1 DEF SliderInv, Quiet
<1>3. running \in BOOLEAN /\ link_recv \in BOOLEAN /\ opened \in BOOLEAN /\ ack_delay \in BOOLEAN
  BY DEF SliderInv, SliderTypeOK
<1> QED BY <1>1, <1>2, <1>3, TimerKeeps

(* A packet arrives.                                                       *)
LEMMA PacketKeeps ==
  ASSUME SliderInv, NEW n \in Numbers, PacketArrives(n)
  PROVE  /\ SliderInv'
         /\ \/ taken' = taken
            \/ \E count \in 0 .. next - position :
                 taken' = taken \o [i \in 1 .. count |-> position + i - 1]
<1>1. /\ n \in Nat /\ n \in packets /\ n + Lifetime >= position
      /\ packets' \subseteq packets /\ UNCHANGED q330_side
  BY Sizes DEF Numbers, PacketArrives
<1>2. CASE ~ link_recv \/ ~ running
  <2>1. UNCHANGED <<q330_vars, history, answers>>
    BY <1>2 DEF PacketArrives, process_data
  <2>2. Quiet'
    BY <1>1, <2>1 DEF SliderInv, Quiet, q330_vars, q330_side
  <2>3. /\ UNCHANGED <<last_packet, pkt_bufs, history, oldest, acked, next, link_recv, opened, ack_delay,
                      ack_counter, dataout, answers, running>>
        /\ running \in BOOLEAN /\ link_recv \in BOOLEAN /\ opened \in BOOLEAN /\ ack_delay \in BOOLEAN
    BY <1>1, <2>1 DEF SliderInv, SliderTypeOK, q330_vars, q330_side
  <2>4. SliderInv'
    BY <1>1, <2>2, <2>3, TimerKeeps
  <2> QED BY <2>1, <2>4 DEF history
<1>3. CASE link_recv /\ running
  <2> DEFINE bufs == IF InWindow(Seq16(n)) THEN [pkt_bufs EXCEPT ![Slot(Seq16(n))] = n] ELSE pkt_bufs
  <2>1. send_dack(bufs) /\ UNCHANGED <<running, link_recv>>
    BY <1>3 DEF PacketArrives, process_data
  <2>2. /\ Fits(bufs, position)
        /\ \A k \in Nat : k >= position /\ pkt_bufs[Slot(k)] = k => bufs[Slot(k)] = k
    BY <1>1, <1>3, StoredFits
  <2> HIDE DEF bufs
  <2> QED BY <1>1, <1>3, <2>1, <2>2, ReceiverKeeps
<1> QED BY <1>2, <1>3

(* The link parameters: the window is empty, at the oldest packet.         *)
LEMMA ResetKeeps ==
  ASSUME SliderInv, reset_link
  PROVE  SliderInv' /\ oldest \in 0 .. position
<1>1. /\ oldest \in Nat /\ next \in Nat /\ oldest <= next /\ next <= oldest + Window
      /\ position \in Nat /\ oldest <= position
  BY PositionType, Sizes DEF SliderInv, SliderTypeOK, Near
<1>2. /\ taken' = << >> /\ first' = oldest /\ position' = oldest
      /\ last_packet' = Seq16(oldest) /\ oldest' = oldest /\ next' = next
      /\ pkt_bufs' = [s \in Slots |-> NoPacket] /\ acked' = {} /\ ack_delay' = FALSE
      /\ link_recv' = TRUE
  BY <1>1 DEF reset_link, position
<1>3. /\ packets = {} /\ answers = {} /\ ~ opened
      /\ UNCHANGED <<running, dataout, opened, packets, answers>>
  BY DEF reset_link, SliderInv, Quiet, network
<1>4. SliderTypeOK'
  <2>1. Seq16(oldest) \in 0 .. SeqMod - 1
    BY <1>1, SequenceType
  <2>2. ack_counter' \in 0 .. AckCount - 1
    BY Sizes DEF reset_link
  <2>3. /\ running \in BOOLEAN /\ opened \in BOOLEAN /\ dataout \in Acks \union {DT_OPEN}
        /\ pkt_bufs' \in [Slots -> Nat \union {NoPacket}]
    BY <1>2 DEF SliderInv, SliderTypeOK
  <2>4. taken' \in Seq(Nat)
    BY <1>2
  <2> QED BY <1>1, <1>2, <1>3, <2>1, <2>2, <2>3, <2>4 DEF SliderTypeOK
<1>5. Aligned' /\ Quiet' /\ Truthful'
  BY <1>2, <1>3 DEF Aligned, Quiet, Truthful
<1>6. Near'
  BY <1>1, <1>2, <1>3 DEF Near
<1>7. SlotsHoldWindow' /\ TakenInOrder'
  BY <1>2 DEF SlotsHoldWindow, TakenInOrder
<1> QED BY <1>1, <1>4, <1>5, <1>6, <1>7 DEF SliderInv

-----------------------------------------------------------------------------
(* The Q330.                                                               *)

(* A packet is sent, for the first time or again.                          *)
LEMMA SendKeeps ==
  ASSUME SliderInv, NEW n \in Numbers, Q330Sends(n)
  PROVE  SliderInv' /\ next' \in {next, next + 1}
<1>1. /\ UNCHANGED <<q330_vars, history, opened, oldest, acked, answers>>
      /\ oldest \in Nat /\ next \in Nat /\ n \in Nat /\ opened
      /\ n \in oldest .. next /\ n < oldest + Window
      /\ next' = IF n = next THEN next + 1 ELSE next
      /\ packets' \subseteq packets \union {n}
      /\ oldest <= position /\ position <= next /\ next <= oldest + Window
  BY Sizes DEF Q330Sends, SliderInv, SliderTypeOK, Numbers, Near
<1>2. next' \in Nat /\ next <= next' /\ n < next' /\ next' <= oldest + Window
  BY <1>1, Sizes
<1>3. /\ position' = position /\ position \in Nat
      /\ \A k : Kept(k) => Kept(k)'
      /\ \A m : Honest(m) => Honest(m)'
  BY <1>1, StaysKept, PositionType DEF q330_vars
<1>4. SliderTypeOK'
  BY <1>1, <1>2 DEF SliderInv, SliderTypeOK, q330_vars, history
<1>5. Near'
  <2>1. \A k \in packets' : k < next'
    BY <1>1, <1>2 DEF SliderInv, SliderTypeOK, Near
  <2>2. \A s \in Slots : pkt_bufs'[s] # NoPacket => pkt_bufs'[s] < next'
    <3>1. \A s \in Slots : pkt_bufs[s] \in Nat \union {NoPacket}
      BY DEF SliderInv, SliderTypeOK
    <3>2. \A s \in Slots : pkt_bufs[s] # NoPacket => pkt_bufs[s] < next
      BY DEF SliderInv, Near
    <3> QED BY <1>1, <1>2, <3>1, <3>2 DEF q330_vars
  <2> QED BY <1>1, <1>2, <1>3, <2>1, <2>2 DEF Near
<1>6. Aligned' /\ Quiet'
  BY <1>1, <1>3 DEF SliderInv, Aligned, Quiet, q330_vars
<1>7. Truthful'
  <2>1. Honest(dataout) => Honest(dataout)'
    BY <1>1, <1>3 DEF Honest, Kept, q330_vars
  <2>2. \A m \in answers' : m # DT_OPEN => Honest(m)'
    BY <1>1, <1>3 DEF SliderInv, Truthful
  <2>3. \A k \in acked' : Kept(k)'
    BY <1>1, <1>3 DEF SliderInv, Truthful
  <2>4. link_recv' /\ ack_delay' /\ dataout' # DT_OPEN => Honest(dataout)
    BY <1>1 DEF SliderInv, Truthful, q330_vars
  <2> QED BY <2>1, <2>2, <2>3, <2>4 DEF Truthful
<1>8. SlotsHoldWindow' /\ TakenInOrder'
  BY <1>1, <1>3 DEF SliderInv, SlotsHoldWindow, TakenInOrder, q330_vars, history
<1> QED BY <1>1, <1>4, <1>5, <1>6, <1>7, <1>8 DEF SliderInv

(* An acknowledgement that the Q330 understands is for the packet the      *)
(* receiver meant: within the lifetime of messages one packet only has     *)
(* its sequence number.                                                    *)
LEMMA LowMeans ==
  ASSUME SliderInv, NEW m, Honest(m), m.at + Lifetime >= position,
         NEW n \in oldest - 1 .. next - 1, n % SeqMod = m.low
  PROVE  n = m.at - 1
<1>1. /\ oldest \in Nat /\ next \in Nat /\ position \in Nat /\ m.at \in Nat /\ m.at <= position
      /\ oldest <= position /\ position <= next /\ next <= oldest + Window
  BY PositionType DEF SliderInv, SliderTypeOK, Near, Honest
<1> DEFINE a == m.at - 1
           one == 1
<1>2. a \in Int /\ n \in Int /\ one \in Int /\ m.at + SeqMod - 1 = a + SeqMod * one
  BY <1>1, Sizes
<1>3. n % SeqMod = a % SeqMod
  <2> HIDE DEF a, one
  <2>1. (a + SeqMod * one) % SeqMod = a % SeqMod
    BY <1>2, Sizes, AddedTurns
  <2> QED BY <1>2, <2>1 DEF Honest, Seq16
<1>4. n - a < SeqMod /\ a - n < SeqMod
  BY <1>1, Sizes
<1> HIDE DEF a
<1>5. n = a
  BY <1>2, <1>3, <1>4, Sizes, NearEqual
<1> QED BY <1>5 DEF a

(* A DT_OPEN or an acknowledgement arrives.                                *)
LEMMA AnswerKeeps ==
  ASSUME SliderInv, NEW m \in answers, AnswerArrives(m)
  PROVE  SliderInv'
<1>1. /\ UNCHANGED <<q330_vars, history, next, packets>> /\ answers' \subseteq answers
      /\ oldest \in Nat /\ acked \subseteq Nat
  BY DEF AnswerArrives, SliderInv, SliderTypeOK
<1>2. /\ position' = position /\ position \in Nat
      /\ \A k : Kept(k) => Kept(k)'
      /\ \A a : Honest(a) => Honest(a)'
  BY <1>1, StaysKept, PositionType DEF q330_vars
<1>3. link_recv
  BY DEF SliderInv, SliderTypeOK, Quiet
<1>4. opened' \in BOOLEAN
  BY DEF AnswerArrives, SliderInv, SliderTypeOK
<1>5. /\ oldest' \in Nat /\ oldest <= oldest' /\ oldest' <= position
      /\ acked' \subseteq Nat /\ \A k \in acked' : Kept(k)
  <2>1. CASE UNCHANGED <<oldest, acked>>
    BY <2>1, <1>1 DEF SliderInv, Truthful, Near
  <2>2. CASE ~ UNCHANGED <<oldest, acked>>
    <3>1. PICK n \in oldest - 1 .. next - 1 :
            /\ n % SeqMod = m.low /\ m # DT_OPEN /\ m.at + Lifetime >= position
            /\ oldest' = n + 1
            /\ acked' = (acked \union {n + i : i \in m.map}) \ (0 .. n)
      BY <2>2 DEF AnswerArrives
    <3>2. Honest(m)
      BY <3>1 DEF SliderInv, Truthful
    <3>3. n = m.at - 1 /\ m.at \in Nat /\ m.at <= position
      BY <3>1, <3>2, LowMeans DEF Honest
    <3>4. ASSUME NEW i \in m.map PROVE n + i \in Nat /\ Kept(n + i)
      <4>1. i \in 1 .. WINWRAP /\ Kept(m.at + i - 1)
        BY <3>2 DEF Honest
      <4>2. m.at + i - 1 = n + i /\ n + i \in Nat
        BY <4>1, <3>3, Sizes
      <4> QED BY <4>1, <4>2
    <3>5. \A k \in acked : Kept(k)
      BY DEF SliderInv, Truthful
    <3>6. oldest' \in Nat /\ oldest <= oldest' /\ oldest' <= position
      BY <3>1, <3>3, <1>1
    <3>7. acked' \subseteq Nat /\ \A k \in acked' : Kept(k)
      BY <3>1, <3>4, <3>5, <1>1
    <3> QED BY <3>6, <3>7
  <2> QED BY <2>1, <2>2
<1>6. SliderTypeOK'
  BY <1>1, <1>4, <1>5 DEF SliderInv, SliderTypeOK, q330_vars, history
<1>7. Near'
  <2>1. next' = next /\ next \in Nat /\ position <= next /\ next <= oldest + Window
    BY <1>1 DEF SliderInv, SliderTypeOK, Near
  <2>2. next <= oldest' + Window
    <3>1. oldest \in Nat /\ oldest' \in Nat /\ oldest <= oldest' /\ Window \in Nat
      BY <1>1, <1>5, Sizes
    <3>2. \A a, b, c, w \in Nat : a <= b + w /\ b <= c => a <= c + w
      OBVIOUS
    <3> QED BY <2>1, <3>1, <3>2
  <2> QED BY <2>1, <2>2, <1>1, <1>2, <1>5 DEF SliderInv, Near, q330_vars
<1>8. Aligned' /\ Quiet'
  BY <1>1, <1>2, <1>3 DEF SliderInv, Aligned, Quiet, q330_vars
<1>9. Truthful'
  <2>1. Honest(dataout) => Honest(dataout)'
    BY <1>1, <1>2 DEF Honest, Kept, q330_vars
  <2>2. \A a \in answers' : a # DT_OPEN => Honest(a)'
    BY <1>1, <1>2 DEF SliderInv, Truthful
  <2>3. \A k \in acked' : Kept(k)'
    BY <1>2, <1>5
  <2>4. link_recv' /\ ack_delay' /\ dataout' # DT_OPEN => Honest(dataout)
    BY <1>1 DEF SliderInv, Truthful, q330_vars
  <2> QED BY <2>1, <2>2, <2>3, <2>4 DEF Truthful
<1>10. SlotsHoldWindow' /\ TakenInOrder'
  BY <1>1, <1>2 DEF SliderInv, SlotsHoldWindow, TakenInOrder, q330_vars, history
<1> QED BY <1>6, <1>7, <1>8, <1>9, <1>10 DEF SliderInv

-----------------------------------------------------------------------------
(* All together.                                                           *)

(* The first state.                                                        *)
LEMMA SliderBegins == ASSUME Init PROVE SliderInv
<1>1. position = FirstPacket
  BY Sizes DEF Init, position
<1>2. SliderTypeOK
  <2>1. 0 \in 0 .. SeqMod - 1 /\ 0 \in 0 .. AckCount - 1 /\ FirstPacket \in Nat
    BY Sizes
  <2>2. << >> \in Seq(Nat) /\ {} \subseteq Nat
    OBVIOUS
  <2>3. [s \in Slots |-> NoPacket] \in [Slots -> Nat \union {NoPacket}]
    OBVIOUS
  <2> QED BY <2>1, <2>2, <2>3 DEF Init, SliderTypeOK
<1>3. Aligned /\ Quiet /\ Near /\ Truthful
  BY <1>1, Sizes DEF Init, Aligned, Quiet, Near, Truthful
<1>4. SlotsHoldWindow /\ TakenInOrder
  BY DEF Init, SlotsHoldWindow, TakenInOrder
<1> QED BY <1>2, <1>3, <1>4 DEF SliderInv

(* Every step.                                                             *)
LEMMA SliderSteps == ASSUME SliderInv, [Next]_vars PROVE SliderInv'
<1>1. CASE StartRun \/ StopRun \/ AckTimeout \/ dack_out \/ Reregister
  BY <1>1, HostKeeps
<1>2. CASE reset_link
  BY <1>2, ResetKeeps
<1>3. CASE \E n \in Numbers : PacketArrives(n) \/ PacketExpires(n) \/ Q330Sends(n)
  BY <1>3, PacketKeeps, ExpiryKeeps, SendKeeps
<1>4. CASE \E m \in answers : AnswerArrives(m)
  BY <1>4, AnswerKeeps
<1>5. CASE UNCHANGED vars
  <2>1. /\ UNCHANGED <<pkt_bufs, history, last_packet, running, link_recv, ack_counter, ack_delay, dataout>>
        /\ UNCHANGED <<opened, oldest, acked, next, packets, answers, first, taken>>
    BY <1>5 DEF vars, q330_vars, history, q330_side, network
  <2> QED BY <2>1 DEF SliderInv, SliderTypeOK, Aligned, Quiet, Near, Truthful, SlotsHoldWindow, TakenInOrder,
                      Honest, Kept, position
<1> QED BY <1>1, <1>2, <1>3, <1>4, <1>5 DEF Next

(* The invariant holds of every behaviour.                                 *)
THEOREM SliderInvariant == Spec => []SliderInv
<1>1. Init => SliderInv
  BY SliderBegins
<1>2. SliderInv /\ [Next]_vars => SliderInv'
  BY SliderSteps
<1> QED BY <1>1, <1>2, PTL DEF Spec

(* The variables of the receiver, the Q330 and the network have their      *)
(* types, whatever the sizes: no sequence number leaves its 16 bits and no *)
(* slot the ring.                                                          *)
THEOREM SliderTypes == Spec => []SliderTypeOK
<1>1. SliderInv => SliderTypeOK
  BY DEF SliderInv
<1> QED BY <1>1, SliderInvariant, PTL

(* A valid buffer holds a packet of the window that now begins             *)
(* (process_data), for any ring at least as large as the window.           *)
THEOREM BuffersHoldWindow == Spec => []SlotsHoldWindow
<1>1. SliderInv => SlotsHoldWindow
  BY DEF SliderInv
<1> QED BY <1>1, SliderInvariant, PTL

(* Packets are processed in order, none twice and none left out            *)
(* (send_dack), over any network.                                          *)
THEOREM PacketsInOrder == Spec => []TakenInOrder
<1>1. SliderInv => TakenInOrder
  BY DEF SliderInv
<1> QED BY <1>1, SliderInvariant, PTL

(* The Q330 gives up no packet that the receiver does not have: an         *)
(* acknowledgement, however old, says nothing that is no longer true.      *)
THEOREM AcknowledgedIsKept == Spec => []AckedIsKept
<1>1. SliderInv => AckedIsKept
  BY PositionType DEF SliderInv, SliderTypeOK, Near, Truthful, AckedIsKept, Kept
<1> QED BY <1>1, SliderInvariant, PTL

-----------------------------------------------------------------------------
(* The refinement.                                                         *)

(* Every step of the link is one of the stream, or none.                   *)
LEMMA StepsOfStream ==
  ASSUME SliderInv, [Next]_vars
  PROVE  [Abstract!Next]_<<next, first, taken>>
<1>1. /\ next \in Nat /\ first \in Nat /\ taken \in Seq(Nat) /\ position \in Nat
      /\ position = first + Len(taken)
  BY PositionType DEF SliderInv, SliderTypeOK, position
<1>2. CASE StartRun \/ StopRun \/ AckTimeout \/ dack_out \/ Reregister
  BY <1>2 DEF StartRun, StopRun, AckTimeout, dack_out, Reregister, history, q330_side
<1>3. CASE reset_link
  <2>1. oldest \in 0 .. position /\ first' = oldest /\ taken' = << >> /\ next' = next
    BY <1>3, ResetKeeps DEF reset_link
  <2> QED BY <2>1, <1>1 DEF Abstract!Next, Abstract!Restart
<1>4. ASSUME NEW n \in Numbers, PacketArrives(n)
      PROVE  [Abstract!Next]_<<next, first, taken>>
  <2>1. next' = next /\ first' = first
    BY <1>4 DEF PacketArrives, process_data, send_dack, q330_side, history
  <2>2. CASE taken' = taken
    BY <2>1, <2>2
  <2>3. CASE taken' # taken
    <3>1. PICK count \in 0 .. next - position :
            taken' = taken \o [i \in 1 .. count |-> position + i - 1]
      BY <1>4, <2>3, PacketKeeps
    <3>2. count # 0
      <4> SUFFICES ASSUME count = 0 PROVE FALSE
        OBVIOUS
      <4>1. [i \in 1 .. count |-> position + i - 1] = << >>
        OBVIOUS
      <4> QED BY <3>1, <4>1, <2>3, <1>1, ConcatEmptySeq
    <3>3. count \in 1 .. next - position
      BY <3>1, <3>2, <1>1
    <3> QED BY <2>1, <3>1, <3>3, <1>1 DEF Abstract!Next, Abstract!Consume
  <2> QED BY <2>2, <2>3
<1>5. ASSUME NEW n \in Numbers, PacketExpires(n)
      PROVE  [Abstract!Next]_<<next, first, taken>>
  BY <1>5 DEF PacketExpires, history, q330_side
<1>6. ASSUME NEW n \in Numbers, Q330Sends(n)
      PROVE  [Abstract!Next]_<<next, first, taken>>
  <2>1. next' \in {next, next + 1} /\ first' = first /\ taken' = taken
    BY <1>6, SendKeeps DEF Q330Sends, history
  <2> QED BY <2>1 DEF Abstract!Next, Abstract!Produce
<1>7. ASSUME NEW m \in answers, AnswerArrives(m)
      PROVE  [Abstract!Next]_<<next, first, taken>>
  BY <1>7 DEF AnswerArrives, history
<1>8. CASE UNCHANGED vars
  BY <1>8 DEF vars, history, q330_side
<1> QED BY <1>2, <1>3, <1>4, <1>5, <1>6, <1>7, <1>8 DEF Next

(* The data link implements Stream, for any sizes: what the Q330 makes is  *)
(* consumed in order and completely, and a registration goes back to       *)
(* packets the Q330 still has, never forward.                              *)
THEOREM LinkImplementsStream == Spec => ImplementsStream
<1>1. Init => Abstract!Init
  BY Sizes DEF Init, Abstract!Init
<1>2. SliderInv /\ [Next]_vars => [Abstract!Next]_<<next, first, taken>>
  BY StepsOfStream
<1> QED BY <1>1, <1>2, SliderInvariant, PTL DEF Spec, ImplementsStream, Abstract!Spec
=============================================================================
