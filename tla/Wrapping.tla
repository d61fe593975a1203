------------------------------ MODULE Wrapping ------------------------------
(***************************************************************************)
(* Lemmas on numbers that wrap and on bounded sets of numbers, for the     *)
(* proofs about sequence numbers and rings, and on streams of bytes that   *)
(* packets are made of.                                                    *)
(***************************************************************************)
EXTENDS Integers, Sequences, FiniteSetTheorems, SequenceTheorems, WellFoundedInduction, TLAPS

(* A set of numbers up to n has a largest.                                 *)
LEMMA Largest ==
  ASSUME NEW n \in Nat, NEW T \in SUBSET (0 .. n), T # {}
  PROVE  \E m \in T : \A k \in T : k <= m
<1> DEFINE W == {k .. n : k \in T}
<1>1. W \subseteq FiniteSubsetsOf(Nat) /\ W # {}
  <2>1. \A k \in T : k .. n \in FiniteSubsetsOf(Nat)
    <3> SUFFICES ASSUME NEW k \in T PROVE k .. n \in FiniteSubsetsOf(Nat)
      OBVIOUS
    <3>1. IsFiniteSet(k .. n)
      BY FS_Interval
    <3>2. k .. n \subseteq Nat
      OBVIOUS
    <3> QED BY <3>1, <3>2 DEF FiniteSubsetsOf
  <2> QED BY <2>1
<1> HIDE DEF W
<1>2. PICK x \in W : \A y \in W : ~ (<<y, x>> \in StrictSubsetOrdering(Nat))
  BY <1>1, FS_StrictSubsetOrderingWellFounded, WFMin
<1>3. PICK m \in T : x = m .. n
  BY DEF W
<1>4. ASSUME NEW k \in T, k > m PROVE FALSE
  <2>1. k .. n \in W
    BY DEF W
  <2>2. k .. n \subseteq m .. n /\ k .. n # m .. n
    <3>1. m \in m .. n /\ m \notin k .. n
      BY <1>4
    <3> QED BY <3>1, <1>4
  <2>3. <<k .. n, m .. n>> \in StrictSubsetOrdering(Nat)
    BY <2>2 DEF StrictSubsetOrdering
  <2> QED BY <2>1, <2>3, <1>2, <1>3
<1> QED BY <1>4

(* Numbers less than m apart with the same remainder are the same.         *)
LEMMA NearEqual ==
  ASSUME NEW m \in Nat \ {0}, NEW a \in Int, NEW b \in Int, a % m = b % m,
         a - b < m, b - a < m
  PROVE  a = b
<1> DEFINE qa == a \div m
           qb == b \div m
<1>1. qa \in Int /\ qb \in Int /\ a = m * qa + (a % m) /\ b = m * qb + (b % m)
  OBVIOUS
<1> HIDE DEF qa, qb
<1>2. a - b = m * (qa - qb)
  BY <1>1
<1>3. qa - qb < 1
  <2> SUFFICES ASSUME qa - qb >= 1 PROVE FALSE
    BY <1>1
  <2>1. m * (qa - qb) >= m * 1
    BY <1>1
  <2> QED BY <2>1, <1>2
<1>4. qa - qb > -1
  <2> SUFFICES ASSUME qb - qa >= 1 PROVE FALSE
    BY <1>1
  <2>1. m * (qb - qa) >= m * 1
    BY <1>1
  <2>2. m * (qb - qa) = b - a
    BY <1>1
  <2> QED BY <2>1, <2>2
<1> QED BY <1>1, <1>2, <1>3, <1>4

(* Remainders are below the divisor.                                       *)
LEMMA ModRange ==
  ASSUME NEW m \in Nat \ {0}, NEW a \in Int
  PROVE  a % m \in 0 .. m - 1
OBVIOUS

(* Whole turns do not show.                                                *)
LEMMA AddedTurns ==
  ASSUME NEW m \in Nat \ {0}, NEW a \in Int, NEW k \in Int
  PROVE  (a + m * k) % m = a % m
<1> DEFINE q == a \div m
           r == a % m
           p == (a + m * k) \div m
           s == (a + m * k) % m
<1>1. q \in Int /\ a = m * q + r /\ r \in 0 .. m - 1
  OBVIOUS
<1>0. a + m * k \in Int
  OBVIOUS
<1>2. p \in Int /\ a + m * k = m * p + s /\ s \in 0 .. m - 1
  BY <1>0
<1> HIDE DEF p, q, r, s
<1>3. m * (q + k - p) = s - r
  BY <1>1, <1>2
<1>4. q + k - p < 1
  <2> SUFFICES ASSUME q + k - p >= 1 PROVE FALSE
    BY <1>1, <1>2
  <2>1. m * (q + k - p) >= m * 1
    BY <1>1, <1>2
  <2> QED BY <2>1, <1>1, <1>2, <1>3
<1>5. q + k - p > -1
  <2> SUFFICES ASSUME p - q - k >= 1 PROVE FALSE
    BY <1>1, <1>2
  <2>1. m * (p - q - k) >= m * 1
    BY <1>1, <1>2
  <2>2. m * (p - q - k) = r - s
    BY <1>1, <1>2
  <2> QED BY <2>1, <2>2, <1>1, <1>2
<1>6. q + k - p = 0
  BY <1>1, <1>2, <1>4, <1>5
<1>7. s = r
  BY <1>3, <1>6, <1>1, <1>2
<1> QED BY <1>7 DEF s, r

(* Nor does one.                                                           *)
LEMMA AddedTurn ==
  ASSUME NEW m \in Nat \ {0}, NEW a \in Int
  PROVE  (a + m) % m = a % m
<1> DEFINE k == 1
<1>1. k \in Int /\ m * k = m
  OBVIOUS
<1> HIDE DEF k
<1>2. (a + m * k) % m = a % m
  BY <1>1, AddedTurns
<1> QED BY <1>1, <1>2

(* A remainder may be taken before as well as after an addition, also that *)
(* of a multiple of the divisor: the sequence numbers of the slots.        *)
LEMMA RemainderFirst ==
  ASSUME NEW m \in Nat \ {0}, NEW b \in Nat \ {0}, m % b = 0,
         NEW a \in Int, NEW j \in Int
  PROVE  ((a % m) + j) % b = (a + j) % b
<1> DEFINE q == a \div m
           c == m \div b
<1>1. q \in Int /\ a % m \in Int /\ a = m * q + (a % m)
  OBVIOUS
<1>2. c \in Int /\ m = b * c + (m % b)
  OBVIOUS
<1> HIDE DEF q, c
<1>3. m = b * c
  BY <1>2
<1>4. m * q = b * (c * q) /\ c * q \in Int
  BY <1>1, <1>2, <1>3
<1> DEFINE k == c * q
           x == (a % m) + j
<1>5. k \in Int /\ b * k = m * q
  BY <1>4
<1> HIDE DEF k
<1>6. x \in Int /\ a + j = x + b * k
  <2> DEFINE turns == m * q
             r == a % m
  <2>1. turns \in Int /\ r \in Int /\ a = turns + r /\ b * k = turns
    BY <1>1, <1>5
  <2> HIDE DEF turns, r
  <2>2. r + j \in Int /\ a + j = (r + j) + b * k
    BY <2>1
  <2> QED BY <2>2 DEF r
<1> HIDE DEF x
<1>7. (x + b * k) % b = x % b
  BY <1>5, <1>6, AddedTurns
<1> QED BY <1>6, <1>7 DEF x

(* The remainder of a number less than one turn away.                      *)
LEMMA OneTurn ==
  ASSUME NEW m \in Nat \ {0}, NEW x \in Int
  PROVE  /\ x \in 0 .. m - 1 => x % m = x
         /\ x \in m .. 2 * m - 1 => x % m = x - m
         /\ x \in -m .. -1 => x % m = x + m
<1>1. ASSUME NEW y \in 0 .. m - 1 PROVE y % m = y
  OBVIOUS
<1>2. ASSUME x \in m .. 2 * m - 1 PROVE x % m = x - m
  <2> DEFINE y == x - m
             k == 1
  <2>1. y \in 0 .. m - 1 /\ y \in Int /\ k \in Int /\ x = y + m * k
    BY <1>2
  <2> HIDE DEF y, k
  <2>2. (y + m * k) % m = y % m
    BY <2>1, AddedTurns
  <2> QED BY <2>1, <2>2, <1>1 DEF y
<1>3. ASSUME x \in -m .. -1 PROVE x % m = x + m
  <2> DEFINE y == x + m
             k == -1
  <2>1. y \in 0 .. m - 1 /\ y \in Int /\ k \in Int /\ x = y + m * k
    BY <1>3
  <2> HIDE DEF y, k
  <2>2. (y + m * k) % m = y % m
    BY <2>1, AddedTurns
  <2> QED BY <2>1, <2>2, <1>1 DEF y
<1> QED BY <1>1, <1>2, <1>3

(* And a number may be reduced to its slot of a ring before it is added to. *)
LEMMA SlotFirst ==
  ASSUME NEW m \in Nat \ {0}, NEW a \in Int, NEW j \in Int
  PROVE  ((a % m) + j) % m = (a + j) % m
<1> DEFINE q == a \div m
           x == (a % m) + j
<1>1. q \in Int /\ a % m \in Int /\ a = m * q + (a % m)
  OBVIOUS
<1>2. x \in Int /\ a + j = x + m * q
  BY <1>1
<1> HIDE DEF q, x
<1>3. (x + m * q) % m = x % m
  BY <1>1, <1>2, AddedTurns
<1> QED BY <1>2, <1>3 DEF x

-----------------------------------------------------------------------------
(* Streams of bytes of which packets are made, each behind a header of H      *)
(* bytes.  A byte is <<p, j>>: number j of packet p, the header being first.  *)
(* s[p] is the length of packet p, and the packets before packet k are gone.  *)

Header(H) == H \in Nat /\ H > 0

\* off[p] is what lies ahead of packet p.
Offsets(H, off, s, k) ==
  /\ off \in [k .. Len(s) + 1 -> Nat] /\ off[k] = 0
  /\ \A p \in k .. Len(s) : off[p + 1] = off[p] + H + s[p]
  /\ \A p, q \in k .. Len(s) + 1 : p <= q => off[p] <= off[q]

\* buf and what follows it are bytes of these packets.
ByteAt(buf, rest, i) == IF i <= Len(buf) THEN buf[i] ELSE rest[i - Len(buf)]

Framed(H, off, s, k, buf, rest) ==
  /\ Len(buf) + Len(rest) <= off[Len(s) + 1]
  /\ \A p \in k .. Len(s) : \A j \in 1 .. H + s[p] :
       off[p] + j <= Len(buf) + Len(rest) => ByteAt(buf, rest, off[p] + j) = <<p, j>>

\* There are packets of these sizes from k on, T bytes long in all.
Streamed(H, s, k, a, b, T) ==
  \E off : Offsets(H, off, s, k) /\ Framed(H, off, s, k, a, b) /\ off[Len(s) + 1] = T

\* What is in c and d is the beginning of what is in a and b.
First(a, b, c, d) ==
  /\ Len(a) + Len(b) \in Nat /\ Len(c) + Len(d) \in Nat /\ Len(c) + Len(d) <= Len(a) + Len(b)
  /\ \A i \in 1 .. Len(c) + Len(d) : ByteAt(c, d, i) = ByteAt(a, b, i)

\* Bytes that go from the stream to the buffer, or are lost behind it, are
\* still those of the packets that are next.
LEMMA StreamGoesOn ==
  ASSUME NEW H, Header(H), NEW s \in Seq(Nat), NEW k \in 1 .. Len(s) + 1, NEW E,
         NEW a, NEW b, NEW c, NEW d, Streamed(H, s, k, a, b, E), First(a, b, c, d)
  PROVE  Streamed(H, s, k, c, d, E)
<1>h. H \in Nat /\ H > 0
  BY DEF Header
<1> PICK off : Offsets(H, off, s, k) /\ Framed(H, off, s, k, a, b) /\ off[Len(s) + 1] = E
  BY DEF Streamed
<1> DEFINE n == Len(s)  T == Len(a) + Len(b)  U == Len(c) + Len(d)
<1>a. n \in Nat /\ k \in Nat /\ k <= n + 1 /\ k >= 1
  OBVIOUS
<1>b. off \in [k .. n + 1 -> Nat]
  BY DEF Offsets
<1>c. T <= off[n + 1] /\ T \in Nat /\ U \in Nat /\ U <= T
  BY DEF Framed, First
<1>d. \A p \in k .. n : \A j \in 1 .. H + s[p] :
        off[p] + j <= T => ByteAt(a, b, off[p] + j) = <<p, j>>
  BY DEF Framed
<1>e. \A i \in 1 .. U : ByteAt(c, d, i) = ByteAt(a, b, i)
  BY DEF First
<1>s. \A p \in 1 .. n : s[p] \in Nat
  OBVIOUS
<1> HIDE DEF n, T, U
<1>n. n + 1 \in k .. n + 1 /\ \A p \in k .. n : p \in 1 .. n /\ p \in k .. n + 1
  BY <1>a
<1>1. \A p \in k .. n : s[p] \in Nat /\ off[p] \in Nat
  BY <1>b, <1>n, <1>s
<1>2. U <= off[n + 1]
  <2>1. off[n + 1] \in Nat
    BY <1>b, <1>n
  <2> QED
    BY <1>c, <2>1
<1>3. ASSUME NEW p \in k .. n, NEW j \in 1 .. H + s[p], off[p] + j <= U
      PROVE  ByteAt(c, d, off[p] + j) = <<p, j>>
  <2>1. off[p] \in Nat /\ j \in Nat /\ j >= 1
    BY <1>1, <1>h
  <2>2. off[p] + j \in 1 .. U /\ off[p] + j <= T
    BY SMTT(20), <1>c, <1>3, <2>1
  <2>3. ByteAt(a, b, off[p] + j) = <<p, j>>
    BY <1>d, <2>2
  <2> QED
    BY <1>e, <2>2, <2>3
<1>4. Framed(H, off, s, k, c, d)
  BY <1>2, <1>3 DEF Framed, n, U
<1> QED
  BY <1>4 DEF Streamed

\* u bytes less are in c and d than in a and b, at their beginning.
Ahead(u, a, b, c, d) ==
  /\ Len(a) + Len(b) \in Nat /\ Len(c) + Len(d) \in Nat /\ Len(c) + Len(d) + u <= Len(a) + Len(b)
  /\ \A i \in 1 .. Len(c) + Len(d) : ByteAt(c, d, i) = ByteAt(a, b, i + u)

\* Packet p, of length l, is in c behind all that is in b.
Behind(H, p, l, a, b, c) ==
  /\ Len(a) + Len(b) \in Nat /\ Len(a) + Len(c) = Len(a) + Len(b) + H + l
  /\ \A i \in 1 .. Len(a) + Len(b) : ByteAt(a, c, i) = ByteAt(a, b, i)
  /\ \A j \in 1 .. H + l : ByteAt(a, c, Len(a) + Len(b) + j) = <<p, j>>

\* When the packet that is next is taken, the one behind it is.
LEMMA PacketGoes ==
  ASSUME NEW H, Header(H), NEW s \in Seq(Nat), NEW k \in 1 .. Len(s), NEW u, u = H + s[k], NEW E,
         NEW a, NEW b, NEW c, NEW d, Streamed(H, s, k, a, b, E), Ahead(u, a, b, c, d)
  PROVE  Streamed(H, s, k + 1, c, d, E - u)
<1>h. H \in Nat /\ H > 0
  BY DEF Header
<1> PICK off : Offsets(H, off, s, k) /\ Framed(H, off, s, k, a, b) /\ off[Len(s) + 1] = E
  BY DEF Streamed
<1> DEFINE n == Len(s)  T == Len(a) + Len(b)  U == Len(c) + Len(d)
           next == [p \in k + 1 .. n + 1 |-> off[p] - u]
<1>a. n \in Nat /\ k \in Nat /\ k <= n /\ k >= 1
  OBVIOUS
<1>b. off \in [k .. n + 1 -> Nat] /\ off[k] = 0
  BY DEF Offsets
<1>c. \A p \in k .. n : off[p + 1] = off[p] + H + s[p]
  BY DEF Offsets
<1>d. \A p, q \in k .. n + 1 : p <= q => off[p] <= off[q]
  BY DEF Offsets
<1>e. T <= off[n + 1] /\ T \in Nat /\ U \in Nat /\ U + u <= T
  BY DEF Framed, Ahead
<1>f. \A p \in k .. n : \A j \in 1 .. H + s[p] :
        off[p] + j <= T => ByteAt(a, b, off[p] + j) = <<p, j>>
  BY DEF Framed
<1>g. \A i \in 1 .. U : ByteAt(c, d, i) = ByteAt(a, b, i + u)
  BY DEF Ahead
<1>s. \A p \in 1 .. n : s[p] \in Nat
  OBVIOUS
<1> HIDE DEF n, T, U
<1>n. /\ k \in k .. n /\ k + 1 \in k + 1 .. n + 1 /\ n + 1 \in k + 1 .. n + 1
      /\ \A p \in k .. n : p \in 1 .. n /\ p \in k .. n + 1 /\ p + 1 \in k .. n + 1
      /\ \A p \in k + 1 .. n + 1 : p \in k .. n + 1 /\ k + 1 <= p
      /\ \A p \in k + 1 .. n : p \in k .. n /\ p \in k + 1 .. n + 1 /\ p + 1 \in k + 1 .. n + 1
  BY <1>a
<1>1. \A p \in k .. n : s[p] \in Nat /\ off[p] \in Nat /\ off[p + 1] \in Nat
  BY <1>b, <1>n, <1>s
<1>2. u \in Nat /\ u >= 1 /\ off[k + 1] = u
  <2>1. off[k + 1] = off[k] + H + s[k] /\ s[k] \in Nat
    BY <1>1, <1>c, <1>n
  <2> QED
    BY SMTT(20), <1>b, <1>h, <2>1
<1>4. \A p \in k + 1 .. n + 1 : off[p] \in Nat /\ off[p] >= u
  <2> SUFFICES ASSUME NEW p \in k + 1 .. n + 1 PROVE off[p] \in Nat /\ off[p] >= u
    OBVIOUS
  <2>1. p \in k .. n + 1 /\ k + 1 \in k .. n + 1 /\ k + 1 <= p
    BY <1>n
  <2>2. off[p] \in Nat
    BY <1>b, <2>1
  <2>3. off[k + 1] <= off[p]
    BY <1>d, <2>1
  <2> QED
    BY <1>2, <2>2, <2>3
<1>5. \A p \in k + 1 .. n + 1 : off[p] - u \in Nat
  <2>1. \A x \in Nat : x >= u => x - u \in Nat
    BY <1>2
  <2> HIDE DEF next
  <2> QED
    BY <1>4, <2>1
<1>6. /\ next \in [k + 1 .. n + 1 -> Nat]
      /\ \A p \in k + 1 .. n + 1 : next[p] = off[p] - u /\ next[p] \in Nat
  BY <1>5
<1> HIDE DEF next
<1>8. \A p \in k + 1 .. n : next[p + 1] = next[p] + H + s[p]
  <2> SUFFICES ASSUME NEW p \in k + 1 .. n PROVE next[p + 1] = next[p] + H + s[p]
    OBVIOUS
  <2>1. next[p + 1] = off[p + 1] - u /\ next[p] = off[p] - u
    BY <1>6, <1>n
  <2>2. off[p + 1] = off[p] + H + s[p]
    BY <1>c, <1>n
  <2>3. s[p] \in Nat /\ off[p] \in Nat /\ off[p + 1] \in Nat
    BY <1>1, <1>n
  <2>4. \A x, y, h \in Nat : y = x + H + h => y - u = (x - u) + H + h
    BY SMTT(20), <1>2, <1>h
  <2> QED
    BY <2>1, <2>2, <2>3, <2>4
<1>9. \A p, q \in k + 1 .. n + 1 : p <= q => next[p] <= next[q]
  <2> SUFFICES ASSUME NEW p \in k + 1 .. n + 1, NEW q \in k + 1 .. n + 1, p <= q
               PROVE  next[p] <= next[q]
    OBVIOUS
  <2>1. off[p] <= off[q]
    BY <1>d, <1>n
  <2>2. off[p] \in Nat /\ off[q] \in Nat /\ next[p] = off[p] - u /\ next[q] = off[q] - u
    BY <1>4, <1>6
  <2> QED
    BY <1>2, <2>1, <2>2
<1>10. Offsets(H, next, s, k + 1)
  <2>1. next[k + 1] = 0
    BY <1>2, <1>6, <1>n
  <2> QED
    BY <1>6, <1>8, <1>9, <2>1 DEF Offsets, n
<1>11. U <= next[n + 1]
  <2>1. next[n + 1] = off[n + 1] - u /\ off[n + 1] \in Nat
    BY <1>4, <1>6, <1>n
  <2> QED
    BY SMTT(20), <1>2, <1>e, <2>1
<1>12. ASSUME NEW p \in k + 1 .. n, NEW j \in 1 .. H + s[p], next[p] + j <= U
       PROVE  ByteAt(c, d, next[p] + j) = <<p, j>>
  <2>0. s[p] \in Nat /\ off[p] \in Nat /\ next[p] = off[p] - u /\ next[p] \in Nat
    BY <1>1, <1>6, <1>n
  <2>1. j \in Nat /\ j >= 1
    BY <2>0, <1>h
  <2>2. (next[p] + j) + u = off[p] + j
    <3>1. \A x, y, i \in Nat : y = x - u => (y + i) + u = x + i
      BY SMTT(20), <1>2
    <3> QED
      BY <2>0, <2>1, <3>1
  <2>3. next[p] + j \in 1 .. U /\ off[p] + j <= T
    <3>1. \A x, i \in Nat : i >= 1 /\ x + i <= U => x + i \in 1 .. U /\ (x + i) + u <= T
      BY SMTT(20), <1>2, <1>e
    <3> QED
      BY <1>12, <2>0, <2>1, <2>2, <3>1
  <2>4. ByteAt(a, b, off[p] + j) = <<p, j>>
    BY <1>f, <1>n, <2>3
  <2> QED
    BY <1>g, <2>2, <2>3, <2>4
<1>13. Framed(H, next, s, k + 1, c, d)
  BY <1>11, <1>12 DEF Framed, n, U
<1>14. next[n + 1] = off[n + 1] - u
  BY <1>6, <1>n
<1> QED
  BY <1>10, <1>13, <1>14 DEF Streamed, n

\* A packet that is sent is behind all others.
LEMMA PacketComes ==
  ASSUME NEW H, Header(H), NEW s \in Seq(Nat), NEW k \in 1 .. Len(s) + 1, NEW l \in Nat,
         NEW t, t = Append(s, l), NEW a, NEW b, NEW c,
         Streamed(H, s, k, a, b, Len(a) + Len(b)), Behind(H, Len(s) + 1, l, a, b, c)
  PROVE  Streamed(H, t, k, a, c, Len(a) + Len(c))
<1>h. H \in Nat /\ H > 0
  BY DEF Header
<1> PICK off : /\ Offsets(H, off, s, k) /\ Framed(H, off, s, k, a, b)
               /\ off[Len(s) + 1] = Len(a) + Len(b)
  BY DEF Streamed
<1> DEFINE n == Len(s)  T == Len(a) + Len(b)  U == Len(a) + Len(c)
           next == [p \in k .. n + 2 |-> IF p = n + 2 THEN U ELSE off[p]]
<1>a. n \in Nat /\ k \in Nat /\ k <= n + 1 /\ k >= 1
  OBVIOUS
<1>b. off \in [k .. n + 1 -> Nat] /\ off[k] = 0 /\ off[n + 1] = T
  BY DEF Offsets
<1>c. \A p \in k .. n : off[p + 1] = off[p] + H + s[p]
  BY DEF Offsets
<1>d. \A p, q \in k .. n + 1 : p <= q => off[p] <= off[q]
  BY DEF Offsets
<1>e. T \in Nat /\ U \in Nat /\ U = T + H + l
  BY <1>h DEF Behind
<1>f. \A p \in k .. n : \A j \in 1 .. H + s[p] :
        off[p] + j <= T => ByteAt(a, b, off[p] + j) = <<p, j>>
  BY DEF Framed
<1>g. /\ \A i \in 1 .. T : ByteAt(a, c, i) = ByteAt(a, b, i)
      /\ \A j \in 1 .. H + l : ByteAt(a, c, T + j) = <<n + 1, j>>
  BY DEF Behind
<1>s. \A p \in 1 .. n : s[p] \in Nat
  OBVIOUS
<1>1. /\ t \in Seq(Nat) /\ Len(t) = n + 1 /\ t[n + 1] = l /\ \A p \in 1 .. n : t[p] = s[p]
  OBVIOUS
<1> HIDE DEF n, T, U
<1>n. /\ n + 1 \in k .. n + 1 /\ n + 2 \in k .. n + 2 /\ k \in k .. n + 1
      /\ n + 1 # n + 2 /\ (n + 1) + 1 = n + 2
      /\ \A p \in k .. n : p \in 1 .. n /\ p \in k .. n + 1 /\ p + 1 \in k .. n + 1
      /\ \A p \in k .. n + 1 : p = n + 1 \/ p \in k .. n
      /\ \A p \in k .. n + 1 : p \in k .. n + 2 /\ p # n + 2 /\ p <= n + 1
      /\ \A p \in k .. n + 2 : p = n + 2 \/ p \in k .. n + 1
  BY <1>a
<1>2. \A p \in k .. n : s[p] \in Nat /\ t[p] = s[p]
  BY <1>1, <1>n, <1>s
<1>o. \A p \in k .. n + 1 : off[p] \in Nat
  BY <1>b
<1>3. \A p \in k .. n + 1 : next[p] = off[p] /\ next[p] \in Nat
  BY <1>n, <1>o
<1>4. next[n + 2] = U
  BY <1>n
<1>5. next \in [k .. n + 2 -> Nat]
  BY <1>e, <1>n, <1>o
<1> HIDE DEF next
<1>6. \A p \in k .. n + 1 : next[p + 1] = next[p] + H + t[p]
  <2> SUFFICES ASSUME NEW p \in k .. n + 1 PROVE next[p + 1] = next[p] + H + t[p]
    OBVIOUS
  <2>1. CASE p = n + 1
    <3>1. next[p + 1] = U /\ next[p] = T /\ t[p] = l
      BY <1>1, <1>3, <1>4, <1>b, <1>n, <2>1
    <3> QED
      BY <1>e, <3>1
  <2>2. CASE p \in k .. n
    <3>1. next[p + 1] = off[p + 1] /\ next[p] = off[p] /\ t[p] = s[p]
      BY <1>2, <1>3, <1>n, <2>2
    <3>2. off[p + 1] = off[p] + H + s[p]
      BY <1>c, <2>2
    <3> QED
      BY <3>1, <3>2
  <2> QED
    BY <1>n, <2>1, <2>2
<1>7. \A p, q \in k .. n + 2 : p <= q => next[p] <= next[q]
  <2>1. \A p \in k .. n + 1 : off[p] <= T
    BY <1>b, <1>d, <1>n
  <2>2. \A p \in k .. n + 2 : next[p] \in Nat /\ next[p] <= U
    <3> SUFFICES ASSUME NEW p \in k .. n + 2 PROVE next[p] \in Nat /\ next[p] <= U
      OBVIOUS
    <3>1. CASE p = n + 2
      BY <1>4, <1>e, <3>1
    <3>2. CASE p \in k .. n + 1
      <4>1. off[p] \in Nat /\ off[p] <= T /\ next[p] = off[p]
        BY <1>3, <1>o, <2>1, <3>2
      <4> QED
        BY <1>e, <1>h, <4>1
    <3> QED
      BY <1>n, <3>1, <3>2
  <2>3. ASSUME NEW p \in k .. n + 2, NEW r \in k .. n + 2, p <= r PROVE next[p] <= next[r]
    <3>1. CASE r = n + 2
      BY <1>4, <2>2, <3>1
    <3>2. CASE r \in k .. n + 1
      <4>1. p \in k .. n + 1
        <5>1. \A x, y \in Nat : y \in k .. n + 1 /\ x <= y /\ x >= k => x \in k .. n + 1
          BY <1>a
        <5>2. p \in Nat /\ r \in Nat /\ p >= k
          BY <1>a
        <5> QED
          BY <2>3, <3>2, <5>1, <5>2
      <4>2. off[p] <= off[r]
        BY <1>d, <2>3, <3>2, <4>1
      <4> QED
        BY <1>3, <3>2, <4>1, <4>2
    <3> QED
      BY <1>n, <3>1, <3>2
  <2> QED
    BY <2>3
<1>8. Offsets(H, next, t, k)
  <2>1. next[k] = 0 /\ Len(t) + 1 = n + 2
    BY <1>1, <1>3, <1>b, <1>n
  <2> QED
    BY <1>1, <1>5, <1>6, <1>7, <2>1 DEF Offsets
<1>9. ASSUME NEW p \in k .. n + 1, NEW j \in 1 .. H + t[p], next[p] + j <= U
      PROVE  ByteAt(a, c, next[p] + j) = <<p, j>>
  <2>1. CASE p = n + 1
    <3>1. next[p] = T /\ t[p] = l
      BY <1>1, <1>3, <1>b, <1>n, <2>1
    <3> QED
      BY <1>g, <2>1, <3>1
  <2>2. CASE p \in k .. n
    <3>1. off[p + 1] = off[p] + H + s[p] /\ s[p] \in Nat
      BY <1>2, <1>c, <2>2
    <3>2. next[p] = off[p] /\ t[p] = s[p] /\ off[p] \in Nat
      BY <1>2, <1>3, <1>n, <2>2
    <3>3. off[p + 1] <= T
      BY <1>b, <1>d, <1>n, <2>2
    <3>4. j \in Nat /\ j >= 1 /\ j <= H + s[p]
      BY <1>h, <3>1, <3>2
    <3>5. off[p] + j \in 1 .. T /\ off[p] + j <= T
      <4>1. \A x, i, h \in Nat :
              i >= 1 /\ i <= H + h /\ x + H + h <= T => x + i \in 1 .. T /\ x + i <= T
        BY <1>e, <1>h
      <4> QED
        BY <3>1, <3>2, <3>3, <3>4, <4>1
    <3>6. ByteAt(a, b, off[p] + j) = <<p, j>>
      BY <1>f, <2>2, <3>2, <3>5
    <3> QED
      BY <1>g, <3>2, <3>5, <3>6
  <2> QED
    BY <1>n, <2>1, <2>2
<1>10. Framed(H, next, t, k, a, c)
  <2>1. U <= next[Len(t) + 1]
    BY <1>1, <1>4, <1>e, <1>n
  <2> QED
    BY <1>1, <1>9, <2>1 DEF Framed, U
<1> QED
  BY <1>1, <1>4, <1>8, <1>10, <1>n DEF Streamed, n, U

LEMMA Dropped ==
  ASSUME NEW S, NEW a \in Seq(S), NEW u \in 0 .. Len(a)
  PROVE  /\ SubSeq(a, u + 1, Len(a)) \in Seq(S)
         /\ Len(SubSeq(a, u + 1, Len(a))) = Len(a) - u
         /\ \A i \in 1 .. Len(a) - u : SubSeq(a, u + 1, Len(a))[i] = a[u + i]
<1> DEFINE n == Len(a)  d == SubSeq(a, u + 1, n)
<1>1. n \in Nat /\ u \in Nat /\ u <= n /\ \A i \in u + 1 .. n : a[i] \in S
  OBVIOUS
<1>2. /\ d \in Seq(S) /\ Len(d) = IF u + 1 <= n THEN n - (u + 1) + 1 ELSE 0
      /\ \A i \in 1 .. n - (u + 1) + 1 : d[i] = a[(u + 1) + i - 1]
  <2>1. u + 1 \in Int /\ n \in Int
    BY <1>1
  <2> HIDE DEF n
  <2> QED
    BY <1>1, <2>1, SubSeqProperties
<1> HIDE DEF n, d
<1>3. n - (u + 1) + 1 = n - u /\ \A i \in 1 .. n - u : (u + 1) + i - 1 = u + i
  BY <1>1
<1>4. Len(d) = n - u
  BY <1>1, <1>2
<1>5. \A i \in 1 .. n - u : d[i] = a[u + i]
  BY <1>2, <1>3
<1> QED
  BY <1>2, <1>4, <1>5 DEF n, d

LEMMA CutAndJoin ==
  ASSUME NEW S, NEW a \in Seq(S), NEW b \in Seq(S), NEW m \in 0 .. Len(b)
  PROVE  LET c == a \o SubSeq(b, 1, m)  d == SubSeq(b, m + 1, Len(b))
         IN  /\ c \in Seq(S) /\ d \in Seq(S) /\ Len(c) = Len(a) + m /\ Len(d) = Len(b) - m
             /\ \A i \in 1 .. Len(a) + Len(b) : ByteAt(c, d, i) = ByteAt(a, b, i)
<1> DEFINE h == SubSeq(b, 1, m)  c == a \o h  d == SubSeq(b, m + 1, Len(b))
<1>1. h \in Seq(S) /\ Len(h) = m /\ \A i \in 1 .. m : h[i] = b[i]
  <2>1. m \in Nat /\ \A i \in 1 .. m : b[i] \in S
    OBVIOUS
  <2> QED
    BY <2>1, SubSeqProperties
<1>2. d \in Seq(S) /\ Len(d) = Len(b) - m /\ \A i \in 1 .. Len(b) - m : d[i] = b[m + i]
  BY Dropped
<1> HIDE DEF h, d
<1>3. /\ c \in Seq(S) /\ Len(c) = Len(a) + m
      /\ \A i \in 1 .. Len(a) : c[i] = a[i]
      /\ \A i \in Len(a) + 1 .. Len(a) + m : c[i] = h[i - Len(a)]
  BY SMTT(20), <1>1
<1> HIDE DEF c
<1>4. ASSUME NEW i \in 1 .. Len(a) + Len(b) PROVE ByteAt(c, d, i) = ByteAt(a, b, i)
  <2>1. Len(a) \in Nat /\ Len(b) \in Nat /\ m \in Nat
    OBVIOUS
  <2>2. CASE i <= Len(a)
    <3>1. i \in 1 .. Len(a) /\ i <= Len(c)
      BY <1>3, <2>1, <2>2
    <3> QED
      BY <1>3, <2>2, <3>1 DEF ByteAt
  <2>3. CASE i > Len(a) /\ i <= Len(a) + m
    <3>1. i \in Len(a) + 1 .. Len(a) + m /\ i <= Len(c) /\ ~(i <= Len(a)) /\ i - Len(a) \in 1 .. m
      BY <1>3, <2>1, <2>3
    <3> QED
      BY <1>1, <1>3, <3>1 DEF ByteAt
  <2>4. CASE i > Len(a) + m
    <3>1. /\ ~(i <= Len(c)) /\ ~(i <= Len(a)) /\ i - Len(c) \in 1 .. Len(b) - m
          /\ m + (i - Len(c)) = i - Len(a)
      BY <1>3, <2>1, <2>4
    <3> QED
      BY <1>2, <3>1 DEF ByteAt
  <2> QED
    BY <2>1, <2>2, <2>3, <2>4
<1> QED
  BY <1>2, <1>3, <1>4 DEF c, d, h
=============================================================================
