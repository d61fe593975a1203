----------------------------- MODULE MCProgress ------------------------------
(* What somebody waits for: requests, status, registration, configuration,   *)
(* records and messages that have to come in the end, under the fairness of  *)
(* each part. A behaviour is one of a single part, chosen by the initial     *)
(* state, as in MCRecords.                                                   *)
EXTENDS Integers, Sequences, FiniteSets, TLAPS

CONSTANTS
  Parts,                       \* the parts this run checks
  Segments, Whole, MAXSPREAD, Resend, FirstSecond, LastSecond, MaxLinks \* of Seconds

VARIABLE part                  \* the one that runs

-----------------------------------------------------------------------------
(* Seconds of one packet and of several segments, over some registrations. *)
VARIABLES
  dt_data_sequence, lastseq, data_timetag, one, mult, held, seconds_pos, oldest,
  links, ones, merged

Second == INSTANCE Seconds WITH
  SkipOnResume <- FALSE, UntimedEnd <- FALSE, pos <- seconds_pos

ASSUME SecondsParameters == Second!SecondsAssumption

(* The seconds have an inductive invariant of their own, SecondsInv, which the *)
(* proof of SecondsAreExact at the end of the module carries over to this one. *)

LastOf(s) == s[Len(s)]

TimeInv ==
  /\ dt_data_sequence \in Nat /\ lastseq \in Nat /\ oldest \in Nat
  /\ seconds_pos \in Nat \X (1 .. Segments) /\ oldest <= Second!Number(seconds_pos)
  /\ data_timetag \in {0} \cup {Second!TimeOf(s) : s \in FirstSecond .. LastSecond}
  /\ data_timetag \in {0, Second!TimeOf(dt_data_sequence)}
  /\ IF dt_data_sequence = 0 THEN data_timetag = 0 /\ seconds_pos[2] = 1
     ELSE \/ seconds_pos[1] <= dt_data_sequence
          \/ seconds_pos[1] = dt_data_sequence + 1 /\ seconds_pos[2] = 1
  /\ lastseq = 0 \/ (lastseq = dt_data_sequence /\ seconds_pos[1] >= dt_data_sequence)

\* The Q330 repeats no packet that is so far back that a second up to x would
\* count as one of another Q330.
Behind(x) ==
  /\ x \in Nat
  /\ \/ Second!Number(seconds_pos) >= x * Segments + 1
     \/ oldest >= x * Segments + 1 - Resend

OnesInv ==
  /\ ones \in Seq([sec : Nat, tag : Nat])
  /\ one = IF ones = << >> THEN 0 ELSE LastOf(ones).sec
  /\ Behind(one)
  /\ \A i \in 1 .. Len(ones) - 1 : ones[i].sec < ones[i + 1].sec
  /\ \A i \in DOMAIN ones : ones[i].tag = Second!TimeOf(ones[i].sec)

MergedInv ==
  /\ merged \in Seq([sec : Nat, tag : Nat, segs : Seq(1 .. Segments)])
  /\ mult.dtsequence = IF merged = << >> THEN 0 ELSE LastOf(merged).sec
  /\ Behind(mult.dtsequence)
  /\ \A i \in 1 .. Len(merged) - 1 : merged[i].sec < merged[i + 1].sec
  /\ \A i \in DOMAIN merged : merged[i].tag = Second!TimeOf(merged[i].sec)
  /\ Second!MergedIsComplete

\* The segments of the second that is collected, which is the one being read
\* or was left: they are from the first on or some are missing.
Collecting(sec, list) ==
  /\ sec \in Nat /\ list \in Seq(1 .. Segments) /\ list # << >>
  /\ \A i \in DOMAIN list : list[i] <= LastOf(list)
  /\ (\A i \in DOMAIN list : list[i] = i) \/ Len(list) < LastOf(list)

CollectInv ==
  /\ mult \in [dtsequence : Nat, seg_seq : Nat \cup {Second!NoSequence}, pseg : Seq(1 .. Segments),
               seg_count : 0 .. Segments, seg_high : {0, Segments}]
  /\ mult.seg_seq = Second!NoSequence => mult.seg_count = 0
  /\ mult.seg_seq # Second!NoSequence =>
       /\ Collecting(mult.seg_seq, mult.pseg) /\ mult.seg_count = Len(mult.pseg)
       /\ mult.seg_seq > mult.dtsequence
       /\ Second!Number(<<mult.seg_seq, LastOf(mult.pseg)>>) < Second!Number(seconds_pos)
       /\ mult.seg_high # 0 => LastOf(mult.pseg) = Segments
       /\ lastseq # 0 /\ mult.seg_seq <= dt_data_sequence
       /\ mult.seg_seq = dt_data_sequence => data_timetag > 0

SecondsInv == TimeInv /\ OnesInv /\ MergedInv /\ CollectInv /\ links \in Nat

\* Packets are numbered second by second.
LEMMA NumberOrder ==
  ASSUME NEW n \in Nat \ {0}, NEW a \in Nat, NEW b \in Nat, NEW i \in 1 .. n, NEW j \in 1 .. n
  PROVE  /\ a * n + i - 1 \in Nat
         /\ a * n + i - 1 <= b * n + j - 1 <=> (a < b \/ (a = b /\ i <= j))
<1>1. ASSUME NEW c \in Nat, NEW d \in Nat, NEW k \in 1 .. n, NEW l \in 1 .. n, c < d
      PROVE  c * n + k - 1 < d * n + l - 1
  <2> DEFINE e == d - c
             x == c * n
             y == d * n
             z == e * n
  <2>1. e \in Nat \ {0} /\ d = c + e /\ x \in Nat /\ y \in Nat /\ z \in Nat
    BY <1>1
  <2>2. y = x + z
    BY <2>1
  <2>3. z >= n
    BY <2>1
  <2> HIDE DEF e, x, y, z
  <2>4. x + k - 1 < y + l - 1
    BY <2>1, <2>2, <2>3
  <2> QED
    BY <2>4 DEF x, y
<1> DEFINE x == a * n
           y == b * n
<1>2. x \in Nat /\ y \in Nat
  OBVIOUS
<1> HIDE DEF x, y
<1>3. CASE a < b
  BY <1>1, <1>2, <1>3 DEF x, y
<1>4. CASE b < a
  <2>1. y + j - 1 < x + i - 1
    BY <1>1, <1>4 DEF x, y
  <2> QED
    BY <1>2, <1>4, <2>1 DEF x, y
<1>5. CASE a = b
  <2>1. x = y
    BY <1>5 DEF x, y
  <2> QED
    BY <1>2, <1>5, <2>1 DEF x, y
<1> QED
  BY <1>3, <1>4, <1>5

\* So that a packet is before another when its number is.
LEMMA Positions ==
  ASSUME NEW p \in Nat \X (1 .. Segments), NEW q \in Nat \X (1 .. Segments)
  PROVE  /\ Second!Number(p) \in Nat /\ p = <<p[1], p[2]>> /\ p[1] \in Nat /\ p[2] \in 1 .. Segments
         /\ Second!Number(p) <= Second!Number(q) <=>
              (p[1] < q[1] \/ (p[1] = q[1] /\ p[2] <= q[2]))
         /\ Second!Number(p) < Second!Number(q) <=> (p[1] < q[1] \/ (p[1] = q[1] /\ p[2] < q[2]))
         /\ Second!Number(p) = Second!Number(q) => p = q
<1>1. Segments \in Nat \ {0}
  BY SecondsParameters DEF Second!SecondsAssumption
<1>2. p = <<p[1], p[2]>> /\ p[1] \in Nat /\ p[2] \in 1 .. Segments
  OBVIOUS
<1>3. q = <<q[1], q[2]>> /\ q[1] \in Nat /\ q[2] \in 1 .. Segments
  OBVIOUS
<1>4. /\ Second!Number(p) \in Nat /\ Second!Number(q) \in Nat
      /\ Second!Number(p) <= Second!Number(q) <=> (p[1] < q[1] \/ (p[1] = q[1] /\ p[2] <= q[2]))
      /\ Second!Number(q) <= Second!Number(p) <=> (q[1] < p[1] \/ (q[1] = p[1] /\ q[2] <= p[2]))
  BY <1>1, <1>2, <1>3, NumberOrder DEF Second!Number
<1>5. Second!Number(p) < Second!Number(q) <=> (p[1] < q[1] \/ (p[1] = q[1] /\ p[2] < q[2]))
  BY <1>2, <1>3, <1>4
<1>6. Second!Number(p) = Second!Number(q) => p = q
  BY <1>2, <1>3, <1>4
<1> QED
  BY <1>2, <1>4, <1>5, <1>6

\* The next packet has the next number.
LEMMA AfterNext ==
  ASSUME NEW p \in Nat \X (1 .. Segments)
  PROVE  /\ Second!After(p) \in Nat \X (1 .. Segments)
         /\ Second!Number(Second!After(p)) = Second!Number(p) + 1
         /\ \/ Second!After(p)[1] = p[1]
            \/ (Second!After(p)[1] = p[1] + 1 /\ Second!After(p)[2] = 1 /\ p[2] = Segments)
<1>1. Segments \in Nat \ {0} /\ p[1] \in Nat /\ p[2] \in 1 .. Segments
  BY SecondsParameters DEF Second!SecondsAssumption
<1> DEFINE a == p[1]
           n == Segments
           x == a * n
           y == (a + 1) * n
<1>2. y = x + n /\ x \in Nat
  BY <1>1
<1>3. CASE p[2] = Segments
  <2>1. Second!After(p) = <<a + 1, 1>>
    BY <1>3 DEF Second!After
  <2>2. Second!Number(Second!After(p)) = y + 1 - 1 /\ Second!Number(p) = x + n - 1
    BY <1>3, <2>1 DEF Second!Number
  <2> HIDE DEF x, y
  <2>3. Second!Number(Second!After(p)) = Second!Number(p) + 1
    BY <1>1, <1>2, <2>2
  <2> QED
    BY <1>1, <1>3, <2>1, <2>3
<1>4. CASE p[2] # Segments
  <2>1. Second!After(p) = <<a, p[2] + 1>>
    BY <1>4 DEF Second!After
  <2>2. Second!Number(Second!After(p)) = x + (p[2] + 1) - 1 /\ Second!Number(p) = x + p[2] - 1
    BY <2>1 DEF Second!Number
  <2> HIDE DEF x, y
  <2>3. Second!Number(Second!After(p)) = Second!Number(p) + 1
    BY <1>1, <1>2, <2>2
  <2> QED
    BY <1>1, <1>4, <2>1, <2>3
<1> QED
  BY <1>3, <1>4

\* What proc_insequence does with packet p: the packets before it were dropped.
Arrives(p, tag) ==
  /\ p \in Second!Packets /\ Second!Number(p) >= Second!Number(seconds_pos)
  /\ tag = Second!Timetag(p[1], p[2] = 1)
  /\ Second!Number(p) <= Second!Number(seconds_pos) + (IF lastseq = 0 THEN 0 ELSE 2 * Segments)
  /\ oldest' = IF Second!Number(p) > Second!Number(seconds_pos) THEN Second!Number(p) ELSE oldest
  /\ data_timetag' = tag /\ dt_data_sequence' = p[1] /\ lastseq' = p[1]
  /\ seconds_pos' = Second!After(p)

\* A packet that arrives is the next one or was not sent before.
LEMMA Arrived ==
  ASSUME TimeInv, NEW p, NEW tag, Arrives(p, tag)
  PROVE  /\ p \in Nat \X (1 .. Segments) /\ p[1] \in Nat \ {0} /\ p[2] \in 1 .. Segments
         /\ p[1] \in FirstSecond .. LastSecond
         /\ Second!Number(p) \in Nat /\ Second!Number(seconds_pos) \in Nat
         /\ Second!Number(p) >= Second!Number(seconds_pos)
         /\ lastseq = 0 => p = seconds_pos
         /\ p[1] >= seconds_pos[1]
<1>1. /\ FirstSecond \in Nat \ {0} /\ LastSecond \in Nat /\ Segments \in Nat \ {0}
      /\ seconds_pos \in Nat \X (1 .. Segments)
  BY SecondsParameters DEF Second!SecondsAssumption, TimeInv
<1>2. p \in Nat \X (1 .. Segments) /\ p[1] \in FirstSecond .. LastSecond /\ p[2] \in 1 .. Segments
  BY <1>1 DEF Arrives, Second!Packets
<1>3. /\ Second!Number(p) \in Nat /\ Second!Number(seconds_pos) \in Nat
      /\ Second!Number(seconds_pos) <= Second!Number(p) <=>
           (seconds_pos[1] < p[1] \/ (seconds_pos[1] = p[1] /\ seconds_pos[2] <= p[2]))
      /\ Second!Number(p) = Second!Number(seconds_pos) => p = seconds_pos
  BY <1>1, <1>2, Positions
<1>4. Second!Number(p) >= Second!Number(seconds_pos) /\ (lastseq = 0 => Second!Number(p) <= Second!Number(seconds_pos))
  BY <1>1, <1>3 DEF Arrives
<1>5. seconds_pos[1] \in Nat
  BY <1>1
<1> QED
  BY <1>1, <1>2, <1>3, <1>4, <1>5

\* The time is that of the packet's own second or unknown.
LEMMA TagIsOwn ==
  ASSUME TimeInv, NEW p, NEW tag, Arrives(p, tag)
  PROVE  /\ tag \in {0, Second!TimeOf(p[1])}
         /\ lastseq # 0 /\ p[1] = dt_data_sequence => tag \in {data_timetag, Second!TimeOf(p[1])}
<1>1. /\ p[1] \in Nat \ {0} /\ p[2] \in 1 .. Segments /\ (lastseq = 0 => p = seconds_pos)
      /\ p[1] >= seconds_pos[1] /\ seconds_pos[1] \in Nat
  BY Arrived DEF TimeInv
<1>2. /\ dt_data_sequence \in Nat /\ data_timetag \in {0, Second!TimeOf(dt_data_sequence)}
      /\ IF dt_data_sequence = 0 THEN data_timetag = 0 /\ seconds_pos[2] = 1
         ELSE seconds_pos[1] <= dt_data_sequence \/ (seconds_pos[1] = dt_data_sequence + 1 /\ seconds_pos[2] = 1)
  BY DEF TimeInv
<1>3. tag = Second!Timetag(p[1], p[2] = 1)
  BY DEF Arrives
<1>4. CASE p[2] = 1
  BY <1>3, <1>4 DEF Second!Timetag
<1>5. CASE p[2] # 1 /\ p[1] # dt_data_sequence
  <2>1. CASE p[1] = dt_data_sequence + 1 /\ lastseq = 0
    BY <1>1, <1>2, <1>5, <2>1
  <2>2. CASE ~(p[1] = dt_data_sequence + 1 /\ lastseq = 0)
    <3>1. tag = 0
      BY <1>3, <1>5, <2>2 DEF Second!Timetag
    <3> QED
      BY <1>5, <3>1
  <2> QED
    BY <2>1, <2>2
<1>6. CASE p[2] # 1 /\ p[1] = dt_data_sequence
  <2>1. tag = data_timetag
    BY <1>1, <1>2, <1>3, <1>6 DEF Second!Timetag
  <2> QED
    BY <1>2, <1>6, <2>1
<1> QED
  BY <1>1, <1>2, <1>4, <1>5, <1>6

\* What has been processed stays near enough to be known again.
LEMMA BehindKept ==
  ASSUME NEW x, Behind(x), Second!Number(seconds_pos') \in Nat, oldest \in Nat, oldest' \in Nat,
         oldest' >= oldest, Second!Number(seconds_pos) \in Nat,
         Second!Number(seconds_pos)' >= Second!Number(seconds_pos) \/ oldest' >= Second!Number(seconds_pos) - Resend
  PROVE  Behind(x)'
<1> DEFINE y == x * Segments
<1>1. x \in Nat /\ Segments \in Nat /\ Resend \in Nat /\ y \in Nat
  BY SecondsParameters DEF Second!SecondsAssumption, Behind
<1> HIDE DEF y
<1>2. Second!Number(seconds_pos) >= y + 1 \/ oldest >= y + 1 - Resend
  BY DEF Behind, y
<1>3. Second!Number(seconds_pos)' = Second!Number(seconds_pos')
  BY DEF Second!Number
<1>4. Second!Number(seconds_pos') >= y + 1 \/ oldest' >= y + 1 - Resend
  BY <1>1, <1>2, <1>3
<1> QED
  BY <1>1, <1>3, <1>4 DEF Behind, y

\* None is so old that a channel takes its second for one of another Q330.
LEMMA NotSoFar ==
  ASSUME TimeInv, NEW p, NEW tag, Arrives(p, tag), NEW x, Behind(x)
  PROVE  Second!Stale(p[1], x) = x
<1> DEFINE s == p[1]
           y == x * Segments
           z == s * Segments
           most == MAXSPREAD * Segments
<1>1. /\ s \in Nat /\ p[2] \in 1 .. Segments /\ Second!Number(p) = z + p[2] - 1
      /\ Second!Number(p) >= Second!Number(seconds_pos) /\ Second!Number(seconds_pos) \in Nat
  BY Arrived DEF Second!Number
<1>2. /\ x \in Nat /\ Segments \in Nat \ {0} /\ Resend \in Nat /\ y \in Nat /\ z \in Nat
      /\ most \in Nat /\ Resend <= most /\ MAXSPREAD \in Nat
  BY <1>1, SecondsParameters DEF Second!SecondsAssumption, Behind
<1>3. Second!Number(seconds_pos) >= y + 1 \/ oldest >= y + 1 - Resend
  BY DEF Behind
<1>4. oldest \in Nat /\ oldest <= Second!Number(seconds_pos)
  BY DEF TimeInv
<1> HIDE DEF s, y, z, most
<1>5. y - z < Segments + most
  BY <1>1, <1>2, <1>3, <1>4
<1>6. ~(x - s > MAXSPREAD)
  <2> SUFFICES ASSUME x - s > MAXSPREAD PROVE FALSE
    OBVIOUS
  <2> DEFINE d == x - s - MAXSPREAD
             w == d * Segments
  <2>1. d \in Nat \ {0} /\ x = s + MAXSPREAD + d /\ w \in Nat
    BY <1>1, <1>2
  <2>2. y = z + most + w
    BY <1>1, <1>2, <2>1 DEF y, z, most
  <2>3. w >= Segments
    BY <1>2, <2>1
  <2> HIDE DEF d, w
  <2> QED
    BY <1>2, <1>5, <2>1, <2>2, <2>3
<1> QED
  BY <1>6 DEF Second!Stale, s

\* The sequence number and the time tag follow the packet.
LEMMA TimeArrives ==
  ASSUME TimeInv, NEW p, NEW tag, Arrives(p, tag)
  PROVE  TimeInv' /\ \A x : Behind(x) => Behind(x)'
<1>1. /\ p \in Nat \X (1 .. Segments) /\ p[1] \in Nat \ {0} /\ p[2] \in 1 .. Segments
      /\ p[1] \in FirstSecond .. LastSecond
      /\ Second!Number(p) \in Nat /\ Second!Number(seconds_pos) \in Nat
      /\ Second!Number(p) >= Second!Number(seconds_pos)
  BY Arrived
<1>2. /\ Second!After(p) \in Nat \X (1 .. Segments)
      /\ Second!Number(Second!After(p)) = Second!Number(p) + 1
      /\ \/ Second!After(p)[1] = p[1]
         \/ (Second!After(p)[1] = p[1] + 1 /\ Second!After(p)[2] = 1 /\ p[2] = Segments)
  BY <1>1, AfterNext
<1>3. tag \in {0, Second!TimeOf(p[1])}
  BY TagIsOwn
<1>4. /\ seconds_pos' = Second!After(p) /\ dt_data_sequence' = p[1] /\ lastseq' = p[1]
      /\ data_timetag' = tag
      /\ oldest' = IF Second!Number(p) > Second!Number(seconds_pos) THEN Second!Number(p) ELSE oldest
  BY DEF Arrives
<1>5. Second!Number(seconds_pos)' = Second!Number(p) + 1 /\ Second!Number(seconds_pos') = Second!Number(p) + 1
  BY <1>2, <1>4 DEF Second!Number
<1>6. /\ oldest \in Nat /\ oldest' \in Nat /\ oldest' >= oldest
      /\ oldest' <= Second!Number(seconds_pos)'
  BY <1>1, <1>4, <1>5 DEF TimeInv
<1>7. TimeInv'
  BY <1>1, <1>2, <1>3, <1>4, <1>5, <1>6 DEF TimeInv
<1>8. ASSUME NEW x, Behind(x) PROVE Behind(x)'
  <2>1. Second!Number(seconds_pos') \in Nat /\ Second!Number(seconds_pos)' >= Second!Number(seconds_pos)
    BY <1>1, <1>5
  <2> QED
    BY <1>1, <1>6, <1>8, <2>1, BehindKept
<1> QED
  BY <1>7, <1>8

\* What is needed of sequences.
LEMMA SequenceElements ==
  ASSUME NEW R, NEW s \in Seq(R)
  PROVE  /\ Len(s) \in Nat /\ DOMAIN s = 1 .. Len(s)
         /\ \A i \in DOMAIN s : s[i] \in R
         /\ s # << >> => /\ Len(s) >= 1 /\ Len(s) \in DOMAIN s
                        /\ LastOf(s) \in R /\ LastOf(s) = s[Len(s)]
BY DEF LastOf

LEMMA SequenceMore ==
  ASSUME NEW R, NEW s \in Seq(R), NEW r \in R
  PROVE  /\ Append(s, r) \in Seq(R) /\ Append(s, r) # << >>
         /\ Len(Append(s, r)) = Len(s) + 1 /\ Len(s) \in Nat
         /\ LastOf(Append(s, r)) = r
         /\ \A i \in 1 .. Len(s) : Append(s, r)[i] = s[i] /\ i \in DOMAIN s
         /\ DOMAIN Append(s, r) = 1 .. Len(s) + 1
         /\ Append(s, r)[Len(s) + 1] = r
         /\ s # << >> => Len(s) >= 1 /\ LastOf(s) = s[Len(s)]
BY DEF LastOf

\* The processed seconds with one more that is later than the last.
LEMMA InOrderMore ==
  ASSUME NEW R, NEW s \in Seq(R), NEW r \in R, \A x \in R : x.sec \in Nat,
         \A i \in 1 .. Len(s) - 1 : s[i].sec < s[i + 1].sec,
         s # << >> => LastOf(s).sec < r.sec
  PROVE  LET more == Append(s, r)
         IN \A i \in 1 .. Len(more) - 1 : more[i].sec < more[i + 1].sec
<1> DEFINE more == Append(s, r)
<1>1. /\ Len(more) = Len(s) + 1 /\ Len(s) \in Nat
      /\ \A i \in 1 .. Len(s) : more[i] = s[i]
      /\ more[Len(s) + 1] = r
      /\ s # << >> => Len(s) >= 1 /\ LastOf(s) = s[Len(s)]
  BY SequenceMore
<1> HIDE DEF more
<1>2. ASSUME NEW i \in 1 .. Len(more) - 1 PROVE more[i].sec < more[i + 1].sec
  <2>1. CASE i = Len(s)
    <3>1. s # << >>
      BY <1>1, <1>2, <2>1
    <3> QED
      BY <1>1, <2>1, <3>1
  <2>2. CASE i # Len(s)
    <3>1. i \in 1 .. Len(s) - 1 /\ i + 1 \in 1 .. Len(s) /\ i \in 1 .. Len(s)
      BY <1>1, <1>2, <2>2
    <3>2. more[i] = s[i] /\ more[i + 1] = s[i + 1]
      BY <1>1, <3>1
    <3> QED
      BY <3>1, <3>2
  <2> QED
    BY <2>1, <2>2
<1> QED
  BY <1>2 DEF more

\* process_one takes a second that is later than the last, or nothing.
LEMMA OnesArrives ==
  ASSUME TimeInv, OnesInv, NEW p, NEW tag, Arrives(p, tag),
         IF p[2] = Whole THEN Second!process_one(p[1], tag) ELSE UNCHANGED <<one, ones>>
  PROVE  OnesInv'
<1> DEFINE R == [sec : Nat, tag : Nat]
           r == [sec |-> p[1], tag |-> tag]
<1>1. /\ p \in Nat \X (1 .. Segments) /\ p[1] \in Nat \ {0}
      /\ Second!Number(p) \in Nat
  BY Arrived
<1>2. tag \in {0, Second!TimeOf(p[1])}
  BY TagIsOwn
<1>3. Behind(one) /\ \A x : Behind(x) => Behind(x)'
  BY TimeArrives DEF OnesInv
<1>4. CASE UNCHANGED <<one, ones>>
  <2>1. Behind(one)'
    <3> SUFFICES ASSUME NEW x, x = one PROVE (Behind(x))'
      BY <1>4
    <3> QED
      BY <1>3
  <2>2. ones' = ones /\ one' = one
    BY <1>4
  <2> QED
    BY <2>1, <2>2 DEF OnesInv
<1>5. CASE ~ UNCHANGED <<one, ones>>
  <2>1. tag >= 1 /\ Second!process_one(p[1], tag) /\ tag = Second!TimeOf(p[1]) /\ tag \in Nat
    BY <1>1, <1>2, <1>5 DEF Second!process_one, Second!TimeOf
  <2>2. Second!Stale(p[1], one) = one
    BY <1>3, NotSoFar
  <2>3. one \in Nat
    BY <1>3 DEF Behind
  <2>4. p[1] > one /\ one' = p[1] /\ ones' = Append(ones, r)
    BY <1>1, <1>5, <2>1, <2>2 DEF Second!process_one, Second!Fresh
  <2>5. r \in R /\ r.sec = p[1] /\ r.tag = Second!TimeOf(r.sec) /\ ones \in Seq(R)
    BY <1>1, <2>1 DEF OnesInv
  <2>6. ASSUME NEW x, x = one' PROVE Behind(x)'
    <3>1. /\ Second!After(p) \in Nat \X (1 .. Segments)
          /\ Second!Number(Second!After(p)) = Second!Number(p) + 1
          /\ seconds_pos' = Second!After(p)
      BY <1>1, AfterNext DEF Arrives
    <3>2. Second!Number(seconds_pos)' = p[1] * Segments + p[2] - 1 + 1
      BY <3>1 DEF Second!Number
    <3>3. p[2] \in 1 .. Segments /\ p[1] * Segments \in Nat
      BY <1>1, SecondsParameters DEF Second!SecondsAssumption
    <3>4. Second!Number(seconds_pos)' >= p[1] * Segments + 1
      BY <3>2, <3>3
    <3> QED
      BY <1>1, <2>4, <2>6, <3>4 DEF Behind
  <2>7. \A i \in 1 .. Len(ones') - 1 : ones'[i].sec < ones'[i + 1].sec
    <3>1. \A i \in 1 .. Len(ones) - 1 : ones[i].sec < ones[i + 1].sec
      BY DEF OnesInv
    <3>2. ones # << >> => LastOf(ones).sec < r.sec
      BY <2>4, <2>5 DEF OnesInv
    <3>3. \A x \in R : x.sec \in Nat
      OBVIOUS
    <3> HIDE DEF R, r
    <3> QED
      BY <2>4, <2>5, <3>1, <3>2, <3>3, InOrderMore
  <2>8. \A i \in DOMAIN ones' : ones'[i].tag = Second!TimeOf(ones'[i].sec)
    <3>1. \A i \in DOMAIN ones : ones[i].tag = Second!TimeOf(ones[i].sec)
      BY DEF OnesInv
    <3> HIDE DEF R, r
    <3>2. /\ DOMAIN ones' = 1 .. Len(ones) + 1 /\ ones'[Len(ones) + 1] = r /\ Len(ones) \in Nat
          /\ \A i \in 1 .. Len(ones) : ones'[i] = ones[i] /\ i \in DOMAIN ones
      BY <2>4, <2>5, SequenceMore
    <3>3. ASSUME NEW i \in DOMAIN ones' PROVE ones'[i].tag = Second!TimeOf(ones'[i].sec)
      <4>1. CASE i = Len(ones) + 1
        BY <2>5, <3>2, <4>1
      <4>2. CASE i # Len(ones) + 1
        <5>1. i \in 1 .. Len(ones)
          BY <3>2, <3>3, <4>2
        <5> QED
          BY <3>1, <3>2, <5>1
      <4> QED
        BY <4>1, <4>2
    <3> QED
      BY <3>3
  <2>9. ones' \in Seq(R) /\ ones' # << >> /\ LastOf(ones') = r
    <3> HIDE DEF R, r
    <3> QED
      BY <2>4, <2>5, SequenceMore
  <2> HIDE DEF r
  <2>10. Behind(one)'
    <3> SUFFICES ASSUME NEW x, x = one' PROVE Behind(x)'
      OBVIOUS
    <3> QED
      BY <2>6
  <2> QED
    BY <2>4, <2>5, <2>7, <2>8, <2>9, <2>10 DEF OnesInv
<1> QED
  BY <1>4, <1>5

\* The segments of the second that is collected when packet p comes.
Old(p) == IF p[1] = mult.seg_seq THEN mult.pseg ELSE << >>

\* A segment that follows the others of its second goes behind them.
LEMMA Inserted ==
  ASSUME NEW list \in Seq(1 .. Segments), NEW k \in 1 .. Segments,
         \A i \in DOMAIN list : list[i] < k
  PROVE  Second!Insert(list, k) = Append(list, k)
<1> DEFINE above == {i \in DOMAIN list : k = 1 \/ list[i] > k}
<1>1. Segments \in Nat /\ Len(list) \in Nat /\ DOMAIN list = 1 .. Len(list)
  BY SecondsParameters DEF Second!SecondsAssumption
<1>2. above = {}
  <2> SUFFICES ASSUME NEW i \in above PROVE FALSE
    OBVIOUS
  <2>1. list[i] \in 1 .. Segments /\ list[i] < k
    BY <1>1
  <2> QED
    BY <1>1, <2>1
<1>3. Second!Insert(list, k) = Second!InsertAt(list, Len(list) + 1, k)
  BY <1>2 DEF Second!Insert
<1> HIDE DEF above
<1> DEFINE n == Len(list)
<1>4. Second!InsertAt(list, n + 1, k) = SubSeq(list, 1, n + 1 - 1) \o <<k>> \o SubSeq(list, n + 1, n)
  BY DEF Second!InsertAt
<1>5. n + 1 - 1 = n /\ SubSeq(list, n + 1, n) = << >> /\ SubSeq(list, 1, n) = list
  BY <1>1
<1>6. list \o <<k>> \o << >> = Append(list, k)
  BY <1>1
<1> QED
  BY <1>3, <1>4, <1>5, <1>6

\* A packet finds segments of its second that are before it, or none.
LEMMA OldSegments ==
  ASSUME TimeInv, CollectInv, NEW p, NEW tag, Arrives(p, tag)
  PROVE  /\ Old(p) \in Seq(1 .. Segments)
         /\ \A i \in DOMAIN Old(p) : Old(p)[i] < p[2]
         /\ (\A i \in DOMAIN Old(p) : Old(p)[i] = i) \/ Len(Old(p)) + 1 < p[2]
         /\ Second!Purged(p[1]) = [mult EXCEPT !.pseg = Old(p), !.seg_count = Len(Old(p)), !.seg_high = 0]
<1>1. /\ p \in Nat \X (1 .. Segments) /\ p[1] \in Nat \ {0} /\ p[2] \in 1 .. Segments
      /\ Second!Number(p) \in Nat /\ Second!Number(seconds_pos) \in Nat
      /\ Second!Number(p) >= Second!Number(seconds_pos)
      /\ Segments \in Nat \ {0}
  BY Arrived, SecondsParameters DEF Second!SecondsAssumption
<1>2. mult \in [dtsequence : Nat, seg_seq : Nat \cup {Second!NoSequence}, pseg : Seq(1 .. Segments),
                seg_count : 0 .. Segments, seg_high : {0, Segments}]
  BY DEF CollectInv
<1>3. CASE p[1] # mult.seg_seq
  <2>1. Old(p) = << >>
    BY <1>3 DEF Old
  <2>2. Second!Purged(p[1]) = [mult EXCEPT !.pseg = << >>, !.seg_count = 0, !.seg_high = 0]
    BY <1>3 DEF Second!Purged
  <2> QED
    BY <2>1, <2>2
<1>4. CASE p[1] = mult.seg_seq
  <2> DEFINE list == mult.pseg
             last == LastOf(list)
  <2>1. /\ Old(p) = list /\ Second!Purged(p[1]) = mult /\ list \in Seq(1 .. Segments)
        /\ mult.seg_seq # Second!NoSequence
    BY <1>1, <1>2, <1>4 DEF Old, Second!Purged, Second!NoSequence
  <2>2. /\ list # << >> /\ \A i \in DOMAIN list : list[i] <= last
        /\ (\A i \in DOMAIN list : list[i] = i) \/ Len(list) < last
        /\ mult.seg_count = Len(list)
        /\ Second!Number(<<p[1], last>>) < Second!Number(seconds_pos)
        /\ mult.seg_high # 0 => last = Segments
    BY <1>4, <2>1 DEF CollectInv, Collecting
  <2> HIDE DEF list
  <2>3. /\ last \in 1 .. Segments /\ Len(list) \in Nat \ {0} /\ last = list[Len(list)]
        /\ \A i \in DOMAIN list : list[i] \in 1 .. Segments
    <3>1. /\ Len(list) \in Nat
          /\ \A i \in DOMAIN list : list[i] \in 1 .. Segments
          /\ list # << >> => /\ Len(list) >= 1
                            /\ LastOf(list) \in 1 .. Segments /\ LastOf(list) = list[Len(list)]
      BY <2>1, SequenceElements
    <3> QED
      BY <2>2, <3>1
  <2> HIDE DEF last
  <2>4. last < p[2]
    <3> DEFINE q == <<p[1], last>>
    <3>1. q \in Nat \X (1 .. Segments) /\ q[1] = p[1] /\ q[2] = last
      BY <1>1, <2>3
    <3>2. /\ Second!Number(q) \in Nat
          /\ Second!Number(q) < Second!Number(p) <=> (q[1] < p[1] \/ (q[1] = p[1] /\ q[2] < p[2]))
      BY <1>1, <3>1, Positions
    <3>3. Second!Number(q) < Second!Number(p)
      BY <1>1, <2>2, <3>2
    <3> QED
      BY <1>1, <3>1, <3>2, <3>3
  <2>5. mult.seg_high = 0
    BY <1>1, <2>2, <2>4
  <2>6. \A i \in DOMAIN list : list[i] < p[2]
    <3> SUFFICES ASSUME NEW i \in DOMAIN list PROVE list[i] < p[2]
      OBVIOUS
    <3>1. list[i] \in 1 .. Segments
      BY <2>3
    <3> QED
      BY <1>1, <2>2, <2>3, <2>4, <3>1
  <2>7. (\A i \in DOMAIN list : list[i] = i) \/ Len(list) + 1 < p[2]
    BY <1>1, <2>2, <2>3, <2>4
  <2>8. mult = [mult EXCEPT !.pseg = list, !.seg_count = Len(list), !.seg_high = 0]
    BY <1>2, <2>2, <2>5 DEF list
  <2> QED
    BY <2>1, <2>6, <2>7, <2>8
<1> QED
  BY <1>3, <1>4

\* With one more they are complete only when none is missing.
LEMMA CollectMore ==
  ASSUME TimeInv, CollectInv, NEW p, NEW tag, Arrives(p, tag)
  PROVE  LET m == Second!Collect(p[1], p[2])
         IN /\ m \in [dtsequence : Nat, seg_seq : Nat, pseg : Seq(1 .. Segments),
                      seg_count : 0 .. Segments, seg_high : {0, Segments}]
            /\ m.seg_seq = p[1] /\ m.dtsequence = mult.dtsequence
            /\ m.pseg = Append(Old(p), p[2])
            /\ Collecting(p[1], m.pseg) /\ LastOf(m.pseg) = p[2]
            /\ m.seg_count = Len(m.pseg) /\ Len(m.pseg) = Len(Old(p)) + 1
            /\ m.seg_high = IF p[2] = Segments THEN Segments ELSE 0
            /\ Second!Complete(m) => m.pseg = [k \in 1 .. Segments |-> k] /\ Second!Contains(m.pseg, 1)
            /\ p[2] = Segments /\ Len(m.pseg) = Segments => Second!Complete(m)
<1> DEFINE old == Old(p)
           k == p[2]
           more == Append(old, k)
           m == Second!Collect(p[1], k)
<1>1. /\ p[1] \in Nat \ {0} /\ k \in 1 .. Segments /\ Segments \in Nat \ {0}
  BY Arrived, SecondsParameters DEF Second!SecondsAssumption
<1>2. mult \in [dtsequence : Nat, seg_seq : Nat \cup {Second!NoSequence}, pseg : Seq(1 .. Segments),
                seg_count : 0 .. Segments, seg_high : {0, Segments}]
  BY DEF CollectInv
<1>3. /\ old \in Seq(1 .. Segments)
      /\ \A i \in DOMAIN old : old[i] < k
      /\ (\A i \in DOMAIN old : old[i] = i) \/ Len(old) + 1 < k
      /\ Second!Purged(p[1]) = [mult EXCEPT !.pseg = old, !.seg_count = Len(old), !.seg_high = 0]
  BY OldSegments
<1> HIDE DEF old, k
<1>4. Second!Insert(old, k) = more
  BY <1>1, <1>3, Inserted
<1>5. /\ more \in Seq(1 .. Segments) /\ more # << >>
      /\ Len(more) = Len(old) + 1 /\ Len(old) \in Nat
      /\ LastOf(more) = k
      /\ \A i \in 1 .. Len(old) : more[i] = old[i] /\ i \in DOMAIN old
      /\ DOMAIN more = 1 .. Len(old) + 1
      /\ more[Len(old) + 1] = k
      /\ old # << >> => Len(old) >= 1 /\ LastOf(old) = old[Len(old)]
  BY <1>1, <1>3, SequenceMore
<1> HIDE DEF more
<1>6. \A i \in DOMAIN more : more[i] <= k
  <2> SUFFICES ASSUME NEW i \in DOMAIN more PROVE more[i] <= k
    OBVIOUS
  <2>1. CASE i = Len(old) + 1
    BY <1>1, <1>5, <2>1
  <2>2. CASE i # Len(old) + 1
    <3>1. i \in 1 .. Len(old)
      BY <1>5, <2>2
    <3>2. old[i] \in 1 .. Segments /\ more[i] = old[i] /\ old[i] < k
      BY <1>3, <1>5, <3>1, SequenceElements
    <3> QED
      BY <1>1, <3>2
  <2> QED
    BY <2>1, <2>2
<1>7. (\A i \in DOMAIN more : more[i] = i) \/ Len(more) < k
  <2>1. CASE Len(old) + 1 < k
    BY <1>5, <2>1
  <2>2. CASE ~(Len(old) + 1 < k)
    <3>1. \A i \in DOMAIN old : old[i] = i
      BY <1>3, <2>2
    <3>2. k = Len(old) + 1
      <4>1. CASE old = << >>
        <5>1. Len(old) = 0
          BY <4>1
        <5> QED
          BY <1>1, <2>2, <5>1
      <4>2. CASE old # << >>
        <5>1. Len(old) \in 1 .. Len(old) /\ Len(old) \in DOMAIN old
          BY <1>5, <4>2
        <5>2. old[Len(old)] = Len(old) /\ old[Len(old)] < k
          BY <1>3, <3>1, <5>1
        <5> QED
          BY <1>1, <1>5, <2>2, <5>2
      <4> QED
        BY <4>1, <4>2
    <3>3. ASSUME NEW i \in DOMAIN more PROVE more[i] = i
      <4>1. CASE i = Len(old) + 1
        BY <1>5, <3>2, <4>1
      <4>2. CASE i # Len(old) + 1
        <5>1. i \in 1 .. Len(old)
          BY <1>5, <4>2
        <5> QED
          BY <1>5, <3>1, <5>1
      <4> QED
        BY <4>1, <4>2
    <3> QED
      BY <3>3
  <2> QED
    BY <2>1, <2>2
<1>8. Len(more) <= k
  <2>1. CASE \A i \in DOMAIN more : more[i] = i
    <3>1. Len(more) \in DOMAIN more
      BY <1>5
    <3>2. more[Len(more)] = k
      BY <1>5
    <3> QED
      BY <1>1, <2>1, <3>1, <3>2
  <2>2. CASE Len(more) < k
    BY <1>1, <1>5, <2>2
  <2> QED
    BY <1>7, <2>1, <2>2
<1>9. m = [Second!Purged(p[1]) EXCEPT !.seg_seq = p[1], !.pseg = Second!Insert(@, k), !.seg_count = @ + 1,
                               !.seg_high = IF k = Segments THEN Second!LastSegment(k) ELSE @]
  BY DEF Second!Collect
<1> DEFINE top == IF k = Segments THEN Segments ELSE 0
<1>16. Second!Purged(p[1]) = [dtsequence |-> mult.dtsequence, seg_seq |-> mult.seg_seq, pseg |-> old,
                       seg_count |-> Len(old), seg_high |-> 0]
  BY <1>2, <1>3
<1>20. (IF k = Segments THEN Second!LastSegment(k) ELSE 0) = top
  BY DEF Second!LastSegment
<1> HIDE DEF top
<1>17. m = [dtsequence |-> mult.dtsequence, seg_seq |-> p[1], pseg |-> Second!Insert(old, k),
            seg_count |-> Len(old) + 1, seg_high |-> top]
  <2> DEFINE q == Second!Purged(p[1])
             d == mult.dtsequence
             all == mult.seg_seq
             n == Len(old)
             x == Second!Insert(old, k)
             sec == p[1]
  <2>1. q = [dtsequence |-> d, seg_seq |-> all, pseg |-> old, seg_count |-> n, seg_high |-> 0]
    BY <1>16
  <2>2. m = [q EXCEPT !.seg_seq = sec, !.pseg = Second!Insert(q.pseg, k), !.seg_count = q.seg_count + 1,
                      !.seg_high = IF k = Segments THEN Second!LastSegment(k) ELSE q.seg_high]
    BY <1>9
  <2> HIDE DEF q, d, n, sec, all, m
  <2>3. q.pseg = old /\ q.seg_count = n /\ q.seg_high = 0
    BY <2>1
  <2>4. m = [q EXCEPT !.seg_seq = sec, !.pseg = x, !.seg_count = n + 1, !.seg_high = top]
    BY <1>20, <2>2, <2>3
  <2> HIDE DEF x
  <2>5. m = [dtsequence |-> d, seg_seq |-> sec, pseg |-> x, seg_count |-> n + 1, seg_high |-> top]
    BY <2>1, <2>4
  <2> QED
    BY <2>5 DEF d, sec, x, n
<1>10. m = [dtsequence |-> mult.dtsequence, seg_seq |-> p[1], pseg |-> more,
            seg_count |-> Len(more), seg_high |-> IF k = Segments THEN Segments ELSE 0]
  BY <1>4, <1>5, <1>17 DEF top
<1> HIDE DEF m
<1>11. Len(more) \in 0 .. Segments
  BY <1>1, <1>5, <1>8
<1>12. m \in [dtsequence : Nat, seg_seq : Nat, pseg : Seq(1 .. Segments),
              seg_count : 0 .. Segments, seg_high : {0, Segments}]
  BY <1>1, <1>2, <1>5, <1>10, <1>11
<1>13. Collecting(p[1], more)
  BY <1>1, <1>5, <1>6, <1>7 DEF Collecting
<1>14. ASSUME Second!Complete(m) PROVE more = [i \in 1 .. Segments |-> i] /\ Second!Contains(more, 1)
  <2>1. k = Segments /\ Len(more) = Segments
    BY <1>1, <1>10, <1>14 DEF Second!Complete
  <2>2. \A i \in DOMAIN more : more[i] = i
    BY <1>1, <1>7, <2>1
  <2>3. DOMAIN more = 1 .. Segments /\ more = [i \in DOMAIN more |-> more[i]]
    BY <1>5, <2>1
  <2>4. more = [i \in 1 .. Segments |-> i]
    BY <2>2, <2>3
  <2>5. 1 \in 1 .. Len(more) /\ more[1] = 1
    BY <1>1, <2>1, <2>4
  <2> QED
    BY <2>4, <2>5 DEF Second!Contains
<1>15. ASSUME k = Segments, Len(more) = Segments PROVE Second!Complete(m)
  BY <1>1, <1>10, <1>15 DEF Second!Complete
<1>18. /\ m.seg_seq = p[1] /\ m.dtsequence = mult.dtsequence /\ m.pseg = more
       /\ m.seg_count = Len(more)
       /\ m.seg_high = IF k = Segments THEN Segments ELSE 0
  BY <1>10
<1>19. /\ Collecting(p[1], m.pseg) /\ LastOf(m.pseg) = k
       /\ m.seg_count = Len(m.pseg) /\ Len(m.pseg) = Len(old) + 1
       /\ Second!Complete(m) => m.pseg = [i \in 1 .. Segments |-> i] /\ Second!Contains(m.pseg, 1)
       /\ k = Segments /\ Len(m.pseg) = Segments => Second!Complete(m)
  BY <1>5, <1>13, <1>14, <1>15, <1>18
<1> QED
  BY <1>12, <1>18, <1>19 DEF m, k, old, more

\* A second that is being collected when packet p comes is not behind it.
LEMMA Ahead ==
  ASSUME TimeInv, CollectInv, NEW p, NEW tag, Arrives(p, tag), mult.seg_seq # Second!NoSequence
  PROVE  /\ mult.seg_seq \in Nat /\ p[1] >= mult.seg_seq /\ p[1] > mult.dtsequence
         /\ p[1] = mult.seg_seq => tag # 0
<1>1. /\ p[1] \in Nat \ {0} /\ p[1] >= seconds_pos[1] /\ seconds_pos[1] \in Nat
  BY Arrived DEF TimeInv
<1>6. data_timetag > 0 => data_timetag # 0
  BY DEF TimeInv
<1>2. /\ mult.seg_seq \in Nat /\ mult.seg_seq > mult.dtsequence /\ mult.dtsequence \in Nat
      /\ lastseq # 0 /\ mult.seg_seq <= dt_data_sequence
      /\ mult.seg_seq = dt_data_sequence => data_timetag > 0
  BY DEF CollectInv
<1>3. lastseq = dt_data_sequence /\ seconds_pos[1] >= dt_data_sequence /\ dt_data_sequence \in Nat
  BY <1>2 DEF TimeInv
<1>4. p[1] >= mult.seg_seq /\ p[1] > mult.dtsequence
  BY <1>1, <1>2, <1>3
<1>5. ASSUME p[1] = mult.seg_seq PROVE tag # 0
  <2>1. p[1] = dt_data_sequence
    BY <1>1, <1>2, <1>3, <1>5
  <2>2. tag \in {data_timetag, Second!TimeOf(p[1])}
    BY <1>2, <2>1, TagIsOwn
  <2>3. Second!TimeOf(p[1]) # 0
    BY <1>1 DEF Second!TimeOf
  <2>4. data_timetag # 0
    BY <1>2, <1>5, <1>6, <2>1
  <2> QED
    BY <2>2, <2>3, <2>4
<1> QED
  BY <1>2, <1>4, <1>5

\* A packet without a time, or of a second processed already, changes nothing.
LEMMA CollectStays ==
  ASSUME TimeInv, MergedInv, CollectInv, NEW p, NEW tag, Arrives(p, tag),
         mult' = mult, merged' = merged,
         p[1] = mult.seg_seq => tag # 0
  PROVE  MergedInv' /\ CollectInv'
<1>1. Behind(mult.dtsequence)'
  <2>1. Behind(mult.dtsequence) /\ \A x : Behind(x) => Behind(x)'
    BY TimeArrives DEF MergedInv
  <2> SUFFICES ASSUME NEW x, x = mult.dtsequence PROVE Behind(x)'
    OBVIOUS
  <2> QED
    BY <2>1
<1>2. MergedInv'
  BY <1>1 DEF MergedInv, Second!MergedIsComplete
<1>3. CASE mult.seg_seq = Second!NoSequence
  <2>1. /\ mult' \in [dtsequence : Nat, seg_seq : Nat \cup {Second!NoSequence}, pseg : Seq(1 .. Segments),
                      seg_count : 0 .. Segments, seg_high : {0, Segments}]
        /\ mult'.seg_count = 0 /\ mult'.seg_seq = Second!NoSequence
    BY <1>3 DEF CollectInv
  <2> QED
    BY <1>2, <2>1 DEF CollectInv
<1>4. CASE mult.seg_seq # Second!NoSequence
  <2>1. /\ p \in Nat \X (1 .. Segments) /\ p[1] \in Nat \ {0}
        /\ Second!Number(p) \in Nat /\ Second!Number(seconds_pos) \in Nat
        /\ Second!Number(p) >= Second!Number(seconds_pos)
    BY Arrived
  <2>2. /\ Second!Number(Second!After(p)) = Second!Number(p) + 1
        /\ seconds_pos' = Second!After(p) /\ lastseq' = p[1]
        /\ dt_data_sequence' = p[1] /\ data_timetag' = tag
    BY <2>1, AfterNext DEF Arrives
  <2>3. Second!Number(seconds_pos)' = Second!Number(p) + 1
    BY <2>2 DEF Second!Number
  <2>4. mult.seg_seq \in Nat /\ p[1] >= mult.seg_seq
    BY <1>4, Ahead
  <2> DEFINE number == Second!Number(<<mult.seg_seq, LastOf(mult.pseg)>>)
  <2>5. number < Second!Number(seconds_pos)
    BY <1>4 DEF CollectInv
  <2>6. number \in Int
    <3>1. mult.pseg \in Seq(1 .. Segments) /\ mult.pseg # << >>
      BY <1>4 DEF CollectInv, Collecting
    <3>2. LastOf(mult.pseg) \in 1 .. Segments
      BY <3>1, SequenceElements
    <3> DEFINE q == <<mult.seg_seq, LastOf(mult.pseg)>>
    <3>3. q \in Nat \X (1 .. Segments)
      BY <2>4, <3>2
    <3> HIDE DEF q
    <3>4. Second!Number(q) \in Nat
      BY <3>3, Positions
    <3> QED
      BY <3>4 DEF q
  <2> HIDE DEF number
  <2>7. number < Second!Number(seconds_pos)'
    BY <2>1, <2>3, <2>5, <2>6
  <2>8. number' = number
    BY DEF number, Second!Number, LastOf
  <2>9. Collecting(mult.seg_seq, mult.pseg)' = Collecting(mult.seg_seq, mult.pseg)
    BY DEF Collecting, LastOf
  <2>10. tag \in {0, Second!TimeOf(p[1])} /\ Second!TimeOf(p[1]) > 0
    BY <2>1, TagIsOwn DEF Second!TimeOf
  <2>11. number' < Second!Number(seconds_pos)'
    BY <2>7, <2>8
  <2>12. p[1] = mult.seg_seq => tag > 0
    BY <2>10
  <2>13. /\ mult.seg_seq' # Second!NoSequence /\ Collecting(mult.seg_seq, mult.pseg)'
         /\ mult.seg_count' = Len(mult.pseg') /\ mult.seg_seq' > mult.dtsequence'
         /\ (mult.seg_high # 0 => LastOf(mult.pseg) = Segments)'
    BY <1>4, <2>9 DEF CollectInv, LastOf
  <2>14. /\ mult' \in [dtsequence : Nat, seg_seq : Nat \cup {Second!NoSequence}, pseg : Seq(1 .. Segments),
                       seg_count : 0 .. Segments, seg_high : {0, Segments}]
         /\ lastseq' # 0 /\ mult'.seg_seq <= dt_data_sequence'
         /\ mult'.seg_seq = dt_data_sequence' => data_timetag' > 0
    BY <2>1, <2>2, <2>4, <2>12 DEF CollectInv
  <2>15. (Second!Number(<<mult.seg_seq, LastOf(mult.pseg)>>) < Second!Number(seconds_pos))'
    BY <2>11 DEF number
  <2> QED
    BY <1>2, <1>4, <2>13, <2>14, <2>15 DEF CollectInv
<1> QED
  BY <1>2, <1>3, <1>4

\* process_mult collects, gives on what is complete, or changes nothing.
LEMMA MultArrives ==
  ASSUME TimeInv, MergedInv, CollectInv, NEW p, NEW tag, Arrives(p, tag),
         Second!process_mult(p[1], p[2], tag)
  PROVE  /\ MergedInv' /\ CollectInv'
         /\ (p[1] = mult.seg_seq /\ p[2] = Segments /\ mult.seg_count = Segments - 1)
              => Len(merged') = Len(merged) + 1
<1> DEFINE m == Second!Collect(p[1], p[2])
           R == [sec : Nat, tag : Nat, segs : Seq(1 .. Segments)]
           r == [sec |-> p[1], tag |-> tag, segs |-> m.pseg]
<1>1. /\ p \in Nat \X (1 .. Segments) /\ p[1] \in Nat \ {0} /\ p[2] \in 1 .. Segments
      /\ Segments \in Nat \ {0}
      /\ Second!Number(p) \in Nat
  BY Arrived, SecondsParameters DEF Second!SecondsAssumption
<1>2. tag \in {0, Second!TimeOf(p[1])} /\ Second!TimeOf(p[1]) \in Nat \ {0}
  BY <1>1, TagIsOwn DEF Second!TimeOf
<1>3. Behind(mult.dtsequence) /\ \A x : Behind(x) => Behind(x)'
  BY TimeArrives DEF MergedInv
<1>4. mult.dtsequence \in Nat
  BY <1>3 DEF Behind
<1>5. CASE tag = 0
  <2>1. mult' = mult /\ merged' = merged
    BY <1>5 DEF Second!process_mult
  <2>2. p[1] # mult.seg_seq
    BY <1>1, <1>5, Ahead DEF Second!NoSequence
  <2> QED
    BY <2>1, <2>2, CollectStays
<1>6. CASE tag # 0 /\ ~Second!Fresh(p[1], mult.dtsequence)
  <2>1. Second!Stale(p[1], mult.dtsequence) = mult.dtsequence
    BY <1>3, NotSoFar
  <2>2. ~(tag < 1)
    BY <1>2, <1>6
  <2>3. mult' = [mult EXCEPT !.dtsequence = Second!Stale(p[1], @)] /\ merged' = merged
    BY <1>6, <2>2 DEF Second!process_mult
  <2>4. mult' = mult
    BY <2>1, <2>3 DEF CollectInv
  <2>5. p[1] # mult.seg_seq
    BY <1>1, <1>6, Ahead DEF Second!NoSequence, Second!Fresh
  <2> QED
    BY <2>3, <2>4, <2>5, CollectStays
<1>7. CASE tag # 0 /\ Second!Fresh(p[1], mult.dtsequence)
  <2>1. /\ m \in [dtsequence : Nat, seg_seq : Nat, pseg : Seq(1 .. Segments),
                  seg_count : 0 .. Segments, seg_high : {0, Segments}]
        /\ m.seg_seq = p[1] /\ m.dtsequence = mult.dtsequence
        /\ m.pseg = Append(Old(p), p[2])
        /\ Collecting(p[1], m.pseg) /\ LastOf(m.pseg) = p[2]
        /\ m.seg_count = Len(m.pseg) /\ Len(m.pseg) = Len(Old(p)) + 1
        /\ m.seg_high = IF p[2] = Segments THEN Segments ELSE 0
        /\ Second!Complete(m) => m.pseg = [k \in 1 .. Segments |-> k] /\ Second!Contains(m.pseg, 1)
        /\ p[2] = Segments /\ Len(m.pseg) = Segments => Second!Complete(m)
    BY CollectMore
  <2> HIDE DEF m
  <2>2. ~(tag < 1) /\ tag = Second!TimeOf(p[1]) /\ tag \in Nat /\ p[1] > mult.dtsequence
    BY <1>2, <1>7 DEF Second!Fresh
  <2>3. /\ mult' = IF ~Second!Complete(m) THEN m
                   ELSE [m EXCEPT !.seg_count = 0, !.seg_seq = Second!NoSequence,
                                  !.dtsequence = IF Second!Contains(m.pseg, 1) THEN p[1] ELSE @]
        /\ merged' = IF Second!Complete(m) /\ Second!Contains(m.pseg, 1) THEN Append(merged, r) ELSE merged
    BY <1>7, <2>2 DEF Second!process_mult, m
  <2>4. /\ Second!After(p) \in Nat \X (1 .. Segments)
        /\ Second!Number(Second!After(p)) = Second!Number(p) + 1
        /\ seconds_pos' = Second!After(p) /\ lastseq' = p[1]
        /\ dt_data_sequence' = p[1] /\ data_timetag' = tag
    BY <1>1, AfterNext DEF Arrives
  <2>5. Second!Number(seconds_pos)' = Second!Number(p) + 1
    BY <2>4 DEF Second!Number
  <2>6. ASSUME p[1] = mult.seg_seq, p[2] = Segments, mult.seg_count = Segments - 1
        PROVE  Second!Complete(m)
    <3>1. Old(p) = mult.pseg /\ mult.seg_seq # Second!NoSequence
      BY <1>1, <2>6 DEF Old, Second!NoSequence
    <3>2. Len(Old(p)) = Segments - 1
      BY <2>6, <3>1 DEF CollectInv
    <3> QED
      BY <1>1, <2>1, <2>6, <3>2
  <2>7. CASE ~Second!Complete(m)
    <3>1. mult' = m /\ merged' = merged
      BY <2>3, <2>7
    <3>2. Behind(mult.dtsequence)'
      <4> SUFFICES ASSUME NEW x, x = mult.dtsequence' PROVE Behind(x)'
        OBVIOUS
      <4> QED
        BY <1>3, <2>1, <3>1
    <3>3. MergedInv'
      BY <2>1, <3>1, <3>2 DEF MergedInv, Second!MergedIsComplete
    <3>4. Second!Number(<<mult.seg_seq, LastOf(mult.pseg)>>)' = Second!Number(p)
      BY <2>1, <3>1 DEF Second!Number, LastOf
    <3>5. Collecting(mult.seg_seq, mult.pseg)'
      BY <2>1, <3>1 DEF Collecting, LastOf
    <3>6. /\ mult'.seg_seq # Second!NoSequence
          /\ mult'.seg_high # 0 => p[2] = Segments
      BY <1>1, <2>1, <3>1 DEF Second!NoSequence
    <3>7. LastOf(mult.pseg)' = p[2]
      BY <2>1, <3>1 DEF LastOf
    <3>8. mult' \in [dtsequence : Nat, seg_seq : Nat \cup {Second!NoSequence}, pseg : Seq(1 .. Segments),
                     seg_count : 0 .. Segments, seg_high : {0, Segments}]
      BY <2>1, <3>1
    <3>9. /\ mult'.seg_count = Len(mult'.pseg) /\ mult'.seg_seq > mult'.dtsequence
          /\ Second!Number(p) < Second!Number(seconds_pos)' /\ lastseq' # 0
          /\ mult'.seg_seq <= dt_data_sequence' /\ data_timetag' > 0
      <4>1. mult'.seg_count = Len(mult'.pseg) /\ mult'.seg_seq > mult'.dtsequence
        BY <2>1, <2>2, <3>1
      <4>2. Second!Number(p) < Second!Number(seconds_pos)'
        BY <1>1, <2>5
      <4>3. lastseq' # 0 /\ data_timetag' > 0
        BY <1>1, <2>2, <2>4
      <4>4. mult'.seg_seq <= dt_data_sequence'
        BY <1>1, <2>1, <2>4, <3>1
      <4> QED
        BY <4>1, <4>2, <4>3, <4>4
    <3>10. CollectInv'
      BY <3>4, <3>5, <3>6, <3>7, <3>8, <3>9 DEF CollectInv
    <3> QED
      BY <2>6, <2>7, <3>3, <3>10
  <2>8. CASE Second!Complete(m)
    <3>1. m.pseg = [k \in 1 .. Segments |-> k] /\ Second!Contains(m.pseg, 1)
      BY <2>1, <2>8
    <3>2. /\ mult' = [m EXCEPT !.seg_count = 0, !.seg_seq = Second!NoSequence, !.dtsequence = p[1]]
          /\ merged' = Append(merged, r)
      BY <2>3, <2>8, <3>1
    <3>3. /\ mult' \in [dtsequence : Nat, seg_seq : Nat \cup {Second!NoSequence}, pseg : Seq(1 .. Segments),
                        seg_count : 0 .. Segments, seg_high : {0, Segments}]
          /\ mult'.seg_seq = Second!NoSequence /\ mult'.seg_count = 0 /\ mult'.dtsequence = p[1]
      <4> DEFINE T == Seq(1 .. Segments)
      <4>1. /\ m \in [dtsequence : Nat, seg_seq : Nat, pseg : T,
                      seg_count : 0 .. Segments, seg_high : {0, Segments}]
            /\ 0 \in 0 .. Segments /\ p[1] \in Nat
        BY <1>1, <2>1
      <4> HIDE DEF T
      <4>2. /\ mult' \in [dtsequence : Nat, seg_seq : Nat \cup {Second!NoSequence}, pseg : T,
                          seg_count : 0 .. Segments, seg_high : {0, Segments}]
            /\ mult'.seg_seq = Second!NoSequence /\ mult'.seg_count = 0 /\ mult'.dtsequence = p[1]
        BY <3>2, <4>1
      <4> QED
        BY <4>2 DEF T
    <3>4. CollectInv'
      BY <3>3 DEF CollectInv
    <3>5. r \in R /\ r.sec = p[1] /\ r.tag = Second!TimeOf(r.sec) /\ merged \in Seq(R)
      BY <1>1, <2>1, <2>2 DEF MergedInv
    <3>6. r.segs = [k \in 1 .. Segments |-> k]
      BY <3>1
    <3>7. \A x \in R : x.sec \in Nat
      OBVIOUS
    <3> HIDE DEF R, r
    <3>8. /\ Append(merged, r) \in Seq(R) /\ Append(merged, r) # << >>
          /\ Len(Append(merged, r)) = Len(merged) + 1 /\ Len(merged) \in Nat
          /\ LastOf(Append(merged, r)) = r
          /\ \A i \in 1 .. Len(merged) : Append(merged, r)[i] = merged[i] /\ i \in DOMAIN merged
          /\ DOMAIN Append(merged, r) = 1 .. Len(merged) + 1
          /\ Append(merged, r)[Len(merged) + 1] = r
      BY <3>5, SequenceMore
    <3>9. /\ merged' \in Seq(R) /\ merged' # << >> /\ LastOf(merged') = r
          /\ Len(merged') = Len(merged) + 1
      BY <3>2, <3>8
    <3>10. \A i \in 1 .. Len(merged') - 1 : merged'[i].sec < merged'[i + 1].sec
      <4>1. merged # << >> => LastOf(merged).sec < r.sec
        BY <2>2, <3>5 DEF MergedInv
      <4>2. \A i \in 1 .. Len(merged) - 1 : merged[i].sec < merged[i + 1].sec
        BY DEF MergedInv
      <4> QED
        BY <3>2, <3>5, <3>7, <4>1, <4>2, InOrderMore
    <3>11. ASSUME NEW i \in DOMAIN merged'
           PROVE  /\ merged'[i].tag = Second!TimeOf(merged'[i].sec)
                  /\ merged'[i].segs = [k \in 1 .. Segments |-> k]
      <4>1. CASE i = Len(merged) + 1
        BY <3>2, <3>5, <3>6, <3>8, <4>1
      <4>2. CASE i # Len(merged) + 1
        <5>1. i \in 1 .. Len(merged)
          BY <3>2, <3>8, <3>11, <4>2
        <5>2. merged'[i] = merged[i] /\ i \in DOMAIN merged
          BY <3>2, <3>8, <5>1
        <5> QED
          BY <5>2 DEF MergedInv, Second!MergedIsComplete
      <4> QED
        BY <4>1, <4>2
    <3>12. Behind(mult.dtsequence)'
      <4> SUFFICES ASSUME NEW x, x = mult.dtsequence' PROVE Behind(x)'
        OBVIOUS
      <4>1. Second!Number(seconds_pos)' = p[1] * Segments + p[2] - 1 + 1
        BY <2>5 DEF Second!Number
      <4>2. p[1] * Segments \in Nat
        BY <1>1
      <4>3. Second!Number(seconds_pos)' >= p[1] * Segments + 1
        BY <1>1, <4>1, <4>2
      <4> QED
        BY <1>1, <3>3, <4>3 DEF Behind
    <3>13. mult.dtsequence' = IF merged' = << >> THEN 0 ELSE LastOf(merged').sec
      BY <3>3, <3>5, <3>9
    <3>14. Second!MergedIsComplete'
      BY <3>11 DEF Second!MergedIsComplete
    <3>15. MergedInv'
      BY <3>9, <3>10, <3>11, <3>12, <3>13, <3>14 DEF MergedInv, R
    <3> QED
      BY <3>4, <3>9, <3>15
  <2> QED
    BY <2>7, <2>8
<1> QED
  BY <1>5, <1>6, <1>7

\* A registration starts within what the channels know again.
LEMMA SecondsRestart ==
  ASSUME SecondsInv, Second!Restart
  PROVE  SecondsInv'
<1>1. PICK p \in Second!Packets :
        /\ Second!Number(p) >= oldest /\ Second!Number(p) >= Second!Number(seconds_pos) - Resend
        /\ Second!Number(p) <= Second!Number(seconds_pos) + (IF FALSE THEN Segments ELSE 0)
        /\ seconds_pos' = p /\ oldest' = Second!Number(p)
  BY DEF Second!Restart
<1>2. /\ p \in Nat \X (1 .. Segments) /\ seconds_pos \in Nat \X (1 .. Segments)
      /\ Segments \in Nat /\ Resend \in Nat
  BY SecondsParameters DEF Second!SecondsAssumption, Second!Packets, SecondsInv, TimeInv
<1>3. /\ Second!Number(p) \in Nat /\ Second!Number(seconds_pos) \in Nat
      /\ Second!Number(p) <= Second!Number(seconds_pos) <=>
           (p[1] < seconds_pos[1] \/ (p[1] = seconds_pos[1] /\ p[2] <= seconds_pos[2]))
      /\ p[1] \in Nat /\ seconds_pos[1] \in Nat /\ p[2] \in 1 .. Segments
      /\ seconds_pos[2] \in 1 .. Segments
  BY <1>2, Positions
<1>4. Second!Number(p) <= Second!Number(seconds_pos)
  BY <1>1, <1>3, SecondsParameters
<1>5. /\ data_timetag > 0 /\ UNCHANGED <<dt_data_sequence, data_timetag, ones, merged>>
      /\ lastseq' = 0 /\ one' = one
      /\ mult' = [Second!init_lcq EXCEPT !.dtsequence = mult.dtsequence]
  BY SecondsParameters DEF Second!Restart, Second!Restored
<1>6. /\ dt_data_sequence \in Nat /\ dt_data_sequence # 0 /\ oldest \in Nat
      /\ \/ seconds_pos[1] <= dt_data_sequence
         \/ (seconds_pos[1] = dt_data_sequence + 1 /\ seconds_pos[2] = 1)
  BY <1>5 DEF SecondsInv, TimeInv
<1>7. p[1] <= dt_data_sequence \/ (p[1] = dt_data_sequence + 1 /\ p[2] = 1)
  BY <1>2, <1>3, <1>4, <1>6
<1>8. Second!Number(seconds_pos)' = Second!Number(p)
  BY <1>1 DEF Second!Number
<1>9. TimeInv'
  BY <1>1, <1>2, <1>3, <1>5, <1>6, <1>7, <1>8 DEF SecondsInv, TimeInv
<1>10. ASSUME NEW x, Behind(x) PROVE Behind(x)'
  <2>1. Second!Number(seconds_pos') = Second!Number(p)
    BY <1>1
  <2> QED
    BY <1>1, <1>3, <1>6, <1>10, <2>1, BehindKept
<1>11. Behind(one)'
  <2> SUFFICES ASSUME NEW x, x = one' PROVE Behind(x)'
    OBVIOUS
  <2> QED
    BY <1>5, <1>10 DEF SecondsInv, OnesInv
<1>12. OnesInv'
  BY <1>5, <1>11 DEF SecondsInv, OnesInv
<1>13. mult.dtsequence \in Nat
  BY DEF SecondsInv, CollectInv
<1>14. /\ mult' = [dtsequence |-> mult.dtsequence, seg_seq |-> Second!NoSequence, pseg |-> << >>,
                   seg_count |-> 0, seg_high |-> 0]
  BY <1>5 DEF Second!init_lcq
<1>15. Behind(mult.dtsequence)'
  <2> SUFFICES ASSUME NEW x, x = mult.dtsequence' PROVE Behind(x)'
    OBVIOUS
  <2> QED
    BY <1>10, <1>14 DEF SecondsInv, MergedInv
<1>16. MergedInv'
  BY <1>5, <1>14, <1>15 DEF SecondsInv, MergedInv, Second!MergedIsComplete
<1>17. CollectInv'
  BY <1>2, <1>13, <1>14 DEF CollectInv
<1>18. links' \in Nat
  BY DEF Second!Restart, SecondsInv
<1> QED
  BY <1>9, <1>12, <1>16, <1>17, <1>18 DEF SecondsInv

\* Data of a packet.
LEMMA SecondsData ==
  ASSUME SecondsInv, Second!Data
  PROVE  /\ SecondsInv'
         /\ (seconds_pos' = <<mult.seg_seq + 1, 1>> /\ mult.seg_count = Segments - 1)
              => Len(merged') = Len(merged) + 1
<1>1. PICK p \in Second!Packets :
        /\ Second!Number(p) >= Second!Number(seconds_pos)
        /\ Second!Number(p) <= Second!Number(seconds_pos) + (IF lastseq = 0 THEN 0 ELSE 2 * Segments)
        /\ oldest' = IF Second!Number(p) > Second!Number(seconds_pos) THEN Second!Number(p) ELSE oldest
        /\ LET tag == Second!Timetag(p[1], p[2] = 1)
           IN /\ data_timetag' = tag
              /\ dt_data_sequence' = p[1] /\ lastseq' = p[1]
              /\ IF p[2] = Whole THEN Second!process_one(p[1], tag) ELSE UNCHANGED <<one, ones>>
              /\ Second!process_mult(p[1], p[2], tag)
        /\ seconds_pos' = Second!After(p)
  BY DEF Second!Data
<1> DEFINE tag == Second!Timetag(p[1], p[2] = 1)
<1>2. /\ Arrives(p, tag)
      /\ IF p[2] = Whole THEN Second!process_one(p[1], tag) ELSE UNCHANGED <<one, ones>>
      /\ Second!process_mult(p[1], p[2], tag)
  BY <1>1 DEF Arrives
<1> HIDE DEF tag
<1>3. TimeInv /\ OnesInv /\ MergedInv /\ CollectInv
  BY DEF SecondsInv
<1>4. TimeInv' /\ OnesInv'
  BY <1>2, <1>3, TimeArrives, OnesArrives
<1>5. /\ MergedInv' /\ CollectInv'
      /\ (p[1] = mult.seg_seq /\ p[2] = Segments /\ mult.seg_count = Segments - 1)
           => Len(merged') = Len(merged) + 1
  BY <1>2, <1>3, MultArrives
<1>6. ASSUME seconds_pos' = <<mult.seg_seq + 1, 1>>, mult.seg_count = Segments - 1
      PROVE  p[1] = mult.seg_seq /\ p[2] = Segments
  <2>1. /\ p \in Nat \X (1 .. Segments) /\ p[1] \in Nat \ {0} /\ p[2] \in 1 .. Segments
    BY <1>2, <1>3, Arrived
  <2>2. Segments \in Nat \ {0, 1}
    BY SecondsParameters DEF Second!SecondsAssumption
  <2>3. mult.seg_seq \in Int
    BY <1>3 DEF CollectInv, Second!NoSequence
  <2>4. CASE p[2] = Segments
    <3>1. <<p[1] + 1, 1>> = <<mult.seg_seq + 1, 1>>
      BY <1>1, <1>6, <2>4 DEF Second!After
    <3> QED
      BY <2>1, <2>3, <2>4, <3>1
  <2>5. CASE p[2] # Segments
    <3>1. <<p[1], p[2] + 1>> = <<mult.seg_seq + 1, 1>>
      BY <1>1, <1>6, <2>5 DEF Second!After
    <3> QED
      BY <2>1, <2>2, <3>1
  <2> QED
    BY <2>4, <2>5
<1>7. links' \in Nat
  BY DEF Second!Data, SecondsInv
<1> QED
  BY <1>4, <1>5, <1>6, <1>7 DEF SecondsInv

LEMMA SecondsBegin == Second!Init => SecondsInv
<1> SUFFICES ASSUME Second!Init PROVE SecondsInv
  OBVIOUS
<1> DEFINE p == <<FirstSecond, 1>>
<1>1. /\ FirstSecond \in Nat \ {0} /\ Segments \in Nat \ {0} /\ p \in Nat \X (1 .. Segments)
  BY SecondsParameters DEF Second!SecondsAssumption
<1> HIDE DEF p
<1>2. seconds_pos = p /\ Second!Number(seconds_pos) \in Nat
  BY <1>1, Positions DEF Second!Init, p
<1>3. TimeInv
  BY <1>1, <1>2 DEF Second!Init, TimeInv, p
<1>4. Behind(0)
  <2>1. FirstSecond * Segments \in Nat /\ FirstSecond * Segments >= 1 /\ 0 * Segments = 0
    BY <1>1
  <2>2. Second!Number(seconds_pos) = FirstSecond * Segments + 1 - 1
    BY <1>2 DEF Second!Number, p
  <2> QED
    BY <2>1, <2>2 DEF Behind
<1>5. OnesInv
  BY <1>4 DEF Second!Init, OnesInv
<1>6. mult = [dtsequence |-> 0, seg_seq |-> Second!NoSequence, pseg |-> << >>,
              seg_count |-> 0, seg_high |-> 0]
  BY DEF Second!Init, Second!init_lcq
<1>7. MergedInv
  BY <1>4, <1>6 DEF Second!Init, MergedInv, Second!MergedIsComplete
<1>8. CollectInv
  BY <1>1, <1>6 DEF CollectInv
<1>9. links \in Nat
  BY DEF Second!Init
<1> QED
  BY <1>3, <1>5, <1>7, <1>8, <1>9 DEF SecondsInv

LEMMA SecondsHold ==
  SecondsInv => Second!SecondsTypeOK /\ Second!SecondsAreTimed /\ Second!SecondsOnceInOrder /\ Second!MergedIsComplete
<1> SUFFICES ASSUME SecondsInv
             PROVE  Second!SecondsTypeOK /\ Second!SecondsAreTimed /\ Second!SecondsOnceInOrder /\ Second!MergedIsComplete
  OBVIOUS
<1>1. Second!SecondsTypeOK
  BY DEF SecondsInv, TimeInv, CollectInv, Second!SecondsTypeOK
<1>2. Second!SecondsAreTimed /\ Second!SecondsOnceInOrder /\ Second!MergedIsComplete
  BY DEF SecondsInv, OnesInv, MergedInv, Second!SecondsAreTimed, Second!SecondsOnceInOrder
<1> QED
  BY <1>1, <1>2

LEMMA SecondsStays ==
  ASSUME SecondsInv, UNCHANGED Second!vars
  PROVE  SecondsInv'
<1>1. TimeInv'
  BY DEF SecondsInv, TimeInv, Second!vars, Second!lib, Second!Number
<1>2. OnesInv'
  BY DEF SecondsInv, OnesInv, Behind, LastOf, Second!vars, Second!lib, Second!Number
<1>3. MergedInv'
  BY DEF SecondsInv, MergedInv, Behind, LastOf, Second!vars, Second!lib, Second!Number, Second!MergedIsComplete
<1>4. CollectInv'
  BY DEF SecondsInv, CollectInv, Collecting, LastOf, Second!vars, Second!lib, Second!Number
<1>5. links' \in Nat
  BY DEF SecondsInv, Second!vars
<1> QED
  BY <1>1, <1>2, <1>3, <1>4, <1>5 DEF SecondsInv

-----------------------------------------------------------------------------
NoRef == -1
Token(tok, num) ==
  [tok |-> tok, num |-> num, ref |-> NoRef, name |-> "", dets |-> << >>, ctrl |-> NoRef,
   fir |-> NoRef, src |-> "", points |-> << >>]
Det(num, def) == [num |-> num, def |-> def]
Lcq(num, src) == [Token("LCQ", num) EXCEPT !.src = src]
FullTokens == <<
  Token("IIR", 1), [Token("DET", 1) EXCEPT !.ref = 1],
  [Lcq(1, "1@100") EXCEPT !.dets = <<Det(5, 1)>>, !.ctrl = 2],
  [Lcq(2, "prev") EXCEPT !.ref = 1, !.fir = 0],
  [Lcq(4, "1@100") EXCEPT !.ctrl = 7],
  [Token("CTRL", 1) EXCEPT !.points = <<5>>], [Token("CTRL", 2) EXCEPT !.points = <<5, 6>>] >>
OtherTokens == <<Lcq(3, "2@100")>>
NamedTokens == <<[Token("FIR", 4) EXCEPT !.name = "VLP389"], Lcq(1, "2@100"),
                 [Lcq(2, "prev") EXCEPT !.ref = 1, !.fir = 4]>>
TokenLists == {FullTokens, OtherTokens, NamedTokens,
               <<Token("NONCOMP", 0)>> \o OtherTokens, <<Token("OLD", 0)>> \o OtherTokens}
EpMasks == {<< >>, <<[chan |-> 1, mask |-> {"port 2"}]>>,
            <<[chan |-> 1, mask |-> {"port 2"}], [chan |-> 3, mask |-> {"port 2"}]>>}

(* A client that aborts nothing, and one that does. *)
VARIABLES
  requests_cmdq, requests_cphase, requests_flight, need_regmsg,
  usermessage_requested, user_message, newuser, client_ping, pingreq, want_config,
  have_config, seen, abort_requested, shown, given, answer, waiting, reads, losses

Served == INSTANCE Requests WITH
  Configs <- {"RQLOG"}, MaxMessages <- 1, MaxLosses <- 1, Aborts <- FALSE,
  MaxPings <- 2, MaxReads <- 1, cmdq <- requests_cmdq, cphase <- requests_cphase,
  flight <- requests_flight

Aborted == INSTANCE Requests WITH
  Configs <- {"RQLOG"}, MaxMessages <- 1, MaxLosses <- 1, Aborts <- TRUE,
  MaxPings <- 1, MaxReads <- 1, cmdq <- requests_cmdq, cphase <- requests_cphase,
  flight <- requests_flight

(* Status of two kinds, one of which a Q335 has not. *)
VARIABLES
  stat_request, extra_status, due, have_status, kept, status_cmdq, status_cphase,
  status_flight, wishes, status_others, aborts, restarts

Fetched == INSTANCE Status WITH
  Wishes <- {{}, {"SER1", "FES"}}, q335 <- TRUE, MaxWishes <- 1, MaxOthers <- 1,
  MaxAborts <- 1, MaxRestarts <- 0, cmdq <- status_cmdq, cphase <- status_cphase,
  flight <- status_flight, others <- status_others

(* Minutes of two seconds; with calls repeated and lost, and without. *)
VARIABLES
  unit, pocs, poc_sockopen, libstate, target_state, q330id_address, dynip_age,
  timer, poc_age, poc_faults

Moved == INSTANCE Poc WITH
  opt_dynamic_ip <- TRUE, opt_ipexpire <- 2, Minute <- 2, RegTime <- 1, Wait <- 3,
  MaxMoves <- 2, MaxAge <- 12, q330id_address_given <- FALSE, MaxFaults <- 2,
  sockopen <- poc_sockopen, age <- poc_age, faults <- poc_faults

Found == INSTANCE Poc WITH
  opt_dynamic_ip <- TRUE, opt_ipexpire <- 2, Minute <- 2, RegTime <- 1, Wait <- 3,
  MaxMoves <- 2, MaxAge <- 12, q330id_address_given <- TRUE, MaxFaults <- 0,
  sockopen <- poc_sockopen, age <- poc_age, faults <- poc_faults

(* Configuration and serial data of one to three blockettes. *)
VARIABLES
  ring, cfg_timer, rest, last_sample, opaque_sent, added

Configuration == INSTANCE Opaque WITH
  Sizes <- {97}, cfgsize <- 436, Messages <- {<<33>>, <<436>>, <<100, 102, 30>>},
  CFG_TIMEOUT <- 2, MaxAdded <- 3, sent <- opaque_sent

(* Clients that may call; clients that read. *)
VARIABLES
  written, nsbuf, nsq_in, nsq_out, netserv_sockopen, haveclient, sockfull,
  listening, netserv_pc, backlog, peer, wire, netserv_got, said, taken, short,
  calls, says, netserv_faults

Server == INSTANCE NetServ WITH
  record_count <- 3, sync_time <- TRUE, Callers <- {"listed", "stranger"}, Room <- 1,
  MaxRecords <- 4, MaxCalls <- 1, MaxSays <- 1, MaxFaults <- 1,
  sockopen <- netserv_sockopen, pc <- netserv_pc, got <- netserv_got,
  faults <- netserv_faults

Sending == INSTANCE NetServ WITH
  record_count <- 3, sync_time <- FALSE, Callers <- {"listed"}, Room <- 2,
  MaxRecords <- 4, MaxCalls <- 2, MaxSays <- 0, MaxFaults <- 0,
  sockopen <- netserv_sockopen, pc <- netserv_pc, got <- netserv_got,
  faults <- netserv_faults

(* A queue of two messages and a record of seven bytes. *)
VARIABLES
  mode, network, msg_lcq, msg_count, msgq, text, messages_age, log_timer,
  nested_log, flushing, messages_sent

Log == INSTANCE Messages WITH
  Clients <- {"client"}, Lengths <- {1, 4}, NONDATA_AREA <- 7, QueueSize <- 3,
  MaxAge <- 1, LOG_TIMEOUT <- 2, MaxMessages <- 4, age <- messages_age,
  sent <- messages_sent

(* Seconds on time, late by a quarter or missed; hours of four. *)
VARIABLES
  t, lasttime, daily_done, last_update, last_data_qual, except_count, need_sats,
  timing_buf, sat_requested, timing_sent, timing_session, seconds, uncounted

Clock == INSTANCE Timing WITH
  ONE <- 4, Steps <- {4, 5, 8}, JumpThresh <- 2, HOUR <- 4, HoursPerDay <- 2,
  Qualities <- {"locked", "between"}, KnownQualities <- {"locked"}, ClockFilt <- 5,
  MaxSeconds <- 3, MaxSessions <- 2, sent <- timing_sent, session <- timing_session

(* Any of five lists of tokens a session; with a client that sets the log, and without. *)
VARIABLES
  phase, tokens_session, tokens, pos, tokens_lcqs, iirchain, defchain, ctrlchain,
  fir_num, mdispatch, highest_lcqnum, non_comp, log, newlog, slogs, cack, freqs,
  client, log_changed, lost

Decoded == INSTANCE Tokens WITH
  TokenLists <- TokenLists, FirNames <- <<"DEC10", "VLP389", "ULP379">>,
  FirNumbers <- <<0, 1, 2>>, Keys <- {"1@100", "2@100"}, None <- NoRef, MaxLost <- 1,
  ClientSets <- FALSE, MaxSessions <- 3, session <- tokens_session,
  lcqs <- tokens_lcqs

Changed == INSTANCE Tokens WITH
  TokenLists <- TokenLists, FirNames <- <<"DEC10", "VLP389", "ULP379">>,
  FirNumbers <- <<0, 1, 2>>, Keys <- {"1@100", "2@100"}, None <- NoRef, MaxLost <- 1,
  ClientSets <- TRUE, MaxSessions <- 2, session <- tokens_session,
  lcqs <- tokens_lcqs

(* Three channels, of which tokens enable one or two. *)
VARIABLES
  state, liberr, epdelays_cmdq, epdelays_lcqs, delay, derived_delay, record,
  epdelay, epcfg, update_ep_timer, qcfg, qdelay, epdly, sessions, changes,
  epdelays_others

Delayed == INSTANCE EpDelays WITH
  EpChannels <- {1, 2, 3}, TokenSets <- {{1}, {1, 2}}, Delays <- {5, 7},
  Port <- "port 1", Other <- "port 2", InitialMasks <- EpMasks, EP_MAXCHAN <- 2,
  EP_UPDATE_TIME <- 2, FirDelay <- 3, MaxSessions <- 2, MaxTokens <- 2,
  MaxChanges <- 1, MaxOther <- 0, cmdq <- epdelays_cmdq, lcqs <- epdelays_lcqs,
  others <- epdelays_others

(* Eight seconds of one station thread. *)
VARIABLES
  onesec, shim_pc, seq, shim_got, gil, processed

Python == INSTANCE Shim WITH
  Threads <- {"new"}, Records <- 8, None <- "none", pc <- shim_pc, got <- shim_got

ASSUME Parameters ==
  /\ Parts \subseteq {"requests", "aborted", "status", "poc", "found", "opaque", "netserv",
                    "netsent", "messages", "timing", "tokens", "client", "delays", "shim",
                    "seconds"}
  /\ Served!RequestsAssumption /\ Aborted!RequestsAssumption
  /\ Fetched!StatusAssumption /\ Moved!PocAssumption /\ Found!PocAssumption
  /\ Configuration!OpaqueAssumption /\ Server!NetServAssumption
  /\ Sending!NetServAssumption /\ Log!MessagesAssumption /\ Clock!TimingAssumption
  /\ Decoded!TokensAssumption /\ Changed!TokensAssumption /\ Delayed!EpAssumption
  /\ Python!ShimAssumption

requests_vars == <<requests_cmdq, requests_cphase, requests_flight, need_regmsg,
  usermessage_requested, user_message, newuser, client_ping, pingreq, want_config,
  have_config, seen, abort_requested, shown, given, answer, waiting, reads, losses>>
status_vars == <<stat_request, extra_status, due, have_status, kept, status_cmdq,
  status_cphase, status_flight, wishes, status_others, aborts, restarts>>
poc_vars == <<unit, pocs, poc_sockopen, libstate, target_state, q330id_address,
  dynip_age, timer, poc_age, poc_faults>>
opaque_vars == <<ring, cfg_timer, rest, last_sample, opaque_sent, added>>
netserv_vars == <<written, nsbuf, nsq_in, nsq_out, netserv_sockopen, haveclient,
  sockfull, listening, netserv_pc, backlog, peer, wire, netserv_got, said, taken,
  short, calls, says, netserv_faults>>
messages_vars == <<mode, network, msg_lcq, msg_count, msgq, text, messages_age,
  log_timer, nested_log, flushing, messages_sent>>
timing_vars == <<t, lasttime, daily_done, last_update, last_data_qual, except_count,
  need_sats, timing_buf, sat_requested, timing_sent, timing_session, seconds,
  uncounted>>
tokens_vars == <<phase, tokens_session, tokens, pos, tokens_lcqs, iirchain,
  defchain, ctrlchain, fir_num, mdispatch, highest_lcqnum, non_comp, log, newlog,
  slogs, cack, freqs, client, log_changed, lost>>
epdelays_vars == <<state, liberr, epdelays_cmdq, epdelays_lcqs, delay,
  derived_delay, record, epdelay, epcfg, update_ep_timer, qcfg, qdelay, epdly,
  sessions, changes, epdelays_others>>
shim_vars == <<onesec, shim_pc, seq, shim_got, gil, processed>>
seconds_vars == <<dt_data_sequence, lastseq, data_timetag, one, mult, held,
  seconds_pos, oldest, links, ones, merged>>

Init ==
  /\ part \in Parts
  /\ Served!Init
  /\ Fetched!Init
  /\ (IF part = "found" THEN Found!Init ELSE Moved!Init)
  /\ part # "poc" /\ part # "found" => poc_sockopen
  /\ Configuration!Init
  /\ (IF part = "netsent" THEN Sending!Init ELSE Server!Init)
  /\ part # "netserv" /\ part # "netsent" => listening
  /\ Log!Init
  /\ part # "messages" => ~network
  /\ Clock!Init
  /\ part # "timing" => t = 1
  /\ Decoded!Init
  /\ part # "tokens" /\ part # "client" => freqs = {}
  /\ Delayed!Init
  /\ part # "delays" => qcfg = << >>
  /\ Python!Init
  /\ Second!Init

(* The parts that do not run stay as they are. *)
Still ==
  /\ part \notin {"requests", "aborted"} => UNCHANGED requests_vars
  /\ part # "status" => UNCHANGED status_vars
  /\ part \notin {"poc", "found"} => UNCHANGED poc_vars
  /\ part # "opaque" => UNCHANGED opaque_vars
  /\ part \notin {"netserv", "netsent"} => UNCHANGED netserv_vars
  /\ part # "messages" => UNCHANGED messages_vars
  /\ part # "timing" => UNCHANGED timing_vars
  /\ part \notin {"tokens", "client"} => UNCHANGED tokens_vars
  /\ part # "delays" => UNCHANGED epdelays_vars
  /\ part # "shim" => UNCHANGED shim_vars
  /\ part # "seconds" => UNCHANGED seconds_vars

Next ==
  \/ part = "requests" /\ Served!Next /\ UNCHANGED part /\ Still
  \/ part = "aborted" /\ Aborted!Next /\ UNCHANGED part /\ Still
  \/ part = "status" /\ Fetched!Next /\ UNCHANGED part /\ Still
  \/ part = "poc" /\ Moved!Next /\ UNCHANGED part /\ Still
  \/ part = "found" /\ Found!Next /\ UNCHANGED part /\ Still
  \/ part = "opaque" /\ Configuration!Next /\ UNCHANGED part /\ Still
  \/ part = "netserv" /\ Server!Next /\ UNCHANGED part /\ Still
  \/ part = "netsent" /\ Sending!Next /\ UNCHANGED part /\ Still
  \/ part = "messages" /\ Log!Next /\ UNCHANGED part /\ Still
  \/ part = "timing" /\ Clock!Next /\ UNCHANGED part /\ Still
  \/ part = "tokens" /\ Decoded!Next /\ UNCHANGED part /\ Still
  \/ part = "client" /\ Changed!Next /\ UNCHANGED part /\ Still
  \/ part = "delays" /\ Delayed!Next /\ UNCHANGED part /\ Still
  \/ part = "shim" /\ Python!Next /\ UNCHANGED part /\ Still
  \/ part = "seconds" /\ Second!Next /\ UNCHANGED part /\ Still

vars == <<part, requests_vars, status_vars, poc_vars, opaque_vars, netserv_vars,
          messages_vars, timing_vars, tokens_vars, epdelays_vars, shim_vars, seconds_vars>>

strong == <<status_vars, poc_vars, shim_vars>>

(* The fairness each part's specification states. Only the actions of the     *)
(* running part are ever enabled, so that the strong fairness of the three    *)
(* parts that need it is stated of the actions of all three together.         *)
Fairness ==
  /\ WF_requests_vars(part = "requests" /\ Served!AbortRequested)
  /\ WF_requests_vars(part = "requests" /\ Served!UserMessageRequested)
  /\ WF_requests_vars(part = "requests" /\ Served!PingRequested)
  /\ WF_requests_vars(part = "requests" /\ Served!WantConfigRead)
  /\ WF_requests_vars(part = "requests" /\ Served!WantConfigWritten("RQLOG"))
  /\ WF_requests_vars(part = "requests" /\ Served!lib_send_next_cmd)
  /\ WF_requests_vars(part = "requests" /\ Served!Answered)
  /\ WF_requests_vars(part = "aborted" /\ Aborted!AbortRequested)
  /\ WF_requests_vars(part = "aborted" /\ Aborted!UserMessageRequested)
  /\ WF_requests_vars(part = "aborted" /\ Aborted!PingRequested)
  /\ WF_requests_vars(part = "aborted" /\ Aborted!WantConfigRead)
  /\ WF_requests_vars(part = "aborted" /\ Aborted!WantConfigWritten("RQLOG"))
  /\ WF_requests_vars(part = "aborted" /\ Aborted!lib_send_next_cmd)
  /\ WF_requests_vars(part = "aborted" /\ Aborted!Answered)
  /\ WF_status_vars(part = "status" /\ Fetched!IntervalOver)
  /\ WF_status_vars(part = "status" /\ Fetched!RequestStatus)
  /\ WF_status_vars(part = "status" /\ Fetched!lib_send_next_cmd)
  /\ WF_poc_vars(part = "found" /\ Found!SendPoc)
  /\ WF_poc_vars(part = "found" /\ Found!Enter)
  /\ WF_poc_vars(part = "found" /\ Found!WaitSecond)
  /\ WF_poc_vars(part = "found" /\ Found!RegSecond)
  /\ WF_poc_vars(part = "found" /\ Found!SessionEnds)
  /\ WF_opaque_vars(part = "opaque" /\ Configuration!Second)
  /\ WF_netserv_vars(part = "netsent" /\ Sending!nsthread)
  /\ WF_netserv_vars(part = "netsent" /\ Sending!Read)
  /\ WF_messages_vars(part = "messages" /\ Log!dump_msgqueue)
  /\ WF_messages_vars(part = "messages" /\ Log!FlushSends)
  /\ WF_messages_vars(part = "messages" /\ Log!Second)
  /\ WF_timing_vars(part = "timing" /\ Clock!RequestStatus)
  /\ WF_timing_vars(part = "timing" /\ Clock!Status)
  /\ WF_tokens_vars(part = "tokens" /\ Decoded!SendSlog)
  /\ WF_tokens_vars(part = "tokens" /\ Decoded!Cack)
  /\ WF_tokens_vars(part = "tokens" /\ Decoded!LogChanged)
  /\ WF_epdelays_vars(part = "delays" /\ Delayed!Decode)
  /\ WF_epdelays_vars(part = "delays" /\ Delayed!RqepdAnswered)
  /\ WF_epdelays_vars(part = "delays" /\ Delayed!RqepcfgAnswered)
  /\ WF_epdelays_vars(part = "delays" /\ Delayed!SepcfgAnswered)
  /\ WF_epdelays_vars(part = "delays" /\ Delayed!EpDelayChange)
  /\ WF_epdelays_vars(part = "delays" /\ Delayed!SecondPasses)
  /\ WF_shim_vars(part = "shim" /\ Python!OtherPython)
  /\ WF_shim_vars(part = "shim" /\ Python!Step("new"))
  /\ \A c \in 1 .. 3 :
       WF_epdelays_vars(part = "delays" /\ qdelay[c] = 0 /\ Delayed!EpMeasures(c))
  /\ SF_strong(\/ part = "status" /\ Fetched!OtherAnswered /\ UNCHANGED <<poc_vars, shim_vars>>
               \/ /\ part = "found" /\ Found!process_poc /\ UNCHANGED <<status_vars, shim_vars>>
                  /\ libstate = "WAIT" /\ unit \in pocs \ pocs'
               \/ part = "shim" /\ Python!Call("new") /\ UNCHANGED <<status_vars, poc_vars>>)
  /\ SF_strong(\/ /\ part = "status" /\ UNCHANGED <<poc_vars, shim_vars>>
                  /\ \E resp \in SUBSET status_flight : Fetched!StatusReceived(resp)
               \/ part = "found" /\ Found!Registered /\ UNCHANGED <<status_vars, shim_vars>>
               \/ part = "shim" /\ Python!Process("new") /\ UNCHANGED <<status_vars, poc_vars>>)

Spec == Init /\ [][Next]_vars /\ Fairness

(* Messages are logged once, in order, and not for longer than they may wait  *)
(* (libmsgs.c); the timing blockettes of a log account for every second, one  *)
(* a day, and no oftener than the filter lets them (liblogs.c).               *)
MessagesAreExact ==
  /\ part = "messages" => Log!MessagesTypeOK /\ Log!LoggedInOrder /\ Log!TextIsTimed
  /\ part = "timing" => /\ Clock!TimingTypeOK /\ Clock!CountsAddUp /\ Clock!DailyOnce
                        /\ Clock!ValidIsSparse

(* Decoded channels refer to what the tokens name, are dispatched to once and *)
(* differ in number; the Q330 sends what they need (libtokens.c, libsampcfg.c)*)
(* and a record has the one delay that its channel was given (libcmds.c).     *)
TokensAreExact ==
  /\ part = "tokens" => /\ Decoded!ReferencesAreMet /\ Decoded!DispatchedOnce
                        /\ Decoded!NumbersDiffer /\ Decoded!FilterIsNamed
                        /\ Decoded!MappingIsKept
  /\ part = "client" => Changed!LogIsFreqs
  /\ part = "delays" => /\ Delayed!RecordHasOneDelay /\ Delayed!DelayIsLatest
                        /\ Delayed!ChannelsFit

(* The clients of the network server get records in order, the latest ones    *)
(* among them (libnetserv.c); a Q330 is registered with only at an address it *)
(* has called from (libpoc.c); a ping that was sent is still queued           *)
(* (libcmds.c); Python processes whole seconds in order (q330.c).             *)
ServedInOrder ==
  /\ part = "netserv" => Server!InOrder /\ Server!LatestAreKept
  /\ part = "poc" => Moved!RegistersSomewhere
  /\ part = "requests" => Served!PingInProgress
  /\ part = "shim" => Python!ProcessedInOrder

(* A second is given on under its own time, once and in order, one of several *)
(* segments only with all of them, and as soon as the last of them has come   *)
(* (libslider.c, libsample.c).                                                *)
SecondsAreExact ==
  /\ [](part = "seconds" => /\ Second!SecondsTypeOK /\ Second!SecondsAreTimed
                            /\ Second!SecondsOnceInOrder /\ Second!MergedIsComplete)
  /\ Second!WholeSecondsAreProcessed

(* A ping is answered, a client that waits for a configuration or a status is *)
(* told or given up on, a Q330 that moves is found again, the mapping that    *)
(* tokens need is set, the delays become known and each second is processed:  *)
(* PingIsAnswered, ConfigIsTold, StatusIsFetched, FoundAtLast, MappingIsSet,  *)
(* DelaysAreKnown and EachIsProcessed of the parts. As only one of them runs, *)
(* they are stated as one formula.                                            *)
RequestsAreServed ==
  (\/ part = "requests" /\ client_ping # "IDLE"
   \/ part = "aborted" /\ "RQLOG" \in waiting
   \/ part = "status" /\ "SER1" \in extra_status
   \/ part = "found"
   \/ part = "tokens" /\ Decoded!Running /\ ~non_comp
   \/ part = "delays" /\ state = "run" /\ liberr = "none"
   \/ part = "shim" /\ shim_pc["new"] = "header")
  ~>
  (\/ part = "requests" /\ client_ping = "IDLE"
   \/ part = "aborted" /\ "RQLOG" \notin waiting
   \/ part = "status" /\ ("SER1" \in have_status \/ "SER1" \notin extra_status)
   \/ part = "found" /\ libstate = "RUN" /\ q330id_address = unit
   \/ part = "tokens" /\ (~Decoded!Running \/ freqs = Decoded!Needed(tokens_lcqs))
   \/ /\ part = "delays"
      /\ \/ state # "run"
         \/ Cardinality(Delayed!Chans(qcfg) \cup epdelays_lcqs) > 2
         \/ \A c \in epdelays_lcqs : delay[c] # 0
   \/ /\ part = "shim" /\ shim_pc["new"] = "idle"
      /\ \E i \in DOMAIN processed : processed[i].of["samples"] = Python!Mine("new"))

(* A message, a record of timing, a configuration or a record in the server's *)
(* ring that waits is sent at last: WaitingIsSent, WaitingIsFinished,         *)
(* ConfigIsSent and QueueIsSent of the parts.                                 *)
RecordsAreSent ==
  \A n \in 1 .. 4 :
    (\/ part = "messages" /\ n \in Log!Numbers /\ network
     \/ part = "timing" /\ need_sats
     \/ part = "opaque" /\ ring["cfg"].blockettes # << >>
     \/ part = "netsent" /\ haveclient /\ nsq_in # nsq_out)
    ~>
    (\/ /\ part = "messages"
        /\ \/ mode # "run"
           \/ \E i \in DOMAIN messages_sent : \E j \in DOMAIN messages_sent[i] :
                messages_sent[i][j].number = n
     \/ part = "timing" /\ ~need_sats
     \/ part = "opaque" /\ ring["cfg"].blockettes = << >>
     \/ part = "netsent" /\ (~haveclient \/ nsq_in = nsq_out))

-----------------------------------------------------------------------------
(* The proof of ServedInOrder: a behaviour is one of the part that runs, so *)
(* an invariant of the part is one while it runs.  That of the server is    *)
(* proved in NetServ for all its constants.                                 *)

\* A station that registers, or is to, has an address.
PocInv ==
  /\ unit \in Nat \ {0} /\ pocs \subseteq Nat \ {0} /\ q330id_address \in Nat
  /\ "REG" \in {libstate, target_state} => q330id_address # Moved!None

\* A client that aborts nothing: what is in flight stays in the queue.
PingInv ==
  /\ requests_cmdq \in Seq({"PING", "UMSG", "RQLOG"}) /\ ~abort_requested
  /\ requests_cphase = "WAIT" => requests_cmdq # << >>
  /\ Served!PingInProgress

\* Records the thread has processed, and those it is done with so far.
Finished == IF shim_pc["new"] = "idle" THEN seq["new"] ELSE seq["new"] - 1
WholeRecord(n) == [f \in Python!Fields |-> <<"new", n>>]

\* The record in hand comes through the structure field by field.
ShimInv ==
  /\ seq \in [{"new"} -> Nat] /\ onesec \in [Python!Fields -> {"none", "new"} \X Nat]
  /\ shim_pc \in [{"new"} -> {"idle", "header", "samples", "call", "get", "got", "process"}]
  /\ shim_got \in [{"new"} -> [Python!Fields -> {"none", "new"} \X Nat]]
  /\ processed = [i \in 1 .. Finished |-> [by |-> "new", of |-> WholeRecord(i)]]
  /\ Finished \in Nat
  /\ shim_pc["new"] \notin {"idle", "header"} => onesec["header"] = Python!Mine("new")
  /\ shim_pc["new"] \in {"call", "get", "got", "process"} =>
       onesec["samples"] = Python!Mine("new")
  /\ shim_pc["new"] \in {"got", "process"} => shim_got["new"]["header"] = Python!Mine("new")
  /\ shim_pc["new"] = "process" => shim_got["new"]["samples"] = Python!Mine("new")

PartsInv ==
  /\ part = "netserv" => Server!NetServInv
  /\ part = "poc" => PocInv
  /\ part = "requests" => PingInv
  /\ part = "shim" => ShimInv

LEMMA OnlyThePartRuns ==
  ASSUME [Next]_vars
  PROVE  /\ part' = part
         /\ part = "netserv" => [Server!Next]_(Server!vars)
         /\ part = "poc" => [Moved!Next]_poc_vars
         /\ part = "requests" => [Served!Next]_requests_vars
         /\ part = "shim" => [Python!Next]_shim_vars
<1>1. CASE Next
  BY <1>1 DEF Next
<1>2. CASE UNCHANGED vars
  BY <1>2 DEF vars, requests_vars, poc_vars, netserv_vars, shim_vars, Server!vars,
     Server!ring, Server!client, Server!counters
<1> QED
  BY <1>1, <1>2

LEMMA ServerFits == Server!NetServAssumption
BY DEF Server!NetServAssumption

LEMMA PocStep ==
  ASSUME PocInv, [Moved!Next]_poc_vars
  PROVE  PocInv'
<1> USE DEF PocInv, Moved!None, Moved!station
<1>1. CASE Moved!Move
  BY <1>1 DEF Moved!Move
<1>2. CASE Moved!SendPoc
  BY <1>2 DEF Moved!SendPoc
<1>3. CASE Moved!Lose
  BY <1>3 DEF Moved!Lose
<1>4. CASE Moved!process_poc
  <2>1. PICK a \in pocs : Moved!lib_poc_received(a) /\ pocs' \subseteq pocs /\ unit' = unit
    BY <1>4 DEF Moved!process_poc
  <2>2. CASE libstate = "WAIT"
    BY <2>1, <2>2 DEF Moved!lib_poc_received, Moved!NewAddress
  <2>3. CASE libstate # "WAIT"
    BY <2>1, <2>3 DEF Moved!lib_poc_received
  <2> QED
    BY <2>2, <2>3
<1>5. CASE Moved!Reset
  BY <1>5 DEF Moved!Reset
<1>6. CASE Moved!Enter
  BY <1>6 DEF Moved!Enter
<1>7. CASE Moved!WaitSecond
  BY <1>7 DEF Moved!WaitSecond, Moved!MustWait
<1>8. CASE Moved!RegSecond
  BY <1>8 DEF Moved!RegSecond
<1>9. CASE Moved!Registered
  BY <1>9 DEF Moved!Registered
<1>10. CASE Moved!SessionEnds
  BY <1>10 DEF Moved!SessionEnds
<1>11. CASE UNCHANGED poc_vars
  BY <1>11 DEF poc_vars
<1> QED
  BY <1>1, <1>2, <1>3, <1>4, <1>5, <1>6, <1>7, <1>8, <1>9, <1>10, <1>11 DEF Moved!Next

(* Queueing a command keeps those that are in the queue.                    *)
LEMMA Queueing ==
  ASSUME NEW q \in Seq({"PING", "UMSG", "RQLOG"}), NEW c \in {"PING", "UMSG", "RQLOG"}
  PROVE  /\ Served!Queued(q, c) \in Seq({"PING", "UMSG", "RQLOG"})
         /\ Served!Queued(q, c) # << >>
         /\ Served!Contains(Served!Queued(q, c), c)
         /\ Served!Contains(q, "PING") => Served!Contains(Served!Queued(q, c), "PING")
<1> DEFINE a == Append(q, c)
<1>1. Served!Queued(q, c) = IF Served!Contains(q, c) THEN q ELSE a
  BY DEF Served!Queued
<1>2. /\ a \in Seq({"PING", "UMSG", "RQLOG"}) /\ Len(a) = Len(q) + 1 /\ Len(q) \in Nat
      /\ a[Len(q) + 1] = c /\ \A i \in 1 .. Len(q) : a[i] = q[i]
  OBVIOUS
<1> HIDE DEF a
<1>3. Served!Contains(a, c) /\ a # << >>
  BY <1>2 DEF Served!Contains
<1>4. Served!Contains(q, "PING") => Served!Contains(a, "PING")
  BY <1>2 DEF Served!Contains
<1>5. Served!Contains(q, c) => q # << >>
  BY DEF Served!Contains
<1> QED
  BY <1>1, <1>2, <1>3, <1>4, <1>5

(* A command that is not the ping leaves a ping behind it where it is.      *)
LEMMA Answering ==
  ASSUME NEW q \in Seq({"PING", "UMSG", "RQLOG"}), q # << >>
  PROVE  /\ Tail(q) \in Seq({"PING", "UMSG", "RQLOG"})
         /\ Head(q) # "PING" /\ Served!Contains(q, "PING") => Served!Contains(Tail(q), "PING")
<1>1. /\ Tail(q) \in Seq({"PING", "UMSG", "RQLOG"}) /\ Len(Tail(q)) = Len(q) - 1
      /\ Head(q) = q[1] /\ Len(q) \in Nat \ {0}
      /\ \A i \in 1 .. Len(q) - 1 : Tail(q)[i] = q[i + 1]
  OBVIOUS
<1>2. ASSUME Head(q) # "PING", NEW i \in 1 .. Len(q), q[i] = "PING"
      PROVE  \E j \in 1 .. Len(Tail(q)) : Tail(q)[j] = "PING"
  <2>1. i - 1 \in 1 .. Len(Tail(q)) /\ Tail(q)[i - 1] = "PING"
    BY <1>1, <1>2
  <2> QED
    BY <2>1
<1> QED
  BY <1>1, <1>2 DEF Served!Contains

LEMMA PingStep ==
  ASSUME PingInv, [Served!Next]_requests_vars
  PROVE  PingInv'
<1>1. /\ requests_cmdq \in Seq({"PING", "UMSG", "RQLOG"}) /\ ~abort_requested
      /\ requests_cphase = "WAIT" => requests_cmdq # << >>
      /\ client_ping = "SENT" => Served!Contains(requests_cmdq, "PING")
  BY DEF PingInv, Served!PingInProgress
<1>2. ASSUME UNCHANGED requests_cmdq, UNCHANGED abort_requested,
             requests_cphase' = "WAIT" => requests_cmdq # << >>,
             client_ping' = "SENT" => client_ping = "SENT"
      PROVE  PingInv'
  BY <1>1, <1>2 DEF PingInv, Served!PingInProgress, Served!Contains
<1>3. ASSUME NEW c \in {"PING", "UMSG", "RQLOG"}, Served!new_cmd(c),
             UNCHANGED abort_requested,
             client_ping' = "SENT" => client_ping = "SENT" \/ c = "PING"
      PROVE  PingInv'
  <2>1. requests_cmdq' = Served!Queued(requests_cmdq, c)
    BY <1>3 DEF Served!new_cmd
  <2>2. /\ requests_cmdq' \in Seq({"PING", "UMSG", "RQLOG"}) /\ requests_cmdq' # << >>
        /\ Served!Contains(requests_cmdq', c)
        /\ Served!Contains(requests_cmdq, "PING") => Served!Contains(requests_cmdq', "PING")
    BY <1>1, <2>1, Queueing
  <2> QED
    BY <1>1, <1>3, <2>2 DEF PingInv, Served!PingInProgress, Served!Contains
<1>4. ASSUME requests_cphase = "WAIT", Served!clear_cmsg, UNCHANGED abort_requested,
             client_ping' = "SENT" => client_ping = "SENT" /\ Head(requests_cmdq) # "PING"
      PROVE  PingInv'
  <2>1. requests_cmdq' = Tail(requests_cmdq) /\ requests_cphase' = "IDLE"
    BY <1>4 DEF Served!clear_cmsg
  <2>2. /\ requests_cmdq' \in Seq({"PING", "UMSG", "RQLOG"})
        /\ Head(requests_cmdq) # "PING" /\ Served!Contains(requests_cmdq, "PING") =>
             Served!Contains(requests_cmdq', "PING")
    BY <1>1, <1>4, <2>1, Answering
  <2> QED
    BY <1>1, <1>4, <2>1, <2>2 DEF PingInv, Served!PingInProgress, Served!Contains
<1>5. CASE Served!lib_send_usermessage
  BY <1>1, <1>2, <1>5 DEF Served!lib_send_usermessage, Served!queue, Served!ping
<1>6. CASE Served!lib_ping_request
  BY <1>1, <1>2, <1>6 DEF Served!lib_ping_request, Served!queue
<1>7. CASE Served!lib_abort_command
  BY <1>7 DEF Served!lib_abort_command
<1>8. CASE \E c \in {"RQLOG"} : Served!lib_get_config(c)
  BY <1>1, <1>2, <1>8 DEF Served!lib_get_config, Served!queue, Served!ping
<1>9. CASE Served!AbortRequested
  BY <1>1, <1>9 DEF Served!AbortRequested
<1>10. CASE Served!UserMessageRequested
  <2>1. Served!new_cmd("UMSG") /\ UNCHANGED <<abort_requested, client_ping>>
    BY <1>10 DEF Served!UserMessageRequested, Served!ping
  <2> QED
    BY <1>3, <2>1
<1>11. CASE Served!PingRequested
  <2>1. Served!new_cmd("PING") /\ UNCHANGED abort_requested
    BY <1>11 DEF Served!PingRequested
  <2> QED
    BY <1>3, <2>1
<1>12. CASE Served!WantConfigRead
  BY <1>1, <1>2, <1>12 DEF Served!WantConfigRead, Served!queue, Served!ping
<1>13. CASE \E c \in {"RQLOG"} : Served!WantConfigWritten(c)
  <2>1. Served!new_cmd("RQLOG") /\ UNCHANGED <<abort_requested, client_ping>>
    BY <1>13 DEF Served!WantConfigWritten, Served!ping
  <2> QED
    BY <1>3, <2>1
<1>14. CASE Served!Timeout
  <2>1. requests_cphase = "WAIT" /\ UNCHANGED abort_requested
    BY <1>14 DEF Served!Timeout
  <2>2. CASE Head(requests_cmdq) = "PING"
    <3>1. Served!clear_cmsg /\ client_ping' # "SENT"
      BY <1>14, <2>2 DEF Served!Timeout, Served!Pinged, Served!ping
    <3> QED
      BY <1>4, <2>1, <3>1
  <2>3. CASE Head(requests_cmdq) # "PING"
    <3>1. UNCHANGED <<requests_cmdq, client_ping>> /\ requests_cphase' = "NEED"
      BY <1>14, <2>3 DEF Served!Timeout, Served!ping
    <3> QED
      BY <1>2, <2>1, <3>1
  <2> QED
    BY <2>2, <2>3
<1>15. CASE Served!lib_send_next_cmd
  BY <1>2, <1>15 DEF Served!lib_send_next_cmd, Served!ping
<1>16. CASE Served!MessageShown
  <2>1. /\ requests_cphase = "WAIT" /\ Served!clear_cmsg /\ Head(requests_cmdq) = "UMSG"
        /\ UNCHANGED <<abort_requested, client_ping>>
    BY <1>16 DEF Served!MessageShown, Served!ping
  <2> QED
    BY <1>4, <2>1
<1>17. CASE Served!PingAnswered
  <2>1. /\ requests_cphase = "WAIT" /\ Served!clear_cmsg /\ UNCHANGED abort_requested
        /\ client_ping' # "SENT"
    BY <1>17 DEF Served!PingAnswered, Served!Pinged, Served!ping
  <2> QED
    BY <1>4, <2>1
<1>18. CASE Served!ConfigReceived
  <2>1. /\ requests_cphase = "WAIT" /\ Served!clear_cmsg /\ Head(requests_cmdq) = "RQLOG"
        /\ UNCHANGED <<abort_requested, client_ping>>
    BY <1>18 DEF Served!ConfigReceived, Served!ping
  <2> QED
    BY <1>4, <2>1
<1>19. CASE Served!Registered
  <2>1. /\ requests_cmdq' = Served!Queued(Served!Queued(requests_cmdq, "PING"), "UMSG")
        /\ UNCHANGED abort_requested
    BY <1>19 DEF Served!Registered
  <2> DEFINE q == Served!Queued(requests_cmdq, "PING")
  <2>2. q \in Seq({"PING", "UMSG", "RQLOG"}) /\ Served!Contains(q, "PING")
    BY <1>1, Queueing
  <2> HIDE DEF q
  <2>3. /\ Served!Queued(q, "UMSG") \in Seq({"PING", "UMSG", "RQLOG"})
        /\ Served!Queued(q, "UMSG") # << >> /\ Served!Contains(Served!Queued(q, "UMSG"), "PING")
    BY <2>2, Queueing
  <2>4. /\ requests_cmdq' \in Seq({"PING", "UMSG", "RQLOG"}) /\ requests_cmdq' # << >>
        /\ Served!Contains(requests_cmdq', "PING")
    BY <2>1, <2>3 DEF q
  <2> QED
    BY <1>1, <2>1, <2>4 DEF PingInv, Served!PingInProgress, Served!Contains
<1>20. CASE UNCHANGED requests_vars
  BY <1>1, <1>2, <1>20 DEF requests_vars
<1> QED
  BY <1>5, <1>6, <1>7, <1>8, <1>9, <1>10, <1>11, <1>12, <1>13, <1>14, <1>15, <1>16,
     <1>17, <1>18, <1>19, <1>20 DEF Served!Next, Served!Timer, Served!Answered

(* When one thread did it all, each record has the number of its place.    *)
LEMMA InOrderOfOne ==
  ASSUME ShimInv
  PROVE  Python!ProcessedInOrder
<1>1. /\ Finished \in Nat
      /\ processed = [j \in 1 .. Finished |-> [by |-> "new", of |-> WholeRecord(j)]]
  BY DEF ShimInv
<1> HIDE DEF Finished
<1>2. /\ DOMAIN processed = 1 .. Finished
      /\ \A i \in 1 .. Finished : processed[i].by = "new" /\ processed[i].of = WholeRecord(i)
  BY <1>1
<1> DEFINE before(i) == {j \in 1 .. i - 1 : processed[j].by = processed[i].by}
<1>3. ASSUME NEW i \in DOMAIN processed
      PROVE  /\ i \in 1 .. i /\ processed[i].of = WholeRecord(i)
             /\ before(i) = {} => i = 1
             /\ before(i) # {} => \E j \in before(i) : /\ \A k \in before(i) : k <= j
                                                       /\ processed[j].of = WholeRecord(i - 1)
  <2>1. i \in 1 .. Finished /\ before(i) = 1 .. i - 1
    BY <1>1, <1>2, <1>3
  <2> HIDE DEF before
  <2>2. i \in 1 .. i /\ processed[i].of = WholeRecord(i)
    BY <1>1, <1>2, <2>1
  <2>3. before(i) = {} => i = 1
    <3>1. i # 1 => i - 1 \in before(i)
      BY <1>1, <2>1
    <3> QED
      BY <3>1
  <2>4. ASSUME before(i) # {}
        PROVE  /\ i - 1 \in before(i) /\ \A k \in before(i) : k <= i - 1
               /\ processed[i - 1].of = WholeRecord(i - 1)
    <3>1. i \in Nat /\ i - 1 \in 1 .. Finished
      BY <1>1, <2>1, <2>4
    <3> QED
      BY <1>2, <2>1, <3>1
  <2> QED
    BY <2>2, <2>3, <2>4
<1> HIDE DEF before
<1>4. ASSUME NEW i \in DOMAIN processed
      PROVE  \E n \in 1 .. i :
               /\ processed[i].of = [f \in Python!Fields |-> <<processed[i].by, n>>]
               /\ before(i) = {} => n = 1
               /\ before(i) # {} =>
                    \E j \in before(i) :
                      /\ \A k \in before(i) : k <= j
                      /\ processed[j].of = [f \in Python!Fields |-> <<processed[i].by, n - 1>>]
  <2>1. processed[i].by = "new"
    BY <1>2
  <2> i \in 1 .. i
    BY <1>3
  <2>2. WITNESS i \in 1 .. i
  <2> QED
    BY <1>3, <2>1 DEF WholeRecord
<1> QED
  BY <1>4 DEF Python!ProcessedInOrder, before

LEMMA ShimStep ==
  ASSUME ShimInv, [Python!Next]_shim_vars
  PROVE  ShimInv'
<1> USE DEF ShimInv, Finished, Python!At, Python!Fields, Python!Mine
<1>1. CASE Python!OtherPython
  BY <1>1 DEF Python!OtherPython
<1>2. CASE Python!Deliver("new")
  BY <1>2 DEF Python!Deliver
<1>3. CASE Python!CopyHeader("new")
  BY <1>3 DEF Python!CopyHeader
<1>4. CASE Python!CopySamples("new")
  BY <1>4 DEF Python!CopySamples, Python!CopiedSamples
<1>5. CASE Python!Call("new")
  BY <1>5 DEF Python!Call
<1>6. CASE Python!GetHeader("new")
  BY <1>6 DEF Python!GetHeader
<1>7. CASE Python!GetSamples("new")
  BY <1>7 DEF Python!GetSamples
<1>8. CASE Python!Process("new")
  <2> DEFINE n == seq["new"]
             r == [by |-> "new", of |-> WholeRecord(n)]
  <2>1. /\ shim_pc["new"] = "process" /\ shim_pc' = [shim_pc EXCEPT !["new"] = "idle"]
        /\ processed' = Append(processed, [by |-> "new", of |-> shim_got["new"]])
        /\ UNCHANGED <<onesec, seq, shim_got>>
    BY <1>8 DEF Python!Process
  <2>2. shim_got["new"] = WholeRecord(n)
    BY <2>1 DEF WholeRecord
  <2>3. /\ n - 1 \in Nat /\ n \in Nat
        /\ processed = [i \in 1 .. n - 1 |-> [by |-> "new", of |-> WholeRecord(i)]]
    BY <2>1
  <2>4. processed' = [i \in 1 .. n |-> [by |-> "new", of |-> WholeRecord(i)]]
    <3>1. processed' = Append(processed, r)
      BY <2>1, <2>2
    <3> HIDE DEF n
    <3> QED
      BY <2>3, <3>1
  <2>5. Finished' = n
    BY <2>1
  <2> QED
    BY <2>1, <2>3, <2>4, <2>5 DEF WholeRecord
<1>9. CASE UNCHANGED shim_vars
  BY <1>9 DEF shim_vars
<1> QED
  BY <1>1, <1>2, <1>3, <1>4, <1>5, <1>6, <1>7, <1>8, <1>9 DEF Python!Next, Python!Step

LEMMA PartsInit ==
  ASSUME Init
  PROVE  PartsInv
<1>1. part = "netserv" => Server!NetServInv
  BY ServerFits, Server!NetServInit DEF Init
<1>2. part = "poc" => PocInv
  BY DEF Init, Moved!Init, PocInv, Moved!None
<1>3. part = "requests" => PingInv
  BY DEF Init, Served!Init, PingInv, Served!PingInProgress
<1>4. part = "shim" => ShimInv
  BY DEF Init, Python!Init, ShimInv, Finished, Python!Fields, Python!Empty, Python!Mine
<1> QED
  BY <1>1, <1>2, <1>3, <1>4 DEF PartsInv

LEMMA PartsStep ==
  ASSUME PartsInv, [Next]_vars
  PROVE  PartsInv'
<1>1. /\ part' = part
      /\ part = "netserv" => [Server!Next]_(Server!vars)
      /\ part = "poc" => [Moved!Next]_poc_vars
      /\ part = "requests" => [Served!Next]_requests_vars
      /\ part = "shim" => [Python!Next]_shim_vars
  BY OnlyThePartRuns
<1>2. part = "netserv" => Server!NetServInv'
  BY <1>1, ServerFits, Server!NetServStep DEF PartsInv
<1>3. part = "poc" => PocInv'
  BY <1>1, PocStep DEF PartsInv
<1>4. part = "requests" => PingInv'
  BY <1>1, PingStep DEF PartsInv
<1>5. part = "shim" => ShimInv'
  BY <1>1, ShimStep DEF PartsInv
<1> QED
  BY <1>1, <1>2, <1>3, <1>4, <1>5 DEF PartsInv

(* The clients of the server are sent the latest records in order, whichever *)
(* thread sends them (libnetserv.c); a station registers only where it has   *)
(* an address (libpoc.c); a ping in flight is in the queue (libcmds.c) and   *)
(* Python processes each second whole, in order and once (q330.c): in every  *)
(* part that runs, whatever the others are.                                  *)
THEOREM PartsServed == Spec => []ServedInOrder
<1>1. Init => PartsInv
  BY PartsInit
<1>2. PartsInv /\ [Next]_vars => PartsInv'
  BY PartsStep
<1>3. PartsInv => ServedInOrder
  <2>1. Server!NetServInv => Server!InOrder /\ Server!LatestAreKept
    BY ServerFits, Server!NetServOrder, Server!NetServLatest
  <2>2. PocInv => Moved!RegistersSomewhere
    BY DEF PocInv, Moved!RegistersSomewhere
  <2>3. PingInv => Served!PingInProgress
    BY DEF PingInv
  <2> QED
    BY <2>1, <2>2, <2>3, InOrderOfOne DEF PartsInv, ServedInOrder
<1> QED
  BY <1>1, <1>2, <1>3, PTL DEF Spec

-----------------------------------------------------------------------------
(* The proof of SecondsAreExact. *)

\* The seconds move in their part only.
LEMMA SecondsRun ==
  ASSUME [Next]_vars
  PROVE  /\ part' = part
         /\ part = "seconds" => [Second!Next]_(Second!vars)
         /\ part # "seconds" => UNCHANGED Second!vars
<1>1. CASE Next
  <2>1. part = "seconds" => Second!Next
    BY <1>1 DEF Next
  <2>2. Still /\ part' = part
    BY <1>1 DEF Next
  <2>3. part # "seconds" => UNCHANGED Second!vars
    BY <2>2 DEF Still, seconds_vars, Second!vars, Second!lib
  <2> QED
    BY <2>1, <2>2, <2>3
<1>2. CASE UNCHANGED vars
  BY <1>2 DEF vars, seconds_vars, Second!vars, Second!lib
<1> QED
  BY <1>1, <1>2

(* Every second is given on under its own time, once and in order, and one of *)
(* several segments whole and at its last segment, however many packets the   *)
(* Q330 drops or repeats over registrations that it tells the time in         *)
(* (libslider.c, libsample.c): for any number of segments and of seconds.     *)
THEOREM SecondsTimed == Spec => SecondsAreExact
<1> DEFINE Last == /\ seconds_pos' = <<mult.seg_seq + 1, 1>> /\ links' = links
                   /\ mult.seg_count = Segments - 1
           Given == Last => Len(merged') = Len(merged) + 1
           Inv == part = "seconds" => SecondsInv
<1>1. Init => Inv
  BY SecondsBegin DEF Init
<1>2. Inv /\ [Next]_vars => Inv'
  <2> SUFFICES ASSUME Inv, [Next]_vars, part' = "seconds" PROVE SecondsInv'
    OBVIOUS
  <2>1. part = "seconds" /\ [Second!Next]_(Second!vars)
    BY SecondsRun
  <2> QED
    BY <2>1, SecondsData, SecondsRestart, SecondsStays DEF Second!Next
<1>3. Inv /\ [Next]_vars => [Given]_(Second!vars)
  <2> SUFFICES ASSUME Inv, [Next]_vars, ~UNCHANGED Second!vars PROVE Given
    OBVIOUS
  <2>1. SecondsInv /\ Second!Next
    BY SecondsRun
  <2>2. ASSUME Second!Restart PROVE links' # links
    BY <2>1, <2>2 DEF Second!Restart, SecondsInv
  <2> QED
    BY <2>1, <2>2, SecondsData DEF Second!Next
<1>4. Inv => (part = "seconds" => /\ Second!SecondsTypeOK /\ Second!SecondsAreTimed
                                  /\ Second!SecondsOnceInOrder /\ Second!MergedIsComplete)
  BY SecondsHold
<1> QED
  BY <1>1, <1>2, <1>3, <1>4, PTL DEF Spec, SecondsAreExact, Second!WholeSecondsAreProcessed
=============================================================================
