-------------------------------- MODULE Base96 --------------------------------
(***************************************************************************)
(* Data packets in binary or in Base96 (decode, check_crc and              *)
(* check_for_encoded of q330io.c).  Encoded, three bytes are four          *)
(* characters, the last of which holds the upper bits of the three, behind *)
(* a mask of two hexadecimal digits.  A packet is two check bytes, the     *)
(* number of its data bytes and the data; the check is a sum in place of   *)
(* the CRC.                                                                *)
(***************************************************************************)
EXTENDS Integers, SequencesExt

CONSTANTS
  Values,               \* the data bytes
  Lengths,              \* numbers of data bytes
  Masks,                \* the masks the Q330 encodes with
  Padding               \* bytes that may follow a packet in its last group

Base96Assumption ==
  Values \cup Masks \subseteq 0 .. 255 /\ Lengths \subseteq Nat /\ Padding \subseteq 0 .. 255

QDP_HDR_LTH == 3

VARIABLES
  packet,               \* what was sent
  datain,               \* the datagram, and what becomes of it
  damaged,
  expected,             \* LNKFLG_BASE96: Base96 is expected
  processed             \* what process_data gets

vars == <<packet, datain, damaged, expected, processed>>

Check(s) ==
  LET sum == FoldLeft(LAMBDA n, c : (31 * n + 7 * c + 5) % 65521, 17, s)
  IN  <<sum \div 256, sum % 256>>
Packet(data) == LET rest == <<Len(data)>> \o data IN Check(rest) \o rest

\* exclusive or of bytes
Xor(a, b) ==
  LET upto[i \in 0 .. 8] ==
        IF i = 0 THEN 0
        ELSE upto[i - 1] + 2 ^ (i - 1) * (((a \div 2 ^ (i - 1)) + (b \div 2 ^ (i - 1))) % 2)
  IN  upto[8]

-----------------------------------------------------------------------------
(* The Q330.                                                               *)

HexDigit(n) == IF n < 10 THEN 48 + n ELSE 55 + n

Group(s, mask) ==
  LET b == [i \in 1 .. 3 |-> Xor(s[i], mask)]
  IN  << 32 + (b[1] % 64), 32 + (b[2] % 64), 32 + (b[3] % 64),
         32 + 16 * (b[1] \div 64) + 4 * (b[2] \div 64) + (b[3] \div 64) >>

Encoded(p, mask, pad) ==
  LET whole == p \o [i \in 1 .. (3 - (Len(p) % 3)) % 3 |-> pad]
  IN  <<HexDigit(mask \div 16), HexDigit(mask % 16)>>
        \o FlattenSeq([g \in 1 .. Len(whole) \div 3 |-> Group(SubSeq(whole, 3 * g - 2, 3 * g), mask)])

-----------------------------------------------------------------------------
(* The station thread.                                                     *)

Fails == << >>

IsHex(c) == c \in (48 .. 57) \union (65 .. 70)
Digit(c) == IF c <= 57 THEN c - 48 ELSE c - 55

\* a byte from its character and its upper bits
Byte(c, upper, mask) == Xor((c - 32 + 64 * upper) % 256, mask)

Ungrouped(g, mask) ==
  LET m == (g[4] - 32) % 256
  IN  << Byte(g[1], (m \div 16) % 4, mask), Byte(g[2], (m \div 4) % 4, mask), Byte(g[3], m % 4, mask) >>

\* The length in the header if the groups hold no more than two bytes beside.
Exact(bytes) ==
  LET n == bytes[QDP_HDR_LTH] + QDP_HDR_LTH
  IN  IF Len(bytes) >= QDP_HDR_LTH /\ Len(bytes) - n \in 0 .. 2 THEN n ELSE 0

IsGood(p) == Len(p) >= QDP_HDR_LTH /\ SubSeq(p, 1, 2) = Check(SubSeq(p, 3, Len(p)))

\* fault: the length is the only thing that is checked
Checked_fault(p) == p

Checked(p) == IF IsGood(p) THEN p ELSE Fails

\* the packet, and what the buffer holds after it
decode(d) ==
  IF Len(d) < 2 \/ ~IsHex(d[1]) \/ ~IsHex(d[2]) THEN [packet |-> Fails, left |-> d]
  ELSE LET mask == 16 * Digit(d[1]) + Digit(d[2])
           groups == (Len(d) - 2) \div 4
           bytes == FlattenSeq([g \in 1 .. groups |-> Ungrouped(SubSeq(d, 4 * g - 1, 4 * g + 2), mask)])
           p == SubSeq(bytes, 1, Exact(bytes))
       IN  [packet |-> Checked(p), left |-> bytes]

check_crc(d) == IF IsGood(d) THEN d ELSE Fails

\* fault: the datagram is not put back after a try to decode it
Restored_fault(d) == decode(d).left

\* what is checked after a try to decode, from datasave
Restored(d) == d

check_for_encoded(d) ==
  IF expected
  THEN IF decode(d).packet # Fails THEN decode(d).packet ELSE check_crc(Restored(d))
  ELSE IF check_crc(d) # Fails THEN d ELSE decode(d).packet

-----------------------------------------------------------------------------
Init ==
  /\ packet = << >> /\ datain = << >> /\ damaged = FALSE /\ expected \in BOOLEAN
  /\ processed = Fails

\* A packet arrives in one form or the other, a byte of it changed or not.
Arrives ==
  /\ packet = << >>
  /\ \E l \in Lengths : \E data \in [1 .. l -> Values] :
       /\ packet' = Packet(data)
       /\ \/ datain' = Packet(data)
          \/ \E m \in Masks, pad \in Padding : datain' = Encoded(Packet(data), m, pad)
  /\ UNCHANGED <<damaged, expected, processed>>

Damaged ==
  /\ datain # << >> /\ ~damaged /\ processed = Fails /\ damaged' = TRUE
  /\ \E i \in DOMAIN datain : datain' = [datain EXCEPT ![i] = (@ + 1) % 256]
  /\ UNCHANGED <<packet, expected, processed>>

Read ==
  /\ datain # << >> /\ processed = Fails
  /\ processed' = check_for_encoded(datain)
  /\ datain' = << >>
  /\ UNCHANGED <<packet, damaged, expected>>

Next == Arrives \/ Damaged \/ Read

Spec == Init /\ [][Next]_vars

-----------------------------------------------------------------------------
\* What is processed is what was sent, to the byte, never what a fault or the
\* wrong form makes of it.
OnlyWhatWasSent == processed \in {Fails, packet}

\* Both forms are taken whichever is expected: the flag only says which is
\* tried first.
EitherFormIsTaken == packet # << >> /\ datain = << >> /\ ~damaged => processed = packet
=============================================================================
