-------------------------------- MODULE Cksum --------------------------------
(***************************************************************************)
(* The checksum of the IP, UDP and TCP headers that a serial line needs    *)
(* (cksum, build_ip, build_udp, build_tcp and their checks in q330io.c).   *)
(* A byte has B values instead of 256 and a word B * B instead of 65536.   *)
(* There are fewer words in a packet than values of a word.  A packet is   *)
(* the checksum and the bytes of header and data that it covers.           *)
(***************************************************************************)
EXTENDS Integers, SequencesExt

CONSTANTS
  B,                    \* values of a byte
  MaxData,              \* bytes of data
  Pseudo                \* the words of the pseudo headers

W == B * B

CksumAssumption ==
  /\ B \in Nat \ {0, 1} /\ MaxData \in Nat
  /\ \A s \in Pseudo : s \in Seq(0 .. W - 1) /\ Len(s) + MaxData < W

Bytes == 0 .. B - 1

VARIABLES psuedo, data

vars == <<psuedo, data>>

-----------------------------------------------------------------------------
\* padded with zero to make the number of bytes even
Padded(s) == IF Len(s) % 2 = 1 THEN Append(s, 0) ELSE s

Words(s) == [i \in 1 .. Len(Padded(s)) \div 2 |-> B * Padded(s)[2 * i - 1] + Padded(s)[2 * i]]

SumOf(s) == FoldLeft(LAMBDA x, y : x + y, 0, s)

\* the carries are added twice
Folded(csum) ==
  LET once == (csum \div W) + (csum % W)
  IN  once + (once \div W)

cksum(p, s) == (W - 1) - (Folded(SumOf(p) + SumOf(Words(s))) % W)

\* build_udp: zero means that there is none
Stored(ck) == IF ck = 0 THEN W - 1 ELSE ck

With(ck, s) == <<ck \div B, ck % B>> \o s

build_ip(s) == With(cksum(<< >>, With(0, s)), s)
build_udp(p, s) == With(Stored(cksum(p, With(0, s))), s)
build_tcp(p, s) == With(cksum(p, With(0, s)), s)

\* proc_ip, proc_udp and proc_tcp: a packet is dropped unless its checksum is zero
Passes(p, s) == cksum(p, s) = 0

-----------------------------------------------------------------------------
Init == psuedo \in Pseudo /\ data = << >>

Next == Len(data) < MaxData /\ \E b \in Bytes : data' = Append(data, b) /\ UNCHANGED psuedo

Spec == Init /\ [][Next]_vars

-----------------------------------------------------------------------------
\* Every packet that is built passes its check, whatever its length and
\* however the carries fall.
BuiltPasses ==
  Passes(<< >>, build_ip(data)) /\ Passes(psuedo, build_udp(psuedo, data))
  /\ Passes(psuedo, build_tcp(psuedo, data))

\* A packet with one byte changed never passes.
ChangeIsFound ==
  LET s == build_udp(psuedo, data)
  IN  \A i \in DOMAIN s, b \in Bytes : b # s[i] => ~Passes(psuedo, [s EXCEPT ![i] = b])

\* A UDP packet always says that it has a checksum.
NeverNone == SubSeq(build_udp(psuedo, data), 1, 2) # <<0, 0>>
=============================================================================
