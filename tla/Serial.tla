-------------------------------- MODULE Serial --------------------------------
(***************************************************************************)
(* IP packets over a serial line with SLIP (sendpkt, read_from_serial and  *)
(* proc_ip of q330io.c), seen from one end to an end like it.  A packet is *)
(* its bytes, the first one its length; the line loses and changes bytes.  *)
(* On the line and in the buffer a byte carries, as a ghost, the packet    *)
(* and the position it comes from, 0 if it was changed or frames.          *)
(***************************************************************************)
EXTENDS Integers, SequencesExt

CONSTANTS
  Packets,              \* the packets that may be sent
  Noise,                \* what a byte is changed to
  Leftover,             \* bytes that are on the line when it is opened
  MaxBuffer,            \* bytes the buffer takes
  MaxPackets, MaxFaults \* bounds

SLIP_FRM == 192
SLIP_ESC == 219
ESC_FRM == 220
ESC_ESC == 221

SerialAssumption ==
  /\ \A p \in Packets : p # << >> /\ p[1] = Len(p) /\ Len(p) < SLIP_FRM
  /\ Noise \subseteq 0 .. 255 /\ {MaxBuffer, MaxPackets} \subseteq Nat \ {0} /\ MaxFaults \in Nat

VARIABLES
  sent,                 \* packets so far
  line,                 \* bytes under way
  buffer, escpend, needframe,
  received,             \* the packets found to be good, in order
  faults                \* ghost: faults of the line so far

vars == <<sent, line, buffer, escpend, needframe, received, faults>>

Byte(v, p, i) == [v |-> v, p |-> p, i |-> i]
Frame == Byte(SLIP_FRM, 0, 0)

\* needframe is what an earlier use of the line left.
Init ==
  /\ sent = << >> /\ line \in {<< >>, [i \in DOMAIN Leftover |-> Byte(Leftover[i], 0, 0)]}
  /\ buffer = << >> /\ escpend = FALSE /\ needframe \in BOOLEAN
  /\ received = << >> /\ faults = 0

-----------------------------------------------------------------------------
Escaped(v) ==
  CASE v = SLIP_FRM -> <<SLIP_ESC, ESC_FRM>>
    [] v = SLIP_ESC -> <<SLIP_ESC, ESC_ESC>>
    [] OTHER -> <<v>>

\* the bytes of packet p, its number being n
Body(p, n) ==
  FlattenSeq([i \in DOMAIN p |-> [k \in DOMAIN Escaped(p[i]) |-> Byte(Escaped(p[i])[k], n, i)]])

sendpkt(p) ==
  /\ Len(sent) < MaxPackets /\ sent' = Append(sent, p)
  /\ line' = line \o <<Frame>> \o Body(p, Len(sent) + 1) \o <<Frame>>
  /\ UNCHANGED <<buffer, escpend, needframe, received, faults>>

\* The write is cut short: what is missing is not written later.
flushob(p, n) ==
  /\ Len(sent) < MaxPackets /\ faults < MaxFaults
  /\ sent' = Append(sent, p) /\ faults' = faults + 1
  /\ LET all == <<Frame>> \o Body(p, Len(sent) + 1)
     IN  n <= Len(all) /\ line' = line \o SubSeq(all, 1, n)
  /\ UNCHANGED <<buffer, escpend, needframe, received>>

\* The line loses the next byte, or changes it.
Fault ==
  /\ line # << >> /\ faults < MaxFaults /\ faults' = faults + 1
  /\ \/ line' = Tail(line)
     \/ \E v \in Noise : v # Head(line).v /\ line' = <<Byte(v, 0, 0)>> \o Tail(line)
  /\ UNCHANGED <<sent, buffer, escpend, needframe, received>>

-----------------------------------------------------------------------------
\* proc_ip: the length in the header is the number of bytes.
IsPacket(frame) == frame[1].v = Len(frame)

\* The checksums find a packet good: all its bytes are there and none of
\* another one.
Good(frame) ==
  LET n == frame[1].p
  IN  /\ n # 0 /\ Len(frame) = Len(sent[n])
      /\ \A i \in DOMAIN frame : frame[i] = Byte(sent[n][i], n, i)

\* whether a frame has to come before the next packet
Needs(frame) == frame # << >> /\ IsPacket(frame)

Emptied == << >>

\* A framing character ends what is in the buffer.
EndOfFrame ==
  /\ line # << >> /\ Head(line).v = SLIP_FRM /\ line' = Tail(line)
  /\ escpend' = FALSE /\ buffer' = Emptied
  /\ needframe' = Needs(buffer)
  /\ received' = IF buffer # << >> /\ IsPacket(buffer) /\ Good(buffer)
                 THEN Append(received, buffer[1].p) ELSE received
  /\ UNCHANGED <<sent, faults>>

\* fault: the two are mixed up
Unescaped_fault(v) ==
  IF escpend /\ v = ESC_FRM THEN SLIP_ESC
  ELSE IF escpend /\ v = ESC_ESC THEN SLIP_FRM ELSE v

\* What a byte becomes behind an escape character, which stays pending over
\* a byte that is none of the two.
Unescaped(v) ==
  IF escpend /\ v = ESC_FRM THEN SLIP_FRM
  ELSE IF escpend /\ v = ESC_ESC THEN SLIP_ESC ELSE v

Escape ==
  /\ line # << >> /\ Head(line).v = SLIP_ESC /\ ~needframe
  /\ line' = Tail(line) /\ escpend' = TRUE
  /\ UNCHANGED <<sent, buffer, needframe, received, faults>>

\* A byte is put into the buffer, or dropped while a frame is waited for.
Ordinary ==
  /\ line # << >> /\ Head(line).v # SLIP_FRM /\ (Head(line).v = SLIP_ESC => needframe)
  /\ line' = Tail(line)
  /\ LET c == Head(line)
         full == Append(buffer, [c EXCEPT !.v = Unescaped(c.v)])
     IN  IF needframe THEN UNCHANGED <<buffer, escpend>>
         ELSE /\ buffer' = IF Len(full) > MaxBuffer THEN << >> ELSE full
              /\ escpend' = (escpend /\ c.v \notin {ESC_FRM, ESC_ESC})
  /\ UNCHANGED <<sent, needframe, received, faults>>

Next ==
  \/ \E p \in Packets : sendpkt(p) \/ \E n \in 0 .. 2 * Len(p) + 1 : flushob(p, n)
  \/ Fault \/ EndOfFrame \/ Escape \/ Ordinary

Spec == Init /\ [][Next]_vars

-----------------------------------------------------------------------------
\* What is received was sent, in that order and once, whatever bytes packets
\* are made of.
ReceivedInOrder == \A i, j \in DOMAIN received : i < j => received[i] < received[j]

\* A fault of the line, and what is on it when it is opened, costs at most one
\* packet: the reader finds the next frame whatever state the fault leaves.
FaultCostsOne == line = << >> => Len(sent) - Len(received) <= faults
=============================================================================
