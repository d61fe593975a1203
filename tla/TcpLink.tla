------------------------------- MODULE TcpLink -------------------------------
(***************************************************************************)
(* QDP packets over TCP (read_cmd_socket, process_cmd_socket and tcp_error *)
(* of q330io.c): each one comes behind a header with its length and kind,  *)
(* and the stream gives any number of bytes at a time.  A byte is a packet *)
(* and the position in it, the first HDR being the header.                 *)
(***************************************************************************)
EXTENDS Integers, SequencesExt

CONSTANTS
  HDR,                  \* bytes of the header, 4
  MinLth, MAXMTU,       \* the least and the greatest length of a packet
  Lengths,              \* the lengths that are sent, bad ones too
  MovesOverlap,         \* memcpy moves to the left though source and target overlap
  MaxPackets, MaxConnections    \* bounds

TcpLinkAssumption ==
  /\ {HDR, MinLth, MAXMTU, MaxPackets, MaxConnections} \subseteq Nat \ {0}
  /\ MinLth <= MAXMTU /\ Lengths \subseteq Nat \ {0} /\ MovesOverlap \in BOOLEAN

TCPBUFSZ == MAXMTU + HDR

VARIABLES
  sent,                 \* the lengths of the packets of this connection
  net,                  \* the bytes under way
  tcpbuf,               \* the valid bytes, tcpidx of them
  open, looping,        \* the connection; read_cmd_socket is in its loop
  processed,            \* packets given to process_cmd_socket in this connection
  blamed,               \* ghost: the connection was closed for an invalid header
  connections

vars == <<sent, net, tcpbuf, open, looping, processed, blamed, connections>>

Bytes(p, lth) == [i \in 1 .. HDR + lth |-> <<p, i>>]
Spoilt == <<0, 0>>

Init ==
  /\ sent = << >> /\ net = << >> /\ tcpbuf = << >> /\ open = TRUE /\ looping = FALSE
  /\ processed = << >> /\ blamed = FALSE /\ connections = 1

\* The Q330, or the tunnel, sends.
Send(lth) ==
  /\ open /\ Len(sent) < MaxPackets
  /\ sent' = Append(sent, lth) /\ net' = net \o Bytes(Len(sent) + 1, lth)
  /\ UNCHANGED <<tcpbuf, open, looping, processed, blamed, connections>>

-----------------------------------------------------------------------------
\* The socket is closed; the loop that found the error goes on unless it returns.
tcp_error(invalid) ==
  /\ open' = FALSE /\ net' = << >> /\ blamed' = invalid

\* what is asked of recv
Room == TCPBUFSZ - Len(tcpbuf)

\* recv gives some bytes.
Receive(n) ==
  /\ open /\ ~looping /\ n \in 1 .. Room /\ n <= Len(net)
  /\ tcpbuf' = tcpbuf \o SubSeq(net, 1, n) /\ net' = SubSeq(net, n + 1, Len(net))
  /\ looping' = TRUE
  /\ UNCHANGED <<sent, open, processed, blamed, connections>>

\* recv fails, or gives nothing: the connection was closed, or nothing was asked for.
ReceiveFails ==
  /\ open /\ ~looping /\ tcp_error(FALSE)
  /\ UNCHANGED <<sent, tcpbuf, looping, processed, connections>>

Headed == Len(tcpbuf) >= HDR

\* What the first bytes say, a length or that they are none: the header of a
\* packet is four bytes of its own.
Lth ==
  LET p == tcpbuf[1][1]
      is == p # 0 /\ Len(tcpbuf) >= HDR /\ \A i \in 1 .. HDR : tcpbuf[i] = <<p, i>>
  IN  IF is THEN sent[p] ELSE MAXMTU + 1
Valid == MinLth <= Lth /\ Lth <= MAXMTU

\* what a packet takes of the buffer
Used == Lth + HDR

Rest == SubSeq(tcpbuf, Used + 1, Len(tcpbuf))

Moved(left) ==
  IF Len(left) > Used /\ ~MovesOverlap THEN [i \in 1 .. Len(left) |-> Spoilt] ELSE left

Complete == Len(tcpbuf) >= Lth + HDR

\* A packet is processed; when what it causes to be sent cannot be, the
\* connection is closed in the middle of it.
Process ==
  /\ looping /\ Headed /\ Valid /\ Complete
  /\ processed' = Append(processed, SubSeq(tcpbuf, HDR + 1, HDR + Lth))
  /\ tcpbuf' = Moved(Rest)
  /\ \/ UNCHANGED <<open, net, blamed>>
     \/ open /\ tcp_error(FALSE)
  /\ UNCHANGED <<sent, looping, connections>>

InvalidHeader ==
  /\ looping /\ Headed /\ ~Valid /\ tcp_error(TRUE) /\ looping' = FALSE
  /\ UNCHANGED <<sent, tcpbuf, processed, connections>>

NotEnough ==
  /\ looping /\ (Headed => Valid /\ ~Complete) /\ looping' = FALSE
  /\ UNCHANGED <<sent, net, tcpbuf, open, processed, blamed, connections>>

\* what a new connection begins with
Left == << >>

\* open_sockets, after the wait.
Reconnect ==
  /\ ~open /\ ~looping /\ connections < MaxConnections
  /\ connections' = connections + 1 /\ open' = TRUE
  /\ tcpbuf' = Left /\ sent' = << >> /\ processed' = << >> /\ blamed' = FALSE
  /\ UNCHANGED <<net, looping>>

Next ==
  \/ \E l \in Lengths : Send(l)
  \/ \E n \in 1 .. TCPBUFSZ : Receive(n)
  \/ ReceiveFails \/ Process \/ InvalidHeader \/ NotEnough \/ Reconnect

Spec == Init /\ [][Next]_vars

-----------------------------------------------------------------------------
Good == {l \in Lengths : MinLth <= l /\ l <= MAXMTU}
Data(p) == SubSeq(Bytes(p, sent[p]), HDR + 1, HDR + sent[p])

\* The packets of a connection are processed whole, in order and once, however
\* the stream is cut and whatever an earlier connection left.
ProcessedInOrder ==
  /\ Len(processed) <= Len(sent)
  /\ \A i \in 1 .. Len(processed) : processed[i] = Data(i)

\* A connection is closed for an invalid header only if one was sent.
BlamedRightly == blamed => \E i \in 1 .. Len(sent) : sent[i] \notin Good

\* recv is never asked for nothing, which it would answer as if the
\* connection were closed: what is left in the buffer is less than a packet.
NeverFull == ~looping /\ open => Room > 0

\* Nothing stays in the buffer that could be processed: when all bytes have
\* been received and no header was bad, every packet has been processed.
NothingIsHeld ==
  open /\ ~looping /\ net = << >> => Len(processed) = Len(sent)
=============================================================================
