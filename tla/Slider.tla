-------------------------------- MODULE Slider --------------------------------
(***************************************************************************)
(* The data link of lib330: the sliding window in which the station thread *)
(* receives the data packets of a Q330 (libslider.c and the timers of      *)
(* libcmds.c that serve it).  A packet is stored in a ring of buffers by   *)
(* its 16-bit sequence number, packets are processed as long as the next   *)
(* one is there, and an acknowledgement, sent at once or a little later,   *)
(* names the last packet processed and those that wait behind a gap.       *)
(*                                                                         *)
(* A packet is known by its absolute number n; on the wire it carries      *)
(* n % SeqMod.  The numbers in the buffers and in taken are only for the   *)
(* properties: the receiver decides on the wire sequence alone.            *)
(*                                                                         *)
(* The Q330 and the network are external.  The network loses, duplicates   *)
(* and reorders messages, but none outlives Lifetime further packets: the  *)
(* 65536 sequence numbers take hours to come round.                        *)
(***************************************************************************)
EXTENDS Integers, Sequences, FiniteSets

CONSTANTS
  SeqMod,               \* sequence numbers: 2^16
  BufCount,             \* pkt_bufs: 256
  WINBUFS,              \* window buffers: 128
  Window,               \* share.log.window, the sending window of the Q330
  AckCount,             \* share.log.ack_cnt
  Lifetime,             \* how far behind the receiver a message may arrive
  FirstPacket,          \* the first packet the Q330 makes
  MaxPackets,           \* bound: the packets it makes are below this one
  MaxInFlight,          \* bound: messages in each direction of the network
  NoPacket,             \* an invalid buffer
  DT_OPEN               \* the message that opens the data connection

ASSUME SliderAssumption ==
  /\ {SeqMod, BufCount, WINBUFS, Window, AckCount, MaxInFlight} \subseteq Nat \ {0}
  /\ {Lifetime, FirstPacket, MaxPackets} \subseteq Nat /\ NoPacket \notin Nat
  /\ SeqMod % BufCount = 0 /\ 1 < WINBUFS
  /\ Window <= WINBUFS /\ WINBUFS <= BufCount /\ Window <= Lifetime
  /\ Lifetime + WINBUFS < SeqMod

VARIABLES
  running,              \* libstate = LIBSTATE_RUN
  link_recv,            \* the link parameters of this registration are known
  last_packet,          \* the sequence number to be processed next
  pkt_bufs,             \* the packet in each buffer, or NoPacket
  ack_counter, ack_delay,
  dataout,              \* the message last put together, DT_OPEN or a DT_DACK
  first,                \* the packet this link began with
  taken                 \* the packets processed since, in order

q330_vars == <<running, link_recv, last_packet, pkt_bufs, ack_counter,
               ack_delay, dataout>>
history == <<first, taken>>

VARIABLES
  opened,               \* the Q330 has received a DT_OPEN
  oldest,               \* all packets below this one have been acknowledged
  acked,                \* those acknowledged beyond a gap
  next,                 \* the next packet to be made
  packets,              \* packets on their way to the host
  answers               \* messages on their way to the Q330

q330_side == <<opened, oldest, acked, next>>
network == <<packets, answers>>
vars == <<q330_vars, history, q330_side, network>>

WINWRAP == WINBUFS - 1
Numbers == FirstPacket .. MaxPackets - 1
Slots == 0 .. BufCount - 1

\* Fault: a sequence number that does not wrap.
Seq16_fault(n) == n

Seq16(n) == n % SeqMod

\* Fault: the mask is one buffer short.
Slot_fault(seq) == seq % (BufCount - 1)

Slot(seq) == seq % BufCount

\* The packet that is to be processed next.
position == first + Len(taken)

Acks == [low : 0 .. SeqMod - 1, map : SUBSET (1 .. WINWRAP), at : Nat]

-----------------------------------------------------------------------------
(* The receiver.                                                           *)

\* Fault: the window is always taken to wrap.
InWindow_fault(seq) ==
  seq >= last_packet \/ seq <= Seq16(last_packet + WINWRAP)

\* The test of process_data on a sequence number, in 16-bit arithmetic.
InWindow(seq) ==
  LET hw == Seq16(last_packet + WINWRAP) IN
  IF hw > last_packet THEN seq >= last_packet /\ seq <= hw
                      ELSE seq >= last_packet \/ seq <= hw

\* The packets that are in sequence from the buffers bufs.
Ready(bufs) ==
  LET there(k) == \A i \in 0 .. k - 1 : bufs[Slot(last_packet + i)] # NoPacket
      count == CHOOSE k \in 0 .. BufCount :
                 there(k) /\ (k = BufCount \/ ~there(k + 1))
  IN  [i \in 1 .. count |-> bufs[Slot(last_packet + i - 1)]]

\* A message is handed to the network, which may lose it.
Transmit(message) ==
  answers' \in {answers}
    \union {m \in {answers \union {message}} : Cardinality(m) <= MaxInFlight}

\* Fault: the packet waited for is named as the last one processed.
Dack_fault(bufs, seq) ==
  [low |-> seq,
   map |-> {i \in 1 .. WINWRAP : bufs[Slot(seq + i - 1)] # NoPacket},
   at  |-> position']

\* The acknowledgement of what the buffers bufs hold when processing has come
\* to seq: the packet before it, and those beyond a gap.  at, the position of
\* the receiver, is only there to tell how old the message is.
Dack(bufs, seq) ==
  [low |-> Seq16(seq + SeqMod - 1),
   map |-> {i \in 1 .. WINWRAP : bufs[Slot(seq + i - 1)] # NoPacket},
   at  |-> position']

\* send_dack, after the buffers have become bufs: process what is in
\* sequence, build the acknowledgement, send it or leave it to the timer.
send_dack(bufs) ==
  LET ready == Ready(bufs)
      seq == Seq16(last_packet + Len(ready))
      left == [s \in Slots |->
                 IF \E i \in 1 .. Len(ready) : s = Slot(last_packet + i - 1)
                 THEN NoPacket ELSE bufs[s]]
  IN
  /\ taken' = taken \o ready /\ first' = first
  /\ last_packet' = seq
  /\ pkt_bufs' = left
  /\ dataout' = Dack(left, seq)
  /\ IF ack_counter + 1 < AckCount
     THEN /\ ack_counter' = ack_counter + 1
          /\ ack_delay' = TRUE
          /\ UNCHANGED answers
     ELSE /\ ack_counter' = 0
          /\ ack_delay' = FALSE
          /\ Transmit(dataout')

\* Fault: a packet outside of the window is not acknowledged again.
process_data_fault(n) ==
  IF ~link_recv \/ ~running \/ ~InWindow(Seq16(n))
  THEN UNCHANGED <<q330_vars, history, answers>>
  ELSE /\ send_dack([pkt_bufs EXCEPT ![Slot(Seq16(n))] = n])
       /\ UNCHANGED <<running, link_recv>>

\* A packet is ignored unless the link is up and running; one outside of the
\* window is dropped, but acknowledged again.
process_data(n) ==
  IF ~link_recv \/ ~running
  THEN UNCHANGED <<q330_vars, history, answers>>
  ELSE /\ send_dack(IF InWindow(Seq16(n))
                    THEN [pkt_bufs EXCEPT ![Slot(Seq16(n))] = n] ELSE pkt_bufs)
       /\ UNCHANGED <<running, link_recv>>

\* The timer sends what dataout holds when ack_delay has run out.
dack_out ==
  /\ ack_delay
  /\ ack_delay' = FALSE
  /\ IF link_recv THEN Transmit(dataout) ELSE UNCHANGED answers
  /\ UNCHANGED <<running, link_recv, last_packet, pkt_bufs, ack_counter,
                 dataout, history, q330_side, packets>>

send_dopen ==
  /\ ack_counter' = 0 /\ dataout' = DT_OPEN
  /\ Transmit(DT_OPEN)

\* From RUNWAIT to RUN.
StartRun ==
  /\ ~running /\ link_recv
  /\ running' = TRUE
  /\ send_dopen
  /\ UNCHANGED <<link_recv, last_packet, pkt_bufs, ack_delay, history,
                 q330_side, packets>>

\* No packet has come for 10 seconds (100 once data has been timed), far
\* longer than an acknowledgement is put off.
AckTimeout ==
  /\ running /\ ~ack_delay
  /\ send_dopen
  /\ UNCHANGED <<running, link_recv, last_packet, pkt_bufs, ack_delay,
                 history, q330_side, packets>>

\* start_deallocation.
StopRun ==
  /\ running
  /\ running' = FALSE
  /\ UNCHANGED <<link_recv, last_packet, pkt_bufs, ack_counter, ack_delay,
                 dataout, history, q330_side, network>>

\* lib_continue_registration, with the sockets opened anew.
Reregister ==
  /\ ~running
  /\ link_recv' = FALSE
  /\ opened' = FALSE /\ packets' = {} /\ answers' = {}
  /\ UNCHANGED <<running, last_packet, pkt_bufs, ack_counter, ack_delay,
                 dataout, history, oldest, acked, next>>

\* Fault: the packets made since the link was lost are passed over.
reset_link_fault ==
  /\ ~running /\ ~link_recv
  /\ link_recv' = TRUE
  /\ last_packet' = Seq16(next)
  /\ pkt_bufs' = [s \in Slots |-> NoPacket]
  /\ ack_counter' = 0 /\ ack_delay' = FALSE
  /\ first' = next /\ taken' = << >>
  /\ acked' = {}
  /\ UNCHANGED <<running, dataout, opened, oldest, next, network>>

\* reset_link, when the Q330 has told its data sequence number: it will
\* begin with the oldest packet it has.
reset_link ==
  /\ ~running /\ ~link_recv
  /\ link_recv' = TRUE
  /\ last_packet' = Seq16(oldest)
  /\ pkt_bufs' = [s \in Slots |-> NoPacket]
  /\ ack_counter' = 0 /\ ack_delay' = FALSE
  /\ first' = oldest /\ taken' = << >>
  /\ acked' = {}
  /\ UNCHANGED <<running, dataout, opened, oldest, next, network>>

-----------------------------------------------------------------------------
(* The network and the Q330.                                               *)

\* A packet arrives, and perhaps once more later.
PacketArrives(n) ==
  /\ n \in packets /\ n + Lifetime >= position
  /\ process_data(n)
  /\ packets' \in {packets, packets \ {n}}
  /\ UNCHANGED q330_side

PacketExpires(n) ==
  /\ n \in packets /\ n + Lifetime < position
  /\ packets' = packets \ {n}
  /\ UNCHANGED <<q330_vars, history, q330_side, answers>>

\* A packet is sent for the first time, or again.
Q330Sends(n) ==
  /\ opened
  /\ n \in oldest .. next /\ n < oldest + Window /\ n \notin acked
  /\ n < MaxPackets
  /\ next' = IF n = next THEN next + 1 ELSE next
  /\ packets' \in {packets}
       \union {p \in {packets \union {n}} : Cardinality(p) <= MaxInFlight}
  /\ UNCHANGED <<q330_vars, history, opened, oldest, acked, answers>>

\* An acknowledgement of a packet that is not under way is ignored.
AnswerArrives(m) ==
  /\ m \in answers /\ answers' = answers \ {m}
  /\ \/ m = DT_OPEN /\ opened' = TRUE /\ UNCHANGED <<oldest, acked>>
     \/ /\ m # DT_OPEN /\ m.at + Lifetime >= position
        /\ LET low == {n \in oldest - 1 .. next - 1 : n % SeqMod = m.low} IN
           IF low = {} THEN UNCHANGED <<oldest, acked>>
           ELSE \E n \in low :
                  /\ oldest' = n + 1
                  /\ acked' = (acked \union {n + i : i \in m.map}) \ (0 .. n)
        /\ UNCHANGED opened
     \/ /\ m # DT_OPEN /\ m.at + Lifetime < position
        /\ UNCHANGED <<opened, oldest, acked>>
  /\ UNCHANGED <<q330_vars, history, next, packets>>

-----------------------------------------------------------------------------
Init ==
  /\ running = FALSE /\ link_recv = FALSE /\ last_packet = 0
  /\ pkt_bufs = [s \in Slots |-> NoPacket]
  /\ ack_counter = 0 /\ ack_delay = FALSE /\ dataout = DT_OPEN
  /\ first = FirstPacket /\ taken = << >>
  /\ opened = FALSE /\ oldest = FirstPacket /\ acked = {} /\ next = FirstPacket
  /\ packets = {} /\ answers = {}

Next ==
  \/ StartRun \/ StopRun \/ AckTimeout \/ dack_out \/ Reregister \/ reset_link
  \/ \E n \in Numbers :
       PacketArrives(n) \/ PacketExpires(n) \/ Q330Sends(n)
  \/ \E m \in answers : AnswerArrives(m)

Spec == Init /\ [][Next]_vars

(* A network that is not dead delivers now and then what is sent again and *)
(* again, a Q330 sends its oldest packet until it is acknowledged, and the *)
(* timers of the thread run.                                               *)
Fairness ==
  /\ SF_vars(AckTimeout /\ DT_OPEN \in answers')
  /\ SF_vars(\E m \in answers : m # DT_OPEN /\ AnswerArrives(m))
  /\ SF_vars(DT_OPEN \in answers /\ AnswerArrives(DT_OPEN))
  /\ SF_vars(dack_out /\ dataout \in answers')
  /\ WF_vars(\E n \in Numbers : PacketExpires(n))
  /\ \A n \in Numbers :
       /\ SF_vars(Q330Sends(n) /\ n \in packets')
       /\ SF_vars(/\ PacketArrives(n) /\ n \notin packets'
                  /\ ack_counter' = 0 => dataout' \in answers')

FairSpec == Spec /\ Fairness

-----------------------------------------------------------------------------
(* The variables hold what their C types allow.                            *)
SliderTypeOK ==
  /\ running \in BOOLEAN /\ link_recv \in BOOLEAN
  /\ last_packet \in 0 .. SeqMod - 1
  /\ pkt_bufs \in [Slots -> Nat \union {NoPacket}]
  /\ ack_counter \in 0 .. AckCount - 1 /\ ack_delay \in BOOLEAN
  /\ dataout \in Acks \union {DT_OPEN}
  /\ first \in Nat /\ taken \in Seq(Nat)
  /\ opened \in BOOLEAN /\ oldest \in Nat /\ next \in Nat
  /\ acked \subseteq Nat /\ packets \subseteq Nat
  /\ answers \subseteq Acks \union {DT_OPEN}

(* However packets are lost, repeated and reordered, and across the wrap   *)
(* of the sequence number and of the ring: a valid buffer holds the packet *)
(* of its slot in the window that now begins, beyond the one waited for,   *)
(* and never one of a turn of the ring before.                             *)
SlotsHoldWindow ==
  \A s \in Slots :
    pkt_bufs[s] # NoPacket =>
      /\ Slot(pkt_bufs[s]) = s
      /\ pkt_bufs[s] \in position + 1 .. position + WINWRAP

(* The packets of a link are processed in the order the Q330 made them,    *)
(* none twice and none left out.                                           *)
TakenInOrder == \A i \in 1 .. Len(taken) : taken[i] = first + i - 1

(* What the Q330 counts as acknowledged, and will not send again within    *)
(* this link, has been processed or waits in its buffer.                   *)
AckedIsKept ==
  \A n \in 0 .. next - 1 :
    n < oldest \/ n \in acked => n < position \/ pkt_bufs[Slot(n)] = n

(* A link that stays up processes everything the Q330 has to send: no gap  *)
(* lasts, the acknowledgements that were put off or overwritten by a       *)
(* DT_OPEN are made good, and the window of the Q330 moves on.             *)
EverythingIsTaken == <>[]running => <>(position = MaxPackets)

(* The window, the ring and the acknowledgements implement the stream.     *)
Abstract == INSTANCE Stream WITH produced <- next, begun <- first, consumed <- taken
ImplementsStream == Abstract!Spec
===============================================================================
