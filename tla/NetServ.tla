------------------------------- MODULE NetServ -------------------------------
(***************************************************************************)
(* The server of completed records (libnetserv.c): a ring of records that  *)
(* the station thread fills, a thread that accepts one client at a time    *)
(* and sends it the records, and the clients.  Records are numbered in the *)
(* order they are written, 0 is the record that only synchronizes; a ghost *)
(* says what became of them.  The proofs at the end of the module are for  *)
(* any ring, queue of connections and clients.                             *)
(***************************************************************************)
EXTENDS Integers, Sequences, Wrapping

CONSTANTS
  record_count,         \* places of the ring
  sync_time,            \* records that synchronize are sent, or not
  Callers,              \* who connects: of "listed" and "stranger"
  Room,                 \* records the socket takes before the client reads
  MaxRecords, MaxCalls, MaxSays, MaxFaults      \* bounds

NetServAssumption ==
  /\ record_count \in Nat /\ record_count >= 2 /\ Room \in Nat \ {0} /\ sync_time \in BOOLEAN
  /\ Callers \subseteq {"listed", "stranger"} /\ {MaxRecords, MaxCalls, MaxSays, MaxFaults} \subseteq Nat

VARIABLES
  written,              \* records so far
  nsbuf, nsq_in, nsq_out,
  sockopen, haveclient, sockfull,
  listening,            \* npath is a socket, and open
  pc,                   \* where the server's thread is
  backlog,              \* who waits to be accepted
  peer,                 \* the connection: none, up, or how far its end has come
  wire, got,            \* what the client has not yet read, and what it has
  said,                 \* the client has sent something that is not read
  taken, short,         \* ghosts: records passed over as sent, and of these the ones that were not, or not whole
  calls, says, faults   \* counters

ring == <<nsbuf, nsq_in, nsq_out>>
client == <<backlog, peer, wire, got, said>>
counters == <<calls, says, faults>>
vars == <<written, ring, sockopen, haveclient, sockfull, listening, pc, client, taken, short, counters>>

Sync == 0

wrap_buffer(i) == (i + 1) % record_count

\* The port may be taken; then the thread sleeps for good.
open_socket ==
  /\ faults \in {n \in {0, 1} : n <= MaxFaults}
  /\ sockopen = (faults = 0) /\ listening = sockopen

\* lib_ns_start
Init ==
  /\ written = 0 /\ nsbuf = [i \in 0 .. record_count |-> Sync] /\ nsq_in = 0 /\ nsq_out = 0
  /\ open_socket /\ haveclient = FALSE /\ sockfull = FALSE /\ pc = "select"
  /\ backlog = << >> /\ peer = "none" /\ wire = << >> /\ got = << >> /\ said = FALSE
  /\ taken = << >> /\ short = {} /\ calls = 0 /\ says = 0

-----------------------------------------------------------------------------
(* send_netserv_packet: a record, and whether the caller is told it failed. *)

Disconnect ==
  /\ haveclient' = FALSE /\ sockfull' = FALSE /\ peer' = "none" /\ wire' = << >> /\ said' = FALSE

Sent(r) == wire' = Append(wire, r) /\ sockfull' = FALSE /\ UNCHANGED <<haveclient, peer, said>>

\* The socket takes a part of the record, which counts as the record.
SentInPart(r) ==
  /\ faults < MaxFaults /\ Len(wire) = Room - 1
  /\ wire' = wire /\ sockfull' = FALSE /\ UNCHANGED <<haveclient, peer, said>>

\* The socket takes what a client that has closed will not read, and says so
\* the next time.
SentToNobody ==
  /\ peer = "closed" /\ peer' = "broken" /\ sockfull' = FALSE /\ UNCHANGED <<haveclient, wire, said>>

\* Of a connection that was reset the first error is not one of those looked for.
NotSent == peer = "reset" /\ peer' = "broken" /\ UNCHANGED <<haveclient, sockfull, wire, said>>

PassedOn(r) ==
  \/ /\ peer = "up" /\ Len(wire) < Room /\ Sent(r)
     /\ UNCHANGED <<short, faults>>
  \/ SentToNobody /\ UNCHANGED <<short, faults>>
  \/ /\ peer = "up" /\ SentInPart(r)
     /\ short' = short \union ({r} \ {Sync}) /\ faults' = faults + 1
  \/ NotSent /\ short' = short \union ({r} \ {Sync}) /\ faults' = faults

Failed ==
  /\ UNCHANGED <<short, faults>>
  /\ \/ ~haveclient /\ UNCHANGED <<haveclient, sockfull, peer, wire, said>>
     \/ /\ haveclient /\ peer = "up" /\ Len(wire) = Room
        /\ sockfull' = TRUE /\ UNCHANGED <<haveclient, peer, wire, said>>
     \/ haveclient /\ peer = "broken" /\ Disconnect

\* fault: the record stays when it was sent
next_out_same(out, failed) == out

next_out(out, failed) == IF failed THEN out ELSE wrap_buffer(out)

\* buf and out are the ring's contents and head
send_next_buffer(buf, out) ==
  \/ /\ haveclient /\ PassedOn(buf[out])
     /\ nsq_out' = next_out(out, FALSE) /\ taken' = Append(taken, buf[out])
  \/ Failed /\ nsq_out' = next_out(out, TRUE) /\ taken' = taken

-----------------------------------------------------------------------------
(* The station thread. *)

lib_ns_send ==
  /\ written < MaxRecords /\ written' = written + 1
  /\ LET nq  == wrap_buffer(nsq_in)
         out == IF nq = nsq_out THEN wrap_buffer(nsq_out) ELSE nsq_out
         buf == [nsbuf EXCEPT ![nsq_in] = written + 1]
     IN  /\ nsbuf' = buf /\ nsq_in' = nq
         /\ IF nsq_in = nsq_out THEN send_next_buffer(buf, out)
            ELSE /\ nsq_out' = out
                 /\ UNCHANGED <<haveclient, sockfull, peer, wire, said, taken, short, faults>>
  /\ UNCHANGED <<sockopen, listening, pc, backlog, got, calls, says>>

-----------------------------------------------------------------------------
(* nsthread.  What a disconnected client leaves to be read is seen only in *)
(* recv, which finds the socket closed.                                    *)

Goto(p) == pc' = p

Untouched == UNCHANGED <<written, ring, sockopen, taken, calls, says>>

accept_ns_socket ==
  /\ pc = "select" /\ ~haveclient /\ listening /\ backlog # << >>
  /\ backlog' = Tail(backlog) /\ Goto("check")
  /\ \/ /\ Head(backlog) = "listed"
        /\ haveclient' = TRUE /\ sockfull' = FALSE /\ peer' = "up" /\ wire' = << >> /\ said' = FALSE
        /\ UNCHANGED <<listening, faults>>
     \* the one who is not on the list is not closed, but the socket that listens
     \/ /\ Head(backlog) = "stranger" /\ listening' = FALSE
        /\ UNCHANGED <<haveclient, sockfull, peer, wire, said, faults>>
     \* accept returns an error
     \/ /\ faults < MaxFaults /\ faults' = faults + 1 /\ listening' = FALSE
        /\ UNCHANGED <<haveclient, sockfull, peer, wire, said>>
  /\ Untouched /\ UNCHANGED <<got, short>>

Readable == said \/ peer \in {"closed", "reset", "broken"}

Writable == Len(wire) < Room \/ peer # "up"

Select ==
  /\ pc = "select" /\ ~(~haveclient /\ listening /\ backlog # << >>)
  /\ Goto(IF haveclient /\ Readable THEN "read" ELSE "check")
  /\ sockfull' = (sockfull /\ ~(haveclient /\ ~Readable /\ Writable))
  /\ Untouched /\ UNCHANGED <<haveclient, listening, client, short, faults>>

\* Until recv returns 0: that there is nothing to read does not end it.
read_from_client ==
  /\ pc = "read"
  /\ \/ /\ haveclient /\ peer = "reset" /\ Disconnect /\ Goto("check")
     \/ /\ haveclient /\ peer = "up" /\ said' = FALSE /\ Goto("read")
        /\ UNCHANGED <<haveclient, sockfull, peer, wire>>
     \/ /\ (~haveclient \/ peer \in {"closed", "broken"}) /\ Goto("check")
        /\ sockfull' = FALSE          \* such a socket can be written to
        /\ UNCHANGED <<haveclient, peer, wire, said>>
  /\ Untouched /\ UNCHANGED <<listening, backlog, got, short, faults>>

Check ==
  /\ pc = "check" /\ Goto(IF haveclient /\ ~sockfull THEN "queue" ELSE "select")
  /\ Untouched /\ UNCHANGED <<haveclient, sockfull, listening, client, short, faults>>

Queue ==
  /\ pc = "queue"
  /\ IF nsq_in # nsq_out THEN send_next_buffer(nsbuf, nsq_out) /\ Goto("select")
     ELSE /\ \E p \in {"select"} \union (IF sync_time THEN {"sync"} ELSE {}) : Goto(p)
          /\ UNCHANGED <<nsq_out, taken, haveclient, sockfull, peer, wire, said, short, faults>>
  /\ UNCHANGED <<written, nsbuf, nsq_in, sockopen, listening, backlog, got, calls, says>>

\* outside the lock
SendSync ==
  /\ pc = "sync" /\ Goto("select")
  /\ (haveclient /\ PassedOn(Sync)) \/ Failed
  /\ Untouched /\ UNCHANGED <<listening, backlog, got>>

nsthread == sockopen /\ (accept_ns_socket \/ Select \/ read_from_client \/ Check \/ Queue \/ SendSync)

-----------------------------------------------------------------------------
(* The clients.                                                            *)

Rest == UNCHANGED <<written, ring, sockopen, haveclient, sockfull, listening, pc, taken, short, faults>>

Call(c) ==
  /\ listening /\ backlog = << >> /\ calls < MaxCalls /\ calls' = calls + 1 /\ backlog' = <<c>>
  /\ Rest /\ UNCHANGED <<peer, wire, got, said, says>>

Read ==
  /\ peer = "up" /\ wire # << >> /\ wire' = Tail(wire)
  /\ got' = IF Head(wire) = Sync THEN got ELSE Append(got, Head(wire))
  /\ Rest /\ UNCHANGED <<backlog, peer, said, calls, says>>

Say ==
  /\ peer = "up" /\ says < MaxSays /\ says' = says + 1 /\ said' = TRUE
  /\ Rest /\ UNCHANGED <<backlog, peer, wire, got, calls>>

Hangup ==
  /\ peer = "up" /\ peer' \in {"closed", "reset"} /\ wire' = << >>
  /\ Rest /\ UNCHANGED <<backlog, got, said, calls, says>>

Next ==
  \/ lib_ns_send \/ nsthread
  \/ Read \/ Say \/ Hangup \/ \E c \in Callers : Call(c)

\* The thread runs until it is told to stop, and its client reads.
Spec == Init /\ [][Next]_vars /\ WF_vars(nsthread) /\ WF_vars(Read)

-----------------------------------------------------------------------------
InRing == {nsbuf[(nsq_out + k) % record_count] : k \in 0 .. ((nsq_in - nsq_out) % record_count) - 1}

\* What clients have read and have still to read is in order and nothing is
\* there twice, whichever of the two threads sent it and however often the
\* connection broke (send_next_buffer).
InOrder ==
  LET s == got \o wire
  IN  \A i, j \in DOMAIN s : i < j /\ Sync \notin {s[i], s[j]} => s[i] < s[j]

\* Of the last records, as many as the ring holds, none is lost before it
\* was sent: what is thrown away is the oldest (lib_ns_send).
LatestAreKept ==
  \A r \in written - (record_count - 2) .. written :
    r > 0 => r \in InRing \/ \E i \in DOMAIN taken : taken[i] = r

\* A client that reads is sent what is in the ring, unless it hangs up
\* (nsthread).
QueueIsSent == (haveclient /\ nsq_in # nsq_out) ~> (~haveclient \/ nsq_in = nsq_out)

\* Without a client the thread waits for one: the socket it waits on is open
\* (nsthread, "waiting for accept").
WaitsForAccept == pc = "select" /\ sockopen /\ ~haveclient => listening

\* A record that has been passed over went to the client, all of it
\* (send_netserv_packet, "returns TRUE if error").
TakenIsSent == short = {}

-----------------------------------------------------------------------------
(* Proofs of InOrder and LatestAreKept for any ring, any number of records *)
(* and any clients.  The records of the ring are the last ones written, so *)
(* what has left the ring is a number; what was sent is no newer.          *)

\* Records in a ring with this tail and head, and those that have left it.
Held(in, out) == (in - out) % record_count
Gone(w, in, out) == w - Held(in, out)

\* The ring holds the latest records, in order.
RingFits(w, buf, in, out) ==
  /\ Gone(w, in, out) >= 0
  /\ \A k \in 0 .. Held(in, out) - 1 :
       buf[(out + k) % record_count] = Gone(w, in, out) + 1 + k

\* Of what has left the ring, the latest was sent.
LatestSent(w, in, out, sent) ==
  \A r \in 1 .. Gone(w, in, out) :
    r >= w - (record_count - 2) => \E i \in DOMAIN sent : sent[i] = r

Follows(a, b) == a = Sync \/ b = Sync \/ a < b

\* What clients read and will read is in order, and has left the ring.
WireFits(g, q, gone) ==
  /\ \A i \in 1 .. Len(g) : g[i] <= gone
  /\ \A i \in 1 .. Len(q) : q[i] <= gone
  /\ \A i, j \in 1 .. Len(g) : i < j => Follows(g[i], g[j])
  /\ \A i, j \in 1 .. Len(q) : i < j => Follows(q[i], q[j])
  /\ \A i \in 1 .. Len(g), j \in 1 .. Len(q) : Follows(g[i], q[j])

NetServTypeOK ==
  /\ written \in Nat /\ nsbuf \in [0 .. record_count -> Nat]
  /\ nsq_in \in 0 .. record_count - 1 /\ nsq_out \in 0 .. record_count - 1
  /\ wire \in Seq(Nat) /\ got \in Seq(Nat) /\ taken \in Seq(Nat)

NetServInv ==
  /\ NetServTypeOK
  /\ RingFits(written, nsbuf, nsq_in, nsq_out)
  /\ LatestSent(written, nsq_in, nsq_out, taken)
  /\ WireFits(got, wire, Gone(written, nsq_in, nsq_out))

(* The arithmetic of the ring, without a modulus.                          *)
LEMMA NextPlace ==
  ASSUME NetServAssumption, NEW i \in 0 .. record_count - 1
  PROVE  /\ wrap_buffer(i) = IF i + 1 = record_count THEN 0 ELSE i + 1
         /\ wrap_buffer(i) \in 0 .. record_count - 1
<1>1. record_count \in Nat \ {0} /\ record_count >= 2 /\ i + 1 \in Int
  BY DEF NetServAssumption
<1>2. wrap_buffer(i) = IF i + 1 = record_count THEN 0 ELSE i + 1
  BY <1>1, OneTurn DEF wrap_buffer
<1> QED
  BY <1>1, <1>2

LEMMA HeldNumber ==
  ASSUME NetServAssumption, NEW i \in 0 .. record_count - 1,
         NEW o \in 0 .. record_count - 1
  PROVE  Held(i, o) = IF i >= o THEN i - o ELSE i - o + record_count
<1>1. record_count \in Nat \ {0} /\ record_count >= 2 /\ i - o \in Int
  BY DEF NetServAssumption
<1> DEFINE d == i - o
<1>2. /\ i >= o => d \in 0 .. record_count - 1
      /\ ~(i >= o) => d \in -record_count .. -1
  BY <1>1
<1> HIDE DEF d
<1>3. d % record_count = IF i >= o THEN d ELSE d + record_count
  BY <1>1, <1>2, OneTurn DEF d
<1> QED
  BY <1>3 DEF Held, d

LEMMA GoneNumber ==
  ASSUME NetServAssumption, NEW w \in Nat, NEW i \in 0 .. record_count - 1,
         NEW o \in 0 .. record_count - 1
  PROVE  Gone(w, i, o) \in Int
<1>1. record_count \in Nat
  BY DEF NetServAssumption
<1>2. Held(i, o) \in Int
  BY <1>1, HeldNumber
<1> QED
  BY <1>2 DEF Gone

LEMMA PlaceNumber ==
  ASSUME NetServAssumption, NEW o \in 0 .. record_count - 1,
         NEW k \in 0 .. record_count - 1
  PROVE  (o + k) % record_count =
           IF o + k < record_count THEN o + k ELSE o + k - record_count
<1>1. record_count \in Nat \ {0} /\ record_count >= 2 /\ o + k \in Int
  BY DEF NetServAssumption
<1> DEFINE d == o + k
<1>2. /\ d < record_count => d \in 0 .. record_count - 1
      /\ ~(d < record_count) => d \in record_count .. 2 * record_count - 1
  BY <1>1
<1> HIDE DEF d
<1>3. d % record_count = IF d < record_count THEN d ELSE d - record_count
  BY <1>1, <1>2, OneTurn DEF d
<1> QED
  BY <1>1, <1>3 DEF d

(* The head leaves the ring: it is the oldest record there is.             *)
LEMMA HeadLeaves ==
  ASSUME NetServAssumption, NEW w \in Nat, NEW buf \in [0 .. record_count -> Nat],
         NEW in \in 0 .. record_count - 1, NEW out \in 0 .. record_count - 1,
         in # out, RingFits(w, buf, in, out)
  PROVE  /\ wrap_buffer(out) \in 0 .. record_count - 1
         /\ buf[out] = Gone(w, in, out) + 1
         /\ Gone(w, in, wrap_buffer(out)) = Gone(w, in, out) + 1
         /\ RingFits(w, buf, in, wrap_buffer(out))
<1> DEFINE o == wrap_buffer(out)
           n == record_count
           h == Held(in, out)
<1>1. n \in Nat /\ n >= 2
  BY DEF NetServAssumption
<1>2. o \in 0 .. n - 1 /\ o = IF out + 1 = n THEN 0 ELSE out + 1
  BY NextPlace
<1>3. h = IF in >= out THEN in - out ELSE in - out + n
  BY HeldNumber
<1> HIDE DEF o, h
<1>4. Held(in, o) = IF in >= o THEN in - o ELSE in - o + n
  BY <1>2, HeldNumber
<1> DEFINE g == Held(in, o)
<1> HIDE DEF g, n
<1>5. h \in 1 .. n - 1 /\ g = h - 1
  BY <1>1, <1>2, <1>3, <1>4, SMTT(30) DEF g, n
<1>6. /\ w - h >= 0
      /\ \A k \in 0 .. h - 1 : buf[(out + k) % n] = w - h + 1 + k
  BY DEF RingFits, Gone, h, n
<1>7. buf[out] = w - h + 1
  <2>1. (out + 0) % n = out
    <3>1. 0 \in 0 .. record_count - 1 /\ out + 0 = out /\ out < record_count
      BY <1>1 DEF n
    <3> QED
      BY <3>1, PlaceNumber DEF n
  <2>2. 0 \in 0 .. h - 1 /\ w - h + 1 + 0 = w - h + 1
    BY <1>5, <1>1
  <2> QED
    BY <1>6, <2>1, <2>2
<1>8. ASSUME NEW k \in 0 .. g - 1
      PROVE  buf[(o + k) % n] = w - g + 1 + k
  <2>1. k \in 0 .. n - 1 /\ k + 1 \in 0 .. n - 1 /\ k + 1 \in 0 .. h - 1
    BY <1>1, <1>5
  <2>2. (o + k) % n = IF o + k < n THEN o + k ELSE o + k - n
    BY <1>2, <2>1, PlaceNumber DEF n
  <2>3. (out + (k + 1)) % n
          = IF out + (k + 1) < n THEN out + (k + 1) ELSE out + (k + 1) - n
    BY <2>1, PlaceNumber DEF n
  <2> DEFINE p == (o + k) % n
             r == (out + (k + 1)) % n
  <2>4. p = r
    <3> HIDE DEF p, r
    <3> QED
      BY <1>1, <1>2, <2>1, <2>2, <2>3, SMTT(30) DEF p, r, n
  <2>5. buf[r] = w - h + 1 + (k + 1)
    BY <1>6, <2>1
  <2>6. w - h + 1 + (k + 1) = w - g + 1 + k
    BY <1>1, <1>5
  <2> QED
    BY <2>4, <2>5, <2>6
<1>9. Gone(w, in, out) = w - h /\ Gone(w, in, o) = w - g /\ w - g = w - h + 1
  BY <1>1, <1>5 DEF Gone, h, g
<1>10. RingFits(w, buf, in, o)
  BY <1>1, <1>5, <1>6, <1>8, <1>9 DEF RingFits, g, n
<1> QED
  BY <1>2, <1>7, <1>9, <1>10 DEF o, n

(* A record enters at the tail; the head is thrown away when the ring is   *)
(* full, and then what was thrown away is not one of the latest.           *)
LEMMA RecordEnters ==
  ASSUME NetServAssumption, NEW w \in Nat, NEW buf \in [0 .. record_count -> Nat],
         NEW in \in 0 .. record_count - 1, NEW out \in 0 .. record_count - 1,
         RingFits(w, buf, in, out)
  PROVE  LET nq == wrap_buffer(in)
             head == IF nq = out THEN wrap_buffer(out) ELSE out
             new == [buf EXCEPT ![in] = w + 1]
         IN  /\ nq \in 0 .. record_count - 1 /\ head \in 0 .. record_count - 1
             /\ new \in [0 .. record_count -> Nat]
             /\ nq # head /\ (in = out => head = out)
             /\ RingFits(w + 1, new, nq, head)
             /\ Gone(w + 1, nq, head) \in Int
             /\ \/ Gone(w + 1, nq, head) = Gone(w, in, out)
                \/ /\ Gone(w + 1, nq, head) = Gone(w, in, out) + 1
                   /\ Gone(w + 1, nq, head) < w + 1 - (record_count - 2)
<1> DEFINE n == record_count
           nq == wrap_buffer(in)
           head == IF nq = out THEN wrap_buffer(out) ELSE out
           new == [buf EXCEPT ![in] = w + 1]
           h == Held(in, out)
           g == Held(nq, head)
<1>1. n \in Nat /\ n >= 2
  BY DEF NetServAssumption
<1>2. nq \in 0 .. n - 1 /\ nq = IF in + 1 = n THEN 0 ELSE in + 1
  BY NextPlace
<1>3. /\ head \in 0 .. n - 1
      /\ head = IF nq # out THEN out ELSE IF out + 1 = n THEN 0 ELSE out + 1
  BY NextPlace
<1>4. new \in [0 .. n -> Nat] /\ new[in] = w + 1
      /\ \A i \in 0 .. n : i # in => new[i] = buf[i]
  BY <1>1
<1> HIDE DEF nq, head, new
<1>5. nq # head /\ (in = out => head = out)
  BY <1>1, <1>2, <1>3
<1>6. /\ h = IF in >= out THEN in - out ELSE in - out + n
      /\ g = IF nq >= head THEN nq - head ELSE nq - head + n
  BY <1>2, <1>3, HeldNumber
<1> HIDE DEF n, h, g
<1>7. /\ h \in 0 .. n - 1 /\ g \in 1 .. n - 1
      /\ nq = out => h = n - 1 /\ g = n - 1
      /\ nq # out => g = h + 1 /\ head = out
  BY <1>1, <1>2, <1>3, <1>6 DEF n
<1>8. /\ w - h >= 0
      /\ \A k \in 0 .. h - 1 : buf[(out + k) % n] = w - h + 1 + k
  BY DEF RingFits, Gone, h, n
<1>9. Gone(w, in, out) = w - h /\ Gone(w + 1, nq, head) = w + 1 - g
  BY <1>7 DEF Gone, h, g
<1>10. /\ w + 1 - g \in Int /\ w + 1 - g >= 0
       /\ nq = out => w + 1 - g = w - h + 1 /\ w + 1 - g < w + 1 - (n - 2)
       /\ nq # out => w + 1 - g = w - h
  BY <1>1, <1>7, <1>8
<1>11. ASSUME NEW k \in 0 .. g - 1
       PROVE  new[(head + k) % n] = w + 1 - g + 1 + k
  <2> DEFINE p == (head + k) % n
  <2>1. k \in 0 .. n - 1
    BY <1>1, <1>7
  <2>2. p = IF head + k < n THEN head + k ELSE head + k - n
    BY <1>3, <2>1, PlaceNumber DEF n
  <2> HIDE DEF p
  <2>3. CASE k = g - 1
    <3>1. p = in
      BY <1>1, <1>2, <1>3, <1>5, <1>6, <2>1, <2>2, <2>3 DEF n
    <3>2. w + 1 - g + 1 + k = w + 1
      BY <1>1, <1>7, <2>3
    <3> QED
      BY <1>4, <3>1, <3>2 DEF p
  <2>4. CASE k # g - 1
    <3> DEFINE j == IF nq = out THEN k + 1 ELSE k
               r == (out + j) % n
    <3>1. j \in 0 .. h - 1 /\ j \in 0 .. n - 1
      BY <1>1, <1>7, <2>1, <2>4
    <3> HIDE DEF j
    <3>2. r = IF out + j < n THEN out + j ELSE out + j - n
      BY <3>1, PlaceNumber DEF n
    <3>3. buf[r] = w - h + 1 + j
      BY <1>8, <3>1
    <3> HIDE DEF r
    <3>4. p = r
      BY <1>1, <1>2, <1>3, <1>7, <2>1, <2>2, <3>1, <3>2 DEF j, n
    <3>5. p # in /\ p \in 0 .. n
      BY <1>1, <1>2, <1>3, <1>5, <1>6, <2>1, <2>2, <2>4 DEF n
    <3>6. w - h + 1 + j = w + 1 - g + 1 + k
      BY <1>1, <1>7, <2>1 DEF j
    <3> QED
      BY <1>4, <3>3, <3>4, <3>5, <3>6 DEF p
  <2> QED
    BY <2>3, <2>4
<1>12. RingFits(w + 1, new, nq, head)
  BY <1>9, <1>10, <1>11 DEF RingFits, g, n
<1> QED
  BY <1>2, <1>3, <1>4, <1>5, <1>9, <1>10, <1>12 DEF nq, head, new, n

(* What a send does to the connection: nothing, or the record follows what *)
(* is under way, or the connection is gone.                                *)
LEMMA PassedOnWire ==
  ASSUME NEW r, PassedOn(r)
  PROVE  wire' \in {wire, Append(wire, r)}
BY DEF PassedOn, Sent, SentToNobody, SentInPart, NotSent

LEMMA FailedWire == Failed => wire' \in {wire, << >>}
BY DEF Failed, Disconnect

\* A wire that is given up, and one on which a record of the ring or one
\* that synchronizes follows.
LEMMA WireGivenUp ==
  ASSUME NEW g, NEW q, NEW gone, WireFits(g, q, gone)
  PROVE  WireFits(g, << >>, gone)
BY DEF WireFits

LEMMA WireLater ==
  ASSUME NEW g \in Seq(Nat), NEW q \in Seq(Nat), NEW gone \in Int, WireFits(g, q, gone),
         NEW later \in Int, gone <= later
  PROVE  WireFits(g, q, later)
<1>1. \A i \in 1 .. Len(g) : g[i] \in Nat
  OBVIOUS
<1>2. \A i \in 1 .. Len(q) : q[i] \in Nat
  OBVIOUS
<1>3. /\ \A i \in 1 .. Len(g) : g[i] <= later
      /\ \A i \in 1 .. Len(q) : q[i] <= later
  BY <1>1, <1>2 DEF WireFits
<1> QED
  BY <1>3 DEF WireFits

LEMMA WireGrows ==
  ASSUME NEW g \in Seq(Nat), NEW q \in Seq(Nat), NEW gone \in Int, WireFits(g, q, gone),
         NEW r \in Nat, r = Sync \/ r > gone, NEW later \in Int,
         gone <= later, r <= later \/ r = Sync, 0 <= later
  PROVE  WireFits(g, Append(q, r), later)
<1> DEFINE a == Append(q, r)
<1>1. /\ \A i \in 1 .. Len(g) : g[i] \in Nat
      /\ \A i \in 1 .. Len(q) : q[i] \in Nat
      /\ Len(q) \in Nat /\ Len(a) = Len(q) + 1
      /\ \A i \in 1 .. Len(q) : a[i] = q[i]
      /\ a[Len(q) + 1] = r
  OBVIOUS
<1>2. /\ \A i \in 1 .. Len(g) : g[i] <= gone
      /\ \A i \in 1 .. Len(q) : q[i] <= gone
      /\ \A i, j \in 1 .. Len(g) : i < j => Follows(g[i], g[j])
      /\ \A i, j \in 1 .. Len(q) : i < j => Follows(q[i], q[j])
      /\ \A i \in 1 .. Len(g), j \in 1 .. Len(q) : Follows(g[i], q[j])
  BY DEF WireFits
<1>3. \A x \in Nat : x <= gone => Follows(x, r)
  BY DEF Follows
<1> HIDE DEF a
<1>4. \A i \in 1 .. Len(a) : i \in 1 .. Len(q) \/ i = Len(q) + 1
  BY <1>1
<1>5. /\ \A i \in 1 .. Len(g) : g[i] <= later
      /\ \A i \in 1 .. Len(a) : a[i] <= later
  <2>1. r <= later
    BY DEF Sync
  <2>2. \A x \in Nat : x <= gone => x <= later
    OBVIOUS
  <2>3. \A i \in 1 .. Len(q) : a[i] <= later
    BY <1>1, <1>2, <2>2
  <2> QED
    BY <1>1, <1>2, <1>4, <2>1, <2>2, <2>3
<1>6. \A i, j \in 1 .. Len(a) : i < j => Follows(a[i], a[j])
  <2> SUFFICES ASSUME NEW i \in 1 .. Len(a), NEW j \in 1 .. Len(a), i < j
               PROVE  Follows(a[i], a[j])
    OBVIOUS
  <2>1. i \in 1 .. Len(q) /\ a[i] = q[i] /\ q[i] \in Nat
    BY <1>1, <1>4
  <2>2. CASE j \in 1 .. Len(q)
    BY <1>1, <1>2, <2>1, <2>2
  <2>3. CASE j = Len(q) + 1
    BY <1>1, <1>2, <1>3, <2>1, <2>3
  <2> QED
    BY <1>4, <2>2, <2>3
<1>7. \A i \in 1 .. Len(g), j \in 1 .. Len(a) : Follows(g[i], a[j])
  <2> SUFFICES ASSUME NEW i \in 1 .. Len(g), NEW j \in 1 .. Len(a)
               PROVE  Follows(g[i], a[j])
    OBVIOUS
  <2>1. CASE j \in 1 .. Len(q)
    BY <1>1, <1>2, <2>1
  <2>2. CASE j = Len(q) + 1
    BY <1>1, <1>2, <1>3, <2>2
  <2> QED
    BY <1>4, <2>1, <2>2
<1> QED
  BY <1>2, <1>5, <1>6, <1>7 DEF WireFits, a

\* The client reads, which passes over what only synchronizes.
LEMMA WireIsRead ==
  ASSUME NEW g \in Seq(Nat), NEW q \in Seq(Nat), NEW gone \in Int, WireFits(g, q, gone),
         q # << >>
  PROVE  LET read == IF Head(q) = Sync THEN g ELSE Append(g, Head(q)) IN
         read \in Seq(Nat) /\ Tail(q) \in Seq(Nat) /\ WireFits(read, Tail(q), gone)
<1> DEFINE u == Tail(q)
           x == q[1]
           a == Append(g, x)
<1>1. /\ Len(q) \in Nat \ {0} /\ Len(u) = Len(q) - 1 /\ u \in Seq(Nat)
      /\ \A i \in 1 .. Len(u) : u[i] = q[i + 1] /\ i + 1 \in 2 .. Len(q)
      /\ Head(q) = x /\ x \in Nat /\ 1 \in 1 .. Len(q)
  OBVIOUS
<1>2. /\ \A i \in 1 .. Len(g) : g[i] <= gone
      /\ \A i \in 1 .. Len(q) : q[i] <= gone
      /\ \A i, j \in 1 .. Len(g) : i < j => Follows(g[i], g[j])
      /\ \A i, j \in 1 .. Len(q) : i < j => Follows(q[i], q[j])
      /\ \A i \in 1 .. Len(g), j \in 1 .. Len(q) : Follows(g[i], q[j])
  BY DEF WireFits
<1>3. /\ a \in Seq(Nat) /\ Len(a) = Len(g) + 1 /\ Len(g) \in Nat
      /\ \A i \in 1 .. Len(g) : a[i] = g[i]
      /\ a[Len(g) + 1] = x
  BY <1>1
<1> HIDE DEF u, x, a
<1>4. /\ \A i \in 1 .. Len(u) : u[i] <= gone
      /\ \A i, j \in 1 .. Len(u) : i < j => Follows(u[i], u[j])
      /\ \A i \in 1 .. Len(g), j \in 1 .. Len(u) : Follows(g[i], u[j])
      /\ \A j \in 1 .. Len(u) : Follows(x, u[j])
  <2>1. \A i \in 1 .. Len(u) : u[i] = q[i + 1] /\ i + 1 \in 1 .. Len(q) /\ 1 < i + 1
    BY <1>1
  <2>2. \A i, j \in 1 .. Len(u) : i < j => i + 1 < j + 1
    OBVIOUS
  <2> QED
    BY <1>1, <1>2, <2>1, <2>2 DEF x
<1>5. \A i \in 1 .. Len(a) : i \in 1 .. Len(g) \/ i = Len(g) + 1
  BY <1>3
<1>6. /\ x <= gone
      /\ \A i \in 1 .. Len(g) : Follows(g[i], x)
  BY <1>1, <1>2 DEF x
<1>7. WireFits(g, u, gone)
  BY <1>2, <1>4 DEF WireFits
<1>8. WireFits(a, u, gone)
  <2>1. \A i \in 1 .. Len(a) : a[i] <= gone
    BY <1>2, <1>3, <1>5, <1>6
  <2>2. \A i, j \in 1 .. Len(a) : i < j => Follows(a[i], a[j])
    <3> SUFFICES ASSUME NEW i \in 1 .. Len(a), NEW j \in 1 .. Len(a), i < j
                 PROVE  Follows(a[i], a[j])
      OBVIOUS
    <3>1. i # Len(g) + 1
      BY <1>3
    <3>2. i \in 1 .. Len(g) /\ a[i] = g[i]
      BY <1>3, <1>5, <3>1
    <3> QED
      <4>1. CASE j \in 1 .. Len(g)
        BY <1>2, <1>3, <3>2, <4>1
      <4>2. CASE j = Len(g) + 1
        BY <1>3, <1>6, <3>2, <4>2
      <4> QED
        BY <1>5, <4>1, <4>2
  <2>3. \A i \in 1 .. Len(a), j \in 1 .. Len(u) : Follows(a[i], u[j])
    BY <1>3, <1>4, <1>5
  <2> QED
    BY <1>4, <2>1, <2>2, <2>3 DEF WireFits
<1> QED
  BY <1>1, <1>3, <1>7, <1>8 DEF u, x, a

(* Taking the head of the ring buf, whichever thread does it.              *)
LEMMA NextIsSent ==
  ASSUME NetServAssumption, NEW w \in Nat, NEW buf \in [0 .. record_count -> Nat],
         NEW in \in 0 .. record_count - 1, NEW out \in 0 .. record_count - 1,
         in # out, RingFits(w, buf, in, out),
         LatestSent(w, in, out, taken), WireFits(got, wire, Gone(w, in, out)),
         wire \in Seq(Nat), got \in Seq(Nat), taken \in Seq(Nat), UNCHANGED got,
         send_next_buffer(buf, out)
  PROVE  /\ nsq_out' \in 0 .. record_count - 1
         /\ wire' \in Seq(Nat) /\ taken' \in Seq(Nat)
         /\ RingFits(w, buf, in, nsq_out')
         /\ LatestSent(w, in, nsq_out', taken')
         /\ WireFits(got', wire', Gone(w, in, nsq_out'))
<1> DEFINE o == wrap_buffer(out)
           gone == Gone(w, in, out)
           r == buf[out]
<1>1. /\ o \in 0 .. record_count - 1 /\ r = gone + 1 /\ r \in Nat
      /\ Gone(w, in, o) = gone + 1 /\ RingFits(w, buf, in, o)
  <2>1. out \in 0 .. record_count
    BY DEF NetServAssumption
  <2>2. r \in Nat
    BY <2>1
  <2>3. /\ o \in 0 .. record_count - 1 /\ r = gone + 1
        /\ Gone(w, in, o) = gone + 1 /\ RingFits(w, buf, in, o)
    BY HeadLeaves
  <2> QED
    BY <2>2, <2>3
<1>2. gone \in Int /\ gone >= 0
  BY GoneNumber DEF RingFits
<1>3. CASE haveclient /\ PassedOn(r) /\ nsq_out' = o /\ taken' = Append(taken, r)
  <2>1. wire' \in {wire, Append(wire, r)}
    BY <1>3, PassedOnWire
  <2>2. wire' \in Seq(Nat) /\ taken' \in Seq(Nat)
    <3> HIDE DEF r
    <3>1. Append(wire, r) \in Seq(Nat) /\ Append(taken, r) \in Seq(Nat)
      BY <1>1
    <3> QED
      BY <1>3, <2>1, <3>1
  <2>3. WireFits(got, wire', gone + 1)
    <3>1. WireFits(got, wire, gone + 1)
      BY <1>2, WireLater
    <3>2. WireFits(got, Append(wire, r), gone + 1)
      <4> HIDE DEF gone, r
      <4> QED
        BY <1>1, <1>2, WireGrows DEF gone
    <3> QED
      BY <2>1, <3>1, <3>2
  <2>4. LatestSent(w, in, o, taken')
    <3> SUFFICES ASSUME NEW k \in 1 .. gone + 1, k >= w - (record_count - 2)
                 PROVE  \E i \in DOMAIN taken' : taken'[i] = k
      BY <1>1 DEF LatestSent
    <3>1. /\ DOMAIN taken' = 1 .. Len(taken) + 1 /\ Len(taken) \in Nat
          /\ DOMAIN taken = 1 .. Len(taken)
          /\ taken'[Len(taken) + 1] = r
          /\ \A i \in 1 .. Len(taken) : taken'[i] = taken[i]
      BY <1>1, <1>3
    <3>2. CASE k = gone + 1
      <4>1. Len(taken) + 1 \in DOMAIN taken'
        BY <3>1
      <4> QED
        BY <1>1, <3>1, <3>2, <4>1
    <3>3. CASE k # gone + 1
      <4>1. k \in 1 .. gone
        BY <1>2, <3>3
      <4>2. PICK i \in DOMAIN taken : taken[i] = k
        BY <4>1 DEF LatestSent
      <4>3. i \in DOMAIN taken' /\ taken'[i] = k
        BY <3>1, <4>2
      <4> QED
        BY <4>3
    <3> QED
      BY <3>2, <3>3
  <2> QED
    BY <1>1, <1>3, <2>2, <2>3, <2>4
<1>4. CASE Failed /\ nsq_out' = out /\ taken' = taken
  <2>1. wire' \in {wire, << >>}
    BY <1>4, FailedWire
  <2>2. wire' \in Seq(Nat) /\ WireFits(got', wire', gone)
    <3>1. << >> \in Seq(Nat) /\ WireFits(got, << >>, gone)
      BY WireGivenUp
    <3> QED
      BY <2>1, <3>1
  <2> QED
    BY <1>4, <2>2
<1> QED
  BY <1>3, <1>4 DEF send_next_buffer, next_out

(* The first state.                                                        *)
LEMMA NetServInit ==
  ASSUME NetServAssumption, Init
  PROVE  NetServInv
<1>1. record_count \in Nat /\ record_count >= 2 /\ 0 \in 0 .. record_count - 1
  BY DEF NetServAssumption
<1>2. Held(0, 0) = 0
  BY <1>1, HeldNumber
<1>3. NetServTypeOK
  BY <1>1 DEF Init, NetServTypeOK, Sync
<1> QED
  BY <1>2, <1>3 DEF Init, NetServInv, RingFits, LatestSent, WireFits, Gone

(* What leaves the ring alone and adds nothing but Sync to the wire.       *)
LEMMA RingUntouched ==
  ASSUME NetServAssumption, NetServInv, UNCHANGED <<written, ring, got, taken>>,
         wire' \in {wire, << >>, Append(wire, Sync)}
  PROVE  NetServInv'
<1> DEFINE gone == Gone(written, nsq_in, nsq_out)
<1>1. /\ wire \in Seq(Nat) /\ got \in Seq(Nat) /\ Sync \in Nat
      /\ RingFits(written, nsbuf, nsq_in, nsq_out) /\ WireFits(got, wire, gone)
  BY DEF NetServInv, NetServTypeOK, Sync
<1>2. gone \in Int /\ gone >= 0
  BY GoneNumber DEF NetServInv, NetServTypeOK, RingFits
<1> HIDE DEF gone
<1>3. WireFits(got, << >>, gone) /\ WireFits(got, Append(wire, Sync), gone)
  BY <1>1, <1>2, WireGivenUp, WireGrows
<1>4. wire' \in Seq(Nat) /\ WireFits(got, wire', gone)
  <2>1. << >> \in Seq(Nat) /\ Append(wire, Sync) \in Seq(Nat)
    BY <1>1
  <2> QED
    BY <1>1, <1>3, <2>1
<1> QED
  BY <1>4 DEF NetServInv, NetServTypeOK, ring, gone

(* The station thread writes a record.                                     *)
LEMMA SendKeeps ==
  ASSUME NetServAssumption, NetServInv, lib_ns_send
  PROVE  NetServInv'
<1> DEFINE nq == wrap_buffer(nsq_in)
           head == IF nq = nsq_out THEN wrap_buffer(nsq_out) ELSE nsq_out
           new == [nsbuf EXCEPT ![nsq_in] = written + 1]
           gone == Gone(written, nsq_in, nsq_out)
           later == Gone(written + 1, nq, head)
<1>1. /\ written \in Nat /\ nsbuf \in [0 .. record_count -> Nat]
      /\ nsq_in \in 0 .. record_count - 1 /\ nsq_out \in 0 .. record_count - 1
      /\ wire \in Seq(Nat) /\ got \in Seq(Nat) /\ taken \in Seq(Nat)
      /\ RingFits(written, nsbuf, nsq_in, nsq_out)
      /\ LatestSent(written, nsq_in, nsq_out, taken) /\ WireFits(got, wire, gone)
  BY DEF NetServInv, NetServTypeOK
<1>2. /\ written' = written + 1 /\ nsbuf' = new /\ nsq_in' = nq /\ UNCHANGED got
      /\ IF nsq_in = nsq_out THEN send_next_buffer(new, head)
         ELSE nsq_out' = head /\ UNCHANGED <<wire, taken>>
  BY DEF lib_ns_send
<1>3. /\ nq \in 0 .. record_count - 1 /\ head \in 0 .. record_count - 1
      /\ new \in [0 .. record_count -> Nat]
      /\ nq # head /\ (nsq_in = nsq_out => head = nsq_out)
      /\ RingFits(written + 1, new, nq, head) /\ later \in Int
      /\ \/ later = gone
         \/ later = gone + 1 /\ later < written + 1 - (record_count - 2)
  BY <1>1, RecordEnters
<1>4. gone \in Int /\ record_count \in Nat
  BY <1>1, GoneNumber DEF NetServAssumption
<1>5. WireFits(got, wire, later)
  <2> HIDE DEF gone, later
  <2> QED
    BY <1>1, <1>3, <1>4, WireLater, SMTT(30)
<1> HIDE DEF nq, head, new
<1>6. LatestSent(written + 1, nq, head, taken)
  <2> HIDE DEF later
  <2>1. ASSUME NEW r \in 1 .. later, r >= written + 1 - (record_count - 2)
        PROVE  \E i \in DOMAIN taken : taken[i] = r
    <3> HIDE DEF gone
    <3>1. r \in 1 .. gone /\ r >= written - (record_count - 2)
      BY <1>1, <1>3, <1>4, <2>1
    <3> QED
      BY <1>1, <3>1 DEF LatestSent, gone
  <2> QED
    BY <1>1, <1>3, <1>4, <2>1 DEF LatestSent, later
<1>7. CASE nsq_in # nsq_out
  BY <1>1, <1>2, <1>3, <1>5, <1>6, <1>7 DEF NetServInv, NetServTypeOK
<1>8. CASE nsq_in = nsq_out
  <2>1. written + 1 \in Nat /\ send_next_buffer(new, head)
    BY <1>1, <1>2, <1>8
  <2>2. /\ nsq_out' \in 0 .. record_count - 1
        /\ wire' \in Seq(Nat) /\ taken' \in Seq(Nat)
        /\ RingFits(written + 1, new, nq, nsq_out')
        /\ LatestSent(written + 1, nq, nsq_out', taken')
        /\ WireFits(got', wire', Gone(written + 1, nq, nsq_out'))
    BY <1>1, <1>2, <1>3, <1>5, <1>6, <2>1, NextIsSent
  <2> QED
    BY <1>1, <1>2, <1>3, <2>1, <2>2 DEF NetServInv, NetServTypeOK
<1> QED
  BY <1>7, <1>8

(* The thread of the server sends what is in the ring.                     *)
LEMMA QueueKeeps ==
  ASSUME NetServAssumption, NetServInv, Queue
  PROVE  NetServInv'
<1>1. UNCHANGED <<written, nsbuf, nsq_in, got>>
  BY DEF Queue
<1>2. CASE nsq_in # nsq_out /\ send_next_buffer(nsbuf, nsq_out)
  <2>1. /\ written \in Nat /\ nsbuf \in [0 .. record_count -> Nat]
        /\ nsq_in \in 0 .. record_count - 1 /\ nsq_out \in 0 .. record_count - 1
        /\ wire \in Seq(Nat) /\ got \in Seq(Nat) /\ taken \in Seq(Nat)
        /\ RingFits(written, nsbuf, nsq_in, nsq_out)
        /\ LatestSent(written, nsq_in, nsq_out, taken)
        /\ WireFits(got, wire, Gone(written, nsq_in, nsq_out))
    BY DEF NetServInv, NetServTypeOK
  <2>2. /\ nsq_out' \in 0 .. record_count - 1
        /\ wire' \in Seq(Nat) /\ taken' \in Seq(Nat)
        /\ RingFits(written, nsbuf, nsq_in, nsq_out')
        /\ LatestSent(written, nsq_in, nsq_out', taken')
        /\ WireFits(got', wire', Gone(written, nsq_in, nsq_out'))
    BY <1>1, <1>2, <2>1, NextIsSent
  <2> QED
    BY <1>1, <2>1, <2>2 DEF NetServInv, NetServTypeOK
<1>3. CASE UNCHANGED <<nsq_out, taken, wire>>
  BY <1>1, <1>3, RingUntouched DEF ring
<1> QED
  BY <1>2, <1>3 DEF Queue

(* A client reads.                                                         *)
LEMMA ReadKeeps ==
  ASSUME NetServAssumption, NetServInv, Read
  PROVE  NetServInv'
<1>1. /\ wire # << >> /\ wire' = Tail(wire)
      /\ got' = (IF Head(wire) = Sync THEN got ELSE Append(got, Head(wire)))
      /\ UNCHANGED <<written, ring, taken>>
  BY DEF Read, Rest
<1>2. /\ wire \in Seq(Nat) /\ got \in Seq(Nat)
      /\ WireFits(got, wire, Gone(written, nsq_in, nsq_out))
      /\ Gone(written, nsq_in, nsq_out) \in Int
  BY GoneNumber DEF NetServInv, NetServTypeOK
<1>3. /\ got' \in Seq(Nat) /\ wire' \in Seq(Nat)
      /\ WireFits(got', wire', Gone(written, nsq_in, nsq_out))
  BY <1>1, <1>2, WireIsRead
<1> QED
  BY <1>1, <1>3 DEF NetServInv, NetServTypeOK, ring

LEMMA NetServStep ==
  ASSUME NetServAssumption, NetServInv, [Next]_vars
  PROVE  NetServInv'
<1>1. CASE nsthread
  <2>1. CASE accept_ns_socket
    BY <2>1, RingUntouched DEF accept_ns_socket, Untouched
  <2>2. CASE Select
    BY <2>2, RingUntouched DEF Select, Untouched, client
  <2>3. CASE read_from_client
    BY <2>3, RingUntouched DEF read_from_client, Untouched, Disconnect
  <2>4. CASE Check
    BY <2>4, RingUntouched DEF Check, Untouched, client
  <2>5. CASE SendSync
    <3>1. UNCHANGED <<written, ring, got, taken>>
      BY <2>5 DEF SendSync, Untouched
    <3> QED
      BY <2>5, <3>1, RingUntouched, PassedOnWire, FailedWire DEF SendSync
  <2> QED
    BY <1>1, <2>1, <2>2, <2>3, <2>4, <2>5, QueueKeeps DEF nsthread
<1>2. CASE \E c \in Callers : Call(c)
  BY <1>2, RingUntouched DEF Call, Rest
<1>3. CASE Say
  BY <1>3, RingUntouched DEF Say, Rest
<1>4. CASE Hangup
  BY <1>4, RingUntouched DEF Hangup, Rest
<1>5. CASE UNCHANGED vars
  BY <1>5, RingUntouched DEF vars, client
<1> QED
  BY <1>1, <1>2, <1>3, <1>4, <1>5, SendKeeps, ReadKeeps DEF Next

(* The invariant says what the two properties say.                         *)
LEMMA NetServOrder ==
  ASSUME NetServAssumption, NetServInv
  PROVE  InOrder
<1> DEFINE s == got \o wire
<1>1. /\ got \in Seq(Nat) /\ wire \in Seq(Nat)
      /\ \A i, j \in 1 .. Len(got) : i < j => Follows(got[i], got[j])
      /\ \A i, j \in 1 .. Len(wire) : i < j => Follows(wire[i], wire[j])
      /\ \A i \in 1 .. Len(got), j \in 1 .. Len(wire) : Follows(got[i], wire[j])
  BY DEF NetServInv, NetServTypeOK, WireFits
<1>2. /\ DOMAIN s = 1 .. Len(got) + Len(wire) /\ Len(got) \in Nat /\ Len(wire) \in Nat
      /\ \A i \in DOMAIN s :
           \/ i \in 1 .. Len(got) /\ s[i] = got[i]
           \/ i - Len(got) \in 1 .. Len(wire) /\ s[i] = wire[i - Len(got)]
  BY <1>1
<1> HIDE DEF s
<1>3. ASSUME NEW i \in DOMAIN s, NEW j \in DOMAIN s, i < j
      PROVE  Follows(s[i], s[j])
  <2>1. CASE j \in 1 .. Len(got) /\ s[j] = got[j]
    <3>1. i \in 1 .. Len(got) /\ s[i] = got[i]
      BY <1>2, <1>3, <2>1
    <3> QED
      BY <1>1, <1>3, <2>1, <3>1
  <2>2. CASE j - Len(got) \in 1 .. Len(wire) /\ s[j] = wire[j - Len(got)]
    <3>1. CASE i \in 1 .. Len(got) /\ s[i] = got[i]
      BY <1>1, <2>2, <3>1
    <3>2. CASE i - Len(got) \in 1 .. Len(wire) /\ s[i] = wire[i - Len(got)]
      <4>1. i - Len(got) < j - Len(got)
        BY <1>2, <1>3
      <4> QED
        BY <1>1, <2>2, <3>2, <4>1
    <3> QED
      BY <1>2, <3>1, <3>2
  <2> QED
    BY <1>2, <2>1, <2>2
<1> QED
  BY <1>3 DEF InOrder, Follows, s

LEMMA NetServLatest ==
  ASSUME NetServAssumption, NetServInv
  PROVE  LatestAreKept
<1> DEFINE gone == Gone(written, nsq_in, nsq_out)
           h == Held(nsq_in, nsq_out)
<1>1. /\ written \in Nat /\ record_count \in Nat /\ gone \in Int /\ h = written - gone
      /\ h \in Int /\ gone = written - h
  <2>1. h \in Int
    <3>1. /\ nsq_in \in 0 .. record_count - 1 /\ nsq_out \in 0 .. record_count - 1
          /\ record_count \in Nat
      BY DEF NetServInv, NetServTypeOK, NetServAssumption
    <3>2. h = IF nsq_in >= nsq_out THEN nsq_in - nsq_out
              ELSE nsq_in - nsq_out + record_count
      BY <3>1, HeldNumber
    <3> HIDE DEF h
    <3> QED
      BY <3>1, <3>2
  <2> QED
    BY <2>1, SMTT(30) DEF NetServInv, NetServTypeOK, NetServAssumption, Gone
<1>2. /\ \A k \in 0 .. h - 1 : nsbuf[(nsq_out + k) % record_count] = gone + 1 + k
      /\ \A r \in 1 .. gone :
           r >= written - (record_count - 2) => \E i \in DOMAIN taken : taken[i] = r
  BY DEF NetServInv, RingFits, LatestSent
<1> SUFFICES ASSUME NEW r \in written - (record_count - 2) .. written, r > 0
             PROVE  r \in InRing \/ \E i \in DOMAIN taken : taken[i] = r
  BY DEF LatestAreKept
<1> HIDE DEF gone
<1>3. CASE r \in 1 .. gone
  BY <1>1, <1>2, <1>3
<1>4. CASE r \notin 1 .. gone
  <2> HIDE DEF h
  <2>1. r - gone - 1 \in 0 .. h - 1 /\ gone + 1 + (r - gone - 1) = r
    BY <1>1, <1>4
  <2>2. nsbuf[(nsq_out + (r - gone - 1)) % record_count] = r
    BY <1>2, <2>1
  <2> QED
    BY <2>1, <2>2 DEF InRing, Held, h
<1> QED
  BY <1>3, <1>4

(* The inductive invariant: the ring holds the latest records in order, what *)
(* has left it and is one of the last was sent, and what clients were sent   *)
(* is in order and older than what the ring holds, whichever of the thread   *)
(* of the server and the station thread took it out (send_next_buffer).      *)
THEOREM ServerInvariant == ASSUME NetServAssumption PROVE Spec => []NetServInv
<1>1. Init => NetServInv
  BY NetServInit
<1>2. NetServInv /\ [Next]_vars => NetServInv'
  BY NetServStep
<1> QED
  BY <1>1, <1>2, PTL DEF Spec

(* What clients read is in order and nothing is there twice, for every size  *)
(* of the ring and however often clients come and go (libnetserv.c).         *)
THEOREM RecordsInOrder == ASSUME NetServAssumption PROVE Spec => []InOrder
<1>1. NetServInv => InOrder
  BY NetServOrder
<1> QED
  BY <1>1, ServerInvariant, PTL

(* None of the latest records leaves the ring before it was sent: a ring     *)
(* that is full throws away its oldest (lib_ns_send), for every size of it.  *)
THEOREM LatestKept == ASSUME NetServAssumption PROVE Spec => []LatestAreKept
<1>1. NetServInv => LatestAreKept
  BY NetServLatest
<1> QED
  BY <1>1, ServerInvariant, PTL
=============================================================================
