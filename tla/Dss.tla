--------------------------------- MODULE Dss ---------------------------------
(***************************************************************************)
(* The data subscription server of a station (libdss.c): clients register  *)
(* with one of three passwords and ask for reports, which are sent every   *)
(* so many seconds, or are computed over some of them; reports whose       *)
(* source is away are announced as such, clients that are silent are       *)
(* dropped, and reports are purged when too much is sent.                  *)
(* Lists are sequences; head and prev are the pointers of the code, which  *)
(* may lag behind.  The server has a memory of its own, and in places goes   *)
(* on with a block it has returned to it: then sound is FALSE, and nothing   *)
(* is said of what follows.                                                  *)
(***************************************************************************)
EXTENDS Integers, Sequences, SequencesExt, FiniteSets

CONSTANTS
  Passwords, Addresses, Ids, Kinds, Intervals, Priorities, RepFlags, \* of clients and requests
  CLIENT_TIMEOUT,       \* seconds without a sign of the client
  CAP,                  \* records that fit a packet
  BYTE_INTERVAL, MAX_BPS, \* seconds between two looks at what was sent, and limit
  DataComes,            \* whether a status may tell that the data is of now
  SendFails,            \* whether sendto may fail
  Dangling,             \* whether steps that use returned memory are taken
  MaxBytes, MaxRequests, MaxSeconds \* bounds

FLG_NEVER == 0   FLG_CONT == 250   NIL == 0

DssAssumption ==
  /\ Passwords \subseteq 0 .. 2 /\ Kinds \subseteq {"boot", "data", "mean"} /\ Intervals \subseteq Nat
  /\ Priorities \subseteq Nat /\ RepFlags \subseteq 0 .. 255
  /\ DataComes \in BOOLEAN /\ SendFails \in BOOLEAN /\ Dangling \in BOOLEAN
  /\ {CLIENT_TIMEOUT, CAP, BYTE_INTERVAL, MAX_BPS, MaxRequests, MaxSeconds} \subseteq Nat \ {0}
  /\ MaxBytes \in Nat            \* not above MAX_BPS: nothing is purged

VARIABLES
  clients,              \* by password, the newest first
  gate,                 \* dss_gate_on: the data is of now
  command,              \* of the last message
  cur_client,           \* the address of the client at work, if there is one
  bytecount, bytesec,
  sent,                 \* the packets of the last step
  blocks,               \* memory blocks in use
  sound,                \* no block was used after it was returned
  nodes, seconds        \* bounded: blocks ever taken for lists, calls of the timers

vars == <<clients, gate, command, cur_client, bytecount, bytesec, sent, blocks, sound, nodes, seconds>>

Init ==
  /\ clients = [cp \in 0 .. 2 |-> << >>] /\ gate = FALSE /\ command = "none"
  /\ cur_client = {} /\ bytecount = 0 /\ bytesec = 0 /\ sent = << >> /\ blocks = 0 /\ sound = TRUE
  /\ nodes = 0 /\ seconds = 0

\* sock: where packets go, set anew before the first of a step; lost: the lists
\* whose rest is not served, as the link to it is gone
State == [clients |-> clients, command |-> command, sock |-> NIL, cur |-> cur_client,
          sent |-> << >>, bytes |-> bytecount, blocks |-> blocks, sound |-> sound, lost |-> {}]
Current(s, addr) == [s EXCEPT !.sock = addr, !.cur = {addr}]
Unsound(s) == [s EXCEPT !.sound = FALSE]

\* find_client: in which list, and where
Places(cs) == UNION {{cp} \X DOMAIN cs[cp] : cp \in 0 .. 2}
Find(s, addr) == {at \in Places(s.clients) : s.clients[at[1]][at[2]].addr = addr}
At(s, addr) == CHOOSE at \in Find(s, addr) : TRUE

Client(s, addr) == LET at == At(s, addr) IN s.clients[at[1]][at[2]]
Put(s, addr, cli) == LET at == At(s, addr) IN [s EXCEPT !.clients[at[1]][at[2]] = cli]

-----------------------------------------------------------------------------
(* Lists.                                                                  *)

\* blocks of a report: its own, and what it counts with
Blocks(r) == IF r.kind = "boot" THEN 1 ELSE 2

\* fault: the memory behind a report is kept
remove_report_fault(s, r) == [s EXCEPT !.blocks = @ - 1]

remove_report(s, r) == [s EXCEPT !.blocks = @ - Blocks(r)]

WithoutReport(cli, k) == [cli EXCEPT !.reports = RemoveAt(@, k)]

\* what the pointers of clients should be
HeadIsFirst(cli) == cli.head = IF cli.reports = << >> THEN NIL ELSE cli.reports[1].node
PrevIsBefore(list, i) == list[i].prev = list[IF i = 1 THEN 1 ELSE i - 1].node

\* the reports of a client are gone through, from its head on
Walked(s, addr) == IF HeadIsFirst(Client(s, addr)) THEN s ELSE Unsound(s)

\* the block of a client is unlinked by its own pointers
remove_client(s, addr) ==
  LET at == At(s, addr)
      cp == at[1]   i == at[2]
      list == s.clients[cp]
      rest == RemoveAt(list, i)
      t == FoldLeft(remove_report, Walked(s, addr), list[i].reports)
  IN [t EXCEPT !.clients[cp] = IF i = Len(list) THEN rest ELSE [rest EXCEPT ![i].prev = list[i].prev],
               !.blocks = @ - 1, !.sound = @ /\ PrevIsBefore(list, i)]

register_client(s, cp, addr) ==
  LET node == nodes + 1
      old == s.clients[cp]
      new == [addr |-> addr, node |-> node, prev |-> node, timer |-> 0, head |-> NIL, reports |-> << >>]
  IN [s EXCEPT !.clients[cp] = <<new>> \o (IF old = << >> THEN old ELSE [old EXCEPT ![1].prev = node]),
               !.blocks = @ + 1]

\* After the head of the list, or after the last report of a higher priority.
Place(rs, rep_prio) ==
  LET higher == {i \in DOMAIN rs : rs[i].rep_prio > rep_prio}
  IN IF rs = << >> THEN 1
     ELSE IF higher = {} THEN 2 ELSE 1 + CHOOSE i \in higher : \A j \in higher : j <= i

\* a request, granted, or refused as its source is unknown or memory is out
add_request(cli, r, granted) ==
  LET at == Place(cli.reports, r.rep_prio)
      head == IF cli.reports = << >> THEN r.node ELSE cli.head
  IN [cli EXCEPT !.head = head, !.reports = IF granted THEN InsertAt(@, at, r) ELSE @]

-----------------------------------------------------------------------------
(* Packets.  One that cannot be sent costs the client at work its place,     *)
(* whoever it was for; the caller goes on with that client.                  *)

Sendings == {TRUE, ~SendFails}

Unreachable(s) ==
  IF s.cur = {} THEN s
  ELSE LET addr == CHOOSE addr \in s.cur : TRUE
       IN IF Find(s, addr) = {} THEN Unsound(s) ELSE remove_client(s, addr)

\* a packet with the records recs of a client, to where sock points; its
\* length counts up to a bound
Counted(n) == IF n > MaxBytes THEN MaxBytes ELSE n
Packet(s, of, cmd, recs) == [to |-> s.sock, of |-> of, cmd |-> cmd, recs |-> recs]
Send(s, ok, of, cmd, recs) ==
  LET t == [s EXCEPT !.command = cmd, !.bytes = Counted(@ + 1 + Len(recs))]
  IN IF ok THEN [t EXCEPT !.sent = Append(@, Packet(s, of, cmd, recs))] ELSE Unreachable(t)
Reply(s, ok) ==
  LET t == [s EXCEPT !.command = "reply", !.bytes = Counted(@ + 1)]
  IN IF ok THEN t ELSE Unreachable(t)

\* What comes of the data of a client: it is sent, or the client is removed and
\* its link to the next is read thereafter, when it is still what it was, the
\* end of the list of free segments, or some free segment ("wild"; so is a
\* report that is gone on with as an early packet failed).
Outcomes == {"sent"} \cup (IF SendFails THEN {"next", "end"} ELSE {})
                     \cup (IF SendFails /\ Dangling THEN {"wild"} ELSE {})

\* the records of a client: a full packet goes out as it is, with the command
\* that is there; the rest as data
Full(n) == (n - 1) \div CAP
SendData(s, how, of, recs) ==
  LET pack(k) == SubSeq(recs, (k - 1) * CAP + 1, k * CAP)
      early == [k \in 1 .. Full(Len(recs)) |-> Packet(s, of, s.command, pack(k))]
      t == Send([s EXCEPT !.sent = @ \o early, !.bytes = Counted(@ + Len(early) * (1 + CAP))],
                how = "sent", of, "DAT", pack(Full(Len(recs)) + 1))
  IN IF recs = << >> THEN s
     ELSE [t EXCEPT !.lost = IF how = "end" THEN @ \cup {At(s, of)[1]} ELSE @,
                    !.sound = @ /\ how # "wild"]

-----------------------------------------------------------------------------
(* Reports.  A report r gives [r, recs]: what becomes of it and what it    *)
(* says.                                                                   *)

Record(r, status) == [data_id |-> r.data_id, status |-> status]
Reported(r) == [r |-> [r EXCEPT !.since = 0], recs |-> <<Record(r, "ok")>>]

\* how often the loss is still to be told
Left(r) == IF r.repflag < FLG_CONT THEN r.repcount - 1 ELSE r.repcount

offline(r) ==
  LET b == IF r.good THEN [r EXCEPT !.good = FALSE, !.repcount = r.repflag, !.notices = 0,
                                    !.cntdn = r.cntdn \/ r.repflag # FLG_NEVER]
                     ELSE r
  IN IF b.cntdn /\ b.repcount > 0
     THEN [r |-> [b EXCEPT !.repcount = Left(b), !.notices = @ + 1], recs |-> <<Record(b, "dna")>>]
     ELSE [r |-> b, recs |-> << >>]

\* check_data when the data is there
Again(r) == IF r.good THEN r ELSE [r EXCEPT !.good = TRUE, !.cntdn = FALSE]

rep(r) ==
  CASE r.kind = "boot" -> Reported(r)
    [] r.kind = "data" -> IF gate THEN Reported(Again(r)) ELSE offline(r)
    [] r.kind = "mean" -> offline(r)

\* a second of a report: whether it is due, and what it says then
Due(r) == (~r.con \/ r.cntdn) /\ r.counter = 1

Waited(r) == [r EXCEPT !.counter = @ - 1]

Renewed(r) == [r EXCEPT !.counter = r.interval]

Second(r) ==
  LET said == IF r.good \/ r.cntdn THEN rep(r) ELSE [r |-> r, recs |-> << >>]
  IN IF Due(r) THEN [said EXCEPT !.r = Renewed(said.r)]
     ELSE [r |-> IF ~r.con \/ r.cntdn THEN Waited(r) ELSE r, recs |-> << >>]

\* the means of a second of data: over the first of every interval
Mean(r) ==
  LET n == r.seccount + 1
  IN IF r.acc
     THEN IF n >= r.seconds
          THEN [r |-> IF r.seconds < r.interval THEN [r EXCEPT !.seccount = n, !.acc = FALSE]
                                                 ELSE [r EXCEPT !.seccount = 0],
                recs |-> <<Record(r, "ok")>>]
          ELSE [r |-> [r EXCEPT !.seccount = n], recs |-> << >>]
     ELSE [r |-> IF n >= r.interval THEN [r EXCEPT !.seccount = 0, !.acc = TRUE]
                                    ELSE [r EXCEPT !.seccount = n],
           recs |-> << >>]

rep_mean(r) ==
  IF ~r.con THEN [r |-> r, recs |-> << >>]
  ELSE IF gate THEN Mean(Again(r))
  ELSE offline(r)

All(cli, Op(_)) == [i \in DOMAIN cli.reports |-> Op(cli.reports[i])]
Records(said) == FlattenSeq([i \in DOMAIN said |-> said[i].recs])
Reports(said) == [i \in DOMAIN said |-> said[i].r]

\* what remains: a report without an interval is said once; when it was the
\* first, head still points at it
Done(cli) == SelectSeq(cli.reports, LAMBDA r : r.interval = 0 /\ Due(r))
Remaining(cli, said) ==
  LET done == {r.node : r \in Range(Done(cli))}
  IN SelectSeq(Reports(said), LAMBDA r : r.node \notin done)

\* the clients in the order they are served
Order(s) == s.clients[2] \o s.clients[1] \o s.clients[0]

\* the reports of all clients, as a second passes, or one of data
Each(s, Op(_)) ==
  FoldLeft(LAMBDA t, cli : Put(t, cli.addr, [cli EXCEPT !.reports = All(cli, Op)]), s, Order(s))
Older(r) == [r EXCEPT !.since = IF gate \/ r.kind = "boot" THEN @ + 1 ELSE 0]
WithData(r) == [r EXCEPT !.avail = IF gate /\ r.con THEN @ + 1 ELSE @]

\* all clients, but for those whose list is lost
Served(s0, Serve(_, _)) ==
  LET serve(s, cli) == IF At(s, cli.addr)[1] \in s.lost THEN s
                       ELSE Serve(Current(s, cli.addr), cli.addr)
  IN [FoldLeft(serve, s0, Order(s0)) EXCEPT !.cur = {}]

interval_reports(s, how, addr) ==
  LET cli == Client(s, addr)
      said == All(cli, Second)
      t == FoldLeft(remove_report, Walked(s, addr), Done(cli))
  IN SendData(Put(t, addr, [cli EXCEPT !.timer = @ + 1, !.reports = Remaining(cli, said)]),
              how, addr, Records(said))

TimedOut(cli) == cli.timer + 1 > CLIENT_TIMEOUT

\* a client that is told of its timeout is removed, also when telling it failed
\* and it was removed for that
ServeClient(s, how, addr) ==
  IF ~TimedOut(Client(s, addr)) THEN interval_reports(s, how, addr)
  ELSE IF how = "sent" THEN remove_client(Reply(s, TRUE), addr) ELSE Unsound(s)

\* the last report of the last password goes first; it is removed after its
\* client is told, and also when that fails and all of the client is removed
PurgeOrder == <<0, 1, 2>>

purge_last(s, ok) ==
  LET with == {k \in 1 .. 3 : \E i \in DOMAIN s.clients[PurgeOrder[k]] :
                                s.clients[PurgeOrder[k]][i].head # NIL}
      cp == PurgeOrder[CHOOSE k \in with : \A l \in with : k <= l]
      some == {i \in DOMAIN s.clients[cp] : s.clients[cp][i].head # NIL}
      cli == s.clients[cp][CHOOSE i \in some : \A j \in some : i <= j]
      t == Put(remove_report(s, Last(cli.reports)), cli.addr, WithoutReport(cli, Len(cli.reports)))
  IN IF with = {} THEN s
     ELSE IF ~ok \/ ~HeadIsFirst(cli) THEN Unsound(s)
     ELSE Send([t EXCEPT !.cur = {cli.addr}], TRUE, cli.addr, "PRG",
               <<Record(Last(cli.reports), "purged")>>)

-----------------------------------------------------------------------------
Registered == {clients[at[1]][at[2]].addr : at \in Places(clients)}

Becomes(s) ==
  /\ s.sound \/ Dangling
  /\ clients' = s.clients /\ command' = s.command /\ cur_client' = s.cur
  /\ sent' = s.sent /\ blocks' = s.blocks /\ sound' = s.sound

Counting(s) == bytecount' = s.bytes /\ UNCHANGED bytesec

\* lib_dss_read: what is sent back is the last it does
Answered(s) == \E t \in {Reply(s, ok) : ok \in Sendings} : Becomes(t) /\ Counting(t)

Register ==
  /\ nodes < MaxRequests
  /\ \E cp \in Passwords, addr \in Addresses :
    LET new == Find(State, addr) = {}
    IN /\ Answered(Current(IF new THEN register_client(State, cp, addr) ELSE State, addr))
       /\ nodes' = IF new THEN nodes + 1 ELSE nodes
       /\ UNCHANGED <<gate, seconds>>

\* a message of a stranger, or one that comes with no password of the three
Stranger ==
  /\ Answered(State) \/ Answered([State EXCEPT !.cur = {}])
  /\ UNCHANGED <<gate, nodes, seconds>>

\* A refused request is removed after it is told so, also when telling failed
\* and it was removed with its client.
Request ==
  /\ nodes < MaxRequests
  /\ \E addr \in Registered, id \in Ids, kind \in Kinds, interval \in Intervals, rep_prio \in Priorities,
       repflag \in RepFlags, ok \in Sendings :
     \E n \in IF kind = "mean" THEN 1 .. 2 ELSE {1}, granted \in {TRUE, kind = "boot"} :
    LET cli == Client(State, addr)
        r == [node |-> nodes + 1, data_id |-> id, rep_prio |-> rep_prio, kind |-> kind,
              interval |-> interval, repflag |-> repflag, repcount |-> repflag,
              counter |-> IF interval = 0 THEN 1 ELSE interval, good |-> TRUE, cntdn |-> FALSE,
              con |-> kind = "mean", seconds |-> IF kind = "mean" THEN n ELSE 0, seccount |-> 0,
              acc |-> TRUE, since |-> 0, notices |-> 0, avail |-> 0]
        double == \E i \in DOMAIN cli.reports : cli.reports[i].data_id = id
        next == [Put(State, addr, add_request(cli, r, granted)) EXCEPT
                   !.blocks = IF granted THEN @ + Blocks(r) ELSE @]
        t == Reply(Current(IF double THEN State ELSE next, addr), ok)
        s == [t EXCEPT !.sound = @ /\ Walked(State, addr).sound /\ (ok \/ double \/ granted)]
    IN /\ nodes' = IF double THEN nodes ELSE nodes + 1
       /\ double => granted
       /\ kind = "mean" /\ granted => n <= interval
       /\ Becomes(s) /\ Counting(s) /\ UNCHANGED <<gate, seconds>>

\* DSS_DEL: the head follows
Delete ==
  \E addr \in Registered, id \in Ids :
    LET s == Walked(State, addr)
        cli == Client(s, addr)
        k == {i \in DOMAIN cli.reports : cli.reports[i].data_id = id}
        rest == WithoutReport(cli, CHOOSE i \in k : TRUE)
        next == [rest EXCEPT !.head = IF rest.reports = << >> THEN NIL ELSE rest.reports[1].node]
    IN /\ Answered(Current(IF k = {} THEN s
                           ELSE Put(remove_report(s, cli.reports[CHOOSE i \in k : TRUE]), addr, next), addr))
       /\ UNCHANGED <<gate, nodes, seconds>>

TimeoutReset ==
  \E addr \in Registered :
    /\ Client(State, addr).timer = CLIENT_TIMEOUT    \* the client says so when it must
    /\ Becomes(Current(Put(State, addr, [Client(State, addr) EXCEPT !.timer = 0]), addr))
    /\ UNCHANGED <<gate, bytecount, bytesec, nodes, seconds>>

RemoveClient ==
  \E addr \in Registered :
    /\ Becomes(remove_client(Current(State, addr), addr))
    /\ UNCHANGED <<gate, bytecount, bytesec, nodes, seconds>>

List ==
  \E addr \in Registered :
    /\ Answered(Current(Walked(State, addr), addr))
    /\ UNCHANGED <<gate, nodes, seconds>>

\* what may come of the packets of a second, of clients that are sent some
Fates(Talks(_)) == LET some == {addr \in Registered : Talks(Client(State, addr))} IN [some -> Outcomes]
Fate(how, addr) == IF addr \in DOMAIN how THEN how[addr] ELSE "sent"
HasReport(cli) == TimedOut(cli) \/ \E i \in DOMAIN cli.reports : Due(cli.reports[i])
HasMean(cli) == \E i \in DOMAIN cli.reports : cli.reports[i].con

\* a second of the station thread
lib_dss_timer ==
  LET now == Each(State, Older)
      look == bytesec + 1 >= BYTE_INTERVAL
  IN /\ seconds < MaxSeconds /\ seconds' = seconds + 1
     /\ \E how \in Fates(HasReport) :
          \E s \in {Served(now, LAMBDA t, addr : ServeClient(t, Fate(how, addr), addr))} :
             /\ IF look /\ s.bytes \div (bytesec + 1) > MAX_BPS
                THEN \E ok \in Sendings : \E z \in {purge_last(s, ok)} : Becomes(z)
                ELSE Becomes(s)
             /\ bytecount' = IF look THEN 0 ELSE s.bytes
     /\ bytesec' = IF look THEN 0 ELSE bytesec + 1
     /\ UNCHANGED <<gate, nodes>>

\* a second of data of the Q330
lib_dss_continuous ==
  LET now == Each(State, WithData)
      serve(s, how, addr) ==
        LET said == All(Client(s, addr), rep_mean)
        IN SendData(Put(Walked(s, addr), addr, [Client(s, addr) EXCEPT !.reports = Reports(said)]),
                    how, addr, Records(said))
  IN /\ seconds < MaxSeconds /\ seconds' = seconds + 1
     /\ \E how \in Fates(HasMean) :
          LET s == Served(now, LAMBDA t, addr : serve(t, Fate(how, addr), addr))
          IN Becomes(s) /\ Counting(s)
     /\ UNCHANGED <<gate, nodes>>

\* the status of the Q330 tells how old the data is
Status ==
  /\ DataComes /\ gate' = ~gate /\ sent' = << >>
  /\ UNCHANGED <<clients, command, cur_client, bytecount, bytesec, blocks, sound, nodes, seconds>>

-----------------------------------------------------------------------------
AllClients == UNION {Range(clients[cp]) : cp \in 0 .. 2}
AllReports == UNION {Range(c.reports) : c \in AllClients}

\* The head of a client is its first report ("head of report list for this
\* client").
HeadIsReport == \A c \in AllClients : HeadIsFirst(c)

\* The pointer back of a client leads to the client before it, or, for the
\* first, to itself ("pointer to previous memory segment").
PrevIsClient == \A cp \in 0 .. 2 : \A i \in DOMAIN clients[cp] : PrevIsBefore(clients[cp], i)

\* nothing is said of what follows the use of a block that was returned
Next ==
  /\ sound
  /\ Register \/ Stranger \/ Request \/ Delete \/ TimeoutReset \/ RemoveClient \/ List
     \/ lib_dss_timer \/ lib_dss_continuous \/ Status

Spec == Init /\ [][Next]_vars

\* memory of clients, their reports, and what those count with
Total(cs) ==
  LET memory(c) == 1 + FoldLeft(LAMBDA n, r : n + Blocks(r), 0, c.reports)
  IN FoldLeft(LAMBDA n, c : n + memory(c), 0, cs)

\* Clients have different addresses and reports of a client have different
\* numbers, and the memory in use is that of clients, reports and what they
\* count with: a refused, purged or finished report leaves nothing behind (remove_report, remove_client).
NothingLeaks ==
  /\ \A c, d \in AllClients : c.addr = d.addr => c = d
  /\ \A c \in AllClients : \A i, j \in DOMAIN c.reports :
       c.reports[i].data_id = c.reports[j].data_id => i = j
  /\ blocks = Total(Order(State))

\* A client that is served and not heard of is dropped (lib_dss_timer).
SilentIsDropped == \A c \in AllClients : c.timer <= CLIENT_TIMEOUT

\* A report whose source is there is said once in its interval, also after an
\* outage: FLG_NEVER is "never report loss of data source" only.
ReportedInTime == \A r \in AllReports : ~r.con /\ r.interval > 0 => r.since < r.interval

\* The loss of a source is told at most as often as the client asked for
\* ("report data source loss 1 time").
NoticesAreLimited ==
  \A r \in AllReports : r.repflag < FLG_CONT => r.notices <= r.repflag

\* Means are those of the first seconds of every interval of data.
MeansKeepStep ==
  \A r \in AllReports : r.con =>
    /\ r.seccount = r.avail % r.interval
    /\ r.acc = (r.seccount < r.seconds)

\* Where a report is purged, no client of a lower password has one left.
PurgedIsLowest ==
  \A k \in DOMAIN sent : sent[k].cmd = "PRG" =>
    \E cp \in 0 .. 2 :
      /\ \E i \in DOMAIN clients[cp] : clients[cp][i].addr = sent[k].of
      /\ \A low \in 0 .. cp - 1 : \A i \in DOMAIN clients[low] : clients[low][i].reports = << >>

\* A client is told of a report of its own that is purged (DSS_PRG, "Report
\* purged").
PurgeIsTold == \A k \in DOMAIN sent : sent[k].cmd = "PRG" => sent[k].to = sent[k].of

\* Reports are in the order of their priority ("noting next highest priority"),
\* so that the last to be purged is the highest.
ReportsByPriority ==
  \A c \in AllClients : \A i, j \in DOMAIN c.reports :
    i < j => c.reports[i].rep_prio >= c.reports[j].rep_prio

\* What reports say goes out as a data packet ("everything setup except
\* command", DSS_DAT "Data Packet").
DataIsSentAsData ==
  \A k \in DOMAIN sent : sent[k].recs # << >> => sent[k].cmd \in {"DAT", "PRG"}

\* A block that is returned is not used ("removing client", send_msg;
\* "return memory segment to free list", mem_free).
OnlyOwnMemory == sound

\* What a stranger says, or is told, costs no client its place ("Cannot send,
\* removing client").
OthersStay == [][Stranger => clients' = clients]_vars
=============================================================================
