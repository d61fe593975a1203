# Verification of ts_ess_earthquake

TLA+ modules, TLC runs and TLAPS proofs for the client of the Q330 earthquake
sensor: the Python connector, the C shim `q330.c`, and `lib330`, the library that
carries a session with the instrument and turns its packets into records. Paths
below are relative to the root of the repository; `lib330/` stands for
`c_src/include/lib330/`.

## The system

| part | source | state | operations |
|---|---|---|---|
| station thread | `lib330/libcmds.c`, `libstrucs.c`, `libtokens.c`, `libclient.c`, `libstats.c` | `libstate`, `share.target_state`, `share.liberr`, `registered`, `terminate` | `lib_timer` every 100 ms, answers of the Q330, `lib_change_state`, `lib_register`, callbacks |
| command queue and requests | `libcmds.c`, `libclient.c` | `commands`, `cmdin`, `cmdout`, `cphase`, `tunnel_state`, `client_ping`, `want_config`, `stat_request` | `new_cmd`, `lib_send_next_cmd`, `clear_cmsg`, `purge_cmdq`, retry; pings, messages, configurations, statuses |
| sockets and links | `q330io.c` | `cpath`, `dpath`, `comid`, `tcpbuf`, the SLIP reader | open, close, read, reset; TCP framing, SLIP, base-96, checksums |
| data link | `libslider.c` | `last_packet`, `pkt_bufs`, `ack_counter`, `dataout`, `link_recv` | `process_data`, `send_dack`, `dack_out`, `send_dopen`, `reset_link` |
| seconds, channels, records | `libslider.c`, `libsample.c`, `libcompress.c`, `libfilters.c` | time tag, multi-segment packets, filters, compression rings, record buffers, event rings | `proc_insequence`, `process_one`, `process_mult`, `process_lcq`, `compress_block`, `finish_record`, `ringman` |
| detectors | `libdetect.c`, `libctrldet.c` | counters, ring of P-T values, expressions | `Te_detect`, `E_detect`, `P_two`, `read_control_detector`, `evaluate_detector_stack` |
| archive, opaque records, logs | `libarchive.c`, `libopaque.c`, `libmsgs.c`, `liblogs.c` | archival record, `cfgq`, message queue, `timing_buf` | `archive_512_record`, `add_cfg`, `msgadd`, `dump_msgqueue`, `log_clock` |
| continuity, statistics | `libcont.c`, `libstats.c` | lists of continuity records and their files; counts per minute and hour; `gps_stat`, `gps_fix` | save, restore, purge; `update_op_stats`, `update_gps_stats` |
| tokens, delays | `libtokens.c`, `libsampcfg.c` | channels, filters, `mdispatch`, `epdelay` | `decode_cfg`, `init_lcq`, `update_ep_delays` |
| servers | `libdss.c`, `libnetserv.c`, `libpoc.c` | memory, clients and reports; ring of records; POC socket | `lib_dss_*`, `nsthread`, `lib_ns_send`, `process_poc` |
| shim | `c_src/include/lsst/.../q330.c` | static `station_context`, `state`, `onesec` | create, register, change state, destroy, callbacks |
| connector | `python/.../q330_connector.py` | `q330_state`, `channel_data`, `telemetry_queue` | `connect`, `disconnect`, `process_telemetry`, three live callbacks |
| data client | `python/.../earthquake_data_client.py` | `_connected` | delegates to the connector; its loop is in `ts_ess_common`, outside of the repository |

How they interact. The event loop of Python calls the shim, the shim calls the
library. The library runs one detached thread per context, which calls back
into the shim and from there into Python, synchronously: the thread does
nothing else until the callback returns, and the callback may call the
library. The client steers a thread only by writing `target_state` and
`liberr` and by leaving requests; the thread writes some of the same words
itself, and compares `target_state` with `libstate` ten times a second. Data go
the other way: packets through the window, seconds out of packets, samples into
channels, through filters and detectors, into records, and those to the client,
to the archive and to the servers; the connector takes only the one-second
callbacks, into `channel_data` and the queue, and from there, on the event
loop, to the telemetry topics.

What is hard about it. Requests and the thread's own decisions overwrite each
other; an answer comes late, twice or never; the network fails inside of a
handler; `disconnect` learns how far a thread has come from the number in the
last notice, whatever kind of notice it is, and then frees memory; a session is
cut in the middle of a second and continued with data already published; time
jumps while a record is open; what was saved is restored after a crash, next to
a Q330 that was started again; lists are mended by hand in five places; and
counters wrap, start anew or are left behind on paths that are rarely taken.
PROJECT.json lists these hazards at their lines.

## Modules

The control of a session:

* `StationThread` - the station thread with its queue and sockets. One
  variable, `lib`, maps each context to a record with the fields of `tq330`
  that matter; what a C function does to a context is an operator of the same
  name from record to record, and an action applies the operators a handler
  calls, in its order. `pc` has a value for every point at which the thread
  has looked at a word the client may write and is about to look again.
  `calls` holds the notices of the current step until the client has returned.
* `Connector` extends it with the shim and with `connect`, `disconnect` and
  `state_callback`; `py` is the position of the event loop, split at each
  `await` and each call. `misread` is history: this `disconnect` went on with a
  notice that was not the state it waited for, or with one that may have come
  from the thread of another context (`Alone`).
* `Commands` - the ring of commands with its indices and numbers, for any
  sequence of requests and answers; tunnelled commands and the log's
  configuration travel in it. `Requests` - pings, messages, configurations and
  aborts. `Status` - the statuses that are still to come.
* `Sockets`, `TcpLink`, `Serial`, `Base96`, `Cksum` - the descriptors of a
  station, and how packets pass over each kind of link.
* `Poc` - a Q330 whose address changes.

From packets to telemetry and records:

* `Stream`, `Slider` - what the data link promises, and the sliding window,
  with a Q330 and a network around it, which implements it
  (`produced <- next, begun <- first, consumed <- taken`).
* `Seconds` - seconds out of packets, over several registrations. `Derived` -
  chains of decimated channels. `Compress` - words out of samples, bit for bit.
  `Record` - records out of words, and their times. `EventRing` - records ahead
  of an event.
* `CtrlDet`, `Threshold`, `Peaks`, `Murdock`, `DetectBuffer` - the detectors, and
  how samples are fed to them. `Peaks` turns samples into swings and thresholds,
  `Murdock` swings, in classes, into events and onsets.
* `Archive`, `Opaque`, `Messages`, `Timing` - archival records, configurations
  and serial data, the log of messages and that of the clock.
* `Continuity`, `ThreadContinuity`, `OpStats` - what outlives a session, a
  thread or the program. `Gps` - what is told of the receiver, out of statuses
  and of notices in the data.
* `Tokens`, `EpDelays` - channels out of tokens, and the delays they need.
* `DssMemory`, `Dss`, `NetServ` - the servers.
* `Shim` - the static one-second structure between threads and interpreter.
* `Telemetry` - `_process_samples` on the station thread, statement by
  statement, against `process_telemetry` on the event loop. Records are
  references to objects, so that a record changed after it was queued shows.

Composition and proofs:

* `MCRecords`, `MCControl`, `MCProgress` - the components above in one
  specification each, for TLC. The parts of a module share no state that two of
  them change within a step, so a behaviour is one of a single part: `part` is
  chosen by the initial state, the next-state relation is that part's, and the
  others stay as they are. A part with another setting of its constants is
  another part. An invariant of the composed module is the conjunction of
  `part = "..." => ` the invariants of the components, under the names they have
  there; an action property is the conjunction of the components', and the
  variables of the parts that do not run never change.
* `StationThreadProofs`, `TelemetryProofs`, `CommandsProofs`, `SliderProofs` -
  theorems about the modules they are named after. `NetServ`, `MCProgress` and
  `MCControl` end with their own. `Wrapping` - lemmas on numbers that wrap
  and on streams that packets are made of.

A definition named `..._fault` is a seeded fault for the definition that
follows it. No specification uses it; replacing the one by the other must
make the property PROJECT.json names with it fail, and so it tells what that
property is able to detect.

## Runs

| run | what it is of | states | shows |
|---|---|---|---|
| `station_thread` | 1 context | 8,446 | the invariants, `SessionOrder` and `IdleHonoured` under any client |
| `connector` | 1 context | 459,378 | `disconnect` with honest notices is clean, undisturbed and ends |
| `slider` | 4 buffers, window 3, 8 sequence numbers, packets 6 to 10, 2 messages each way | 188,322 | order, no loss of acknowledged packets, implements `Stream` |
| `slider_liveness` | 2 buffers, window 2, 6 sequence numbers, packets 6 to 8 | 8,240 | everything is processed while the link is up |
| `telemetry` | 1 topic, 3 seconds, 1 cut | 88,464 | records are not mixed, not changed, published once and in order |
| `records` | 21 parts, see below | 620,034 | samples, records, derived channels, archives, continuity, detections and statistics are exact |
| `control` | 13 parts | 598,080 | commands, requests, sockets, links, the GPS receiver, event output and the subscription server are exact |
| `progress` | 15 parts | 122,614 | what somebody waits for comes; seconds, messages, tokens and the network server are exact |

What the properties of the composed runs contain:

| property | components and their properties |
|---|---|
| `RecordsAreExact` | `Compress` (words unpack to the samples, in the densest format, from a ring that holds them), `Record` (`RecordsAreDated`, `RecordsAreContiguous`) |
| `NothingIsDropped` | `Record!SamplesAreKept`, `ThreadContinuity!RestoredIsLatest` |
| `EventOutputIsExact` | `EventRing`: the records of an event with those before and after, once, in order, flagged at its ends |
| `SecondsAreExact` | `Seconds`: under their own time, once, in order, merged only when complete, and then at once (`WholeSecondsAreProcessed`) |
| `DerivedAreExact` | `Derived`: continuous, aligned and dated records; gaps where there are gaps |
| `ArchiveIsExact` | `Archive`, `Opaque`: links, times, numbers and contents of archival and opaque records; kept once across a restart |
| `ContinuityIsExact` | `Continuity`, `ThreadContinuity`: what is restored is the latest; after a crash it is of one instant and of this Q330 |
| `DetectorsAreExact`, `DetectionsAreExact` | `CtrlDet`, `Threshold`, `Peaks`, `Murdock`, `DetectBuffer`: every sample seen once and in order, swings from peak to trough, thresholds that follow the noise, expressions evaluated as written, onsets from neighbouring values, once per event |
| `AnswerIsForHead`, `CommandsAreKept` | `Commands`: an accepted answer is for the head of the ring; no command is lost |
| `RequestsAreKnown` | `Commands`, `Status`: contents of commands, tunnel, statuses that are lacking; `Gps`: power, fix and position as they are, or were last |
| `SocketsAreExact` | `Sockets`: no descriptor is lost; who waits for a connection has one under way; who runs over UDP has a data socket; `TcpLink`: packets come out of a TCP stream as they went in, none is held back |
| `BytesArrive` | `Serial`, `Base96`, `Cksum`: packets arrive as they went, in order, or fail their check |
| `StatisticsAreExact` | `OpStats`: the last hour, across restarts and when the clock is set back; efficiency only of measured minutes |
| `DssIsExact` | `DssMemory`, `Dss`: blocks disjoint, nothing leaks, the lowest purged, the silent dropped, reports in time, also when packets cannot be sent |
| `MessagesAreExact` | `Messages`, `Timing`: logged once and in order; exceptions add up, one timemark a day |
| `TokensAreExact` | `Tokens`, `EpDelays`: references met, dispatched once, one delay per record |
| `ServedInOrder` | `NetServ`, `Poc`, `Requests`, `Shim`: records and seconds in order, a ping in flight is queued |
| `RequestsAreServed` | `PingIsAnswered`, `ConfigIsTold`, `StatusIsFetched`, `FoundAtLast`, `MappingIsSet`, `DelaysAreKnown`, `EachIsProcessed` |
| `RecordsAreSent` | `WaitingIsSent`, `WaitingIsFinished`, `ConfigIsSent`, `QueueIsSent` |

The two liveness properties state those of the parts as one formula, which is the
same as each of them because only one part runs in a behaviour.

Violated, each for a statement of a document or comment that the code does not
keep (see `findings` in PROJECT.json for the quotation):

* `disconnect_is_safe`, `disconnect_stops` - the consequences of reading `info`
  without `state_type` and of doing nothing while `q330_state` is None;
* `term_is_terminated` - a request for TERM taken by a branch that only knows
  IDLE and WAIT: the thread says TERM and goes on;
* `newer_timestamp` - data sent again after a new registration, against the
  docstring of the collecting code.

### Bounds and why they are enough

Contexts share nothing inside of the library, so one context shows all that a
station thread can do alone; `q330.c` adds two static words, and a reconnecting
client with one context already meets the thread of its last connection. For
the window, the numbers keep the relations of the code (`WINBUFS <= BufCount`,
`BufCount` divides `SeqMod`); packets start just below the wrap of the sequence
number and there are enough of them for a slot of the ring to be used twice.
The proofs lift both. For the telemetry one cut session gives every combination
of partial and repeated seconds.

The parts of the composed runs, with the comments and constants in the MC modules:

* `compress`, `peek` - three sample values whose differences need no bits, six
  bits and more than a word has, up to six samples; two values, eight samples,
  one more than the ring of seven. The widths are those of the source.
* `record`, `onehz` - frames of four words and two frames a record, so that a
  record is full, and ends within a second, within the bound; jumps of time
  below and above the gap, forward and back.
* `ring` - two records before an event, nine records: two events, overlapping or
  apart. `seconds` - one low-rate and one high-rate channel of three segments,
  five seconds, three registrations. `slow`, `fast` - two decimations behind
  a source of one sample a second, one behind a source of four.
* `archive` - records of six units, three records, a restart. `config`,
  `serial` - the real sizes of record and blockettes; sizes that just fit.
* `continuity`, `crash` - two channels, a filter and a ring; three, or two,
  starts of the program; crashes between any two writes, torn writes, media
  errors, one restart of the Q330. `thread` - one statistic,
  tokens with or without it, a message channel; three starts and two records, so
  that a channel goes on, records and is lost in a crash. `media` - two
  statistics, tokens that have one or both, two starts, a file that fails to open.
* `control` (of records) - all expressions of two levels over two inputs.
  `peaks` - seven samples of three values, four records, counted modulo three;
  noise of two swings. `threshold`, `limits`, `murdock`, `hits`, `buffer` - values of two and more
  classes, for long enough that an event begins, ends and begins again.
* `commands`, `contents` - four or five places in the ring for one command
  fewer than that, up to five transmissions of each kind of fault.
  `status` (control, progress) - a client that asks for two of three kinds.
* `sockets` - all modes, a good, an announcing and a wrong address.
  `tcp`, `serial`, `base96`, `cksum` - packets that fit, just fit or do not; one
  fault on the line; all values that take part in escaping or masking.
* `statistics` (of records) - days of two hours of two minutes, stops of up to five
  minutes, or a clock that is set back meanwhile.
* `gps` - three changes of power or fix, three statuses, one session cut.
* `memory` - ten cells, blocks of two sizes. `clients`, `reports` - two
  clients with one report each, which need no data, and a limit on bytes below what
  they say; one client with two reports on data that comes and goes (`DataComes`). Any
  packet may fail to go out (`SendFails`), but no block is used after it was
  returned (`Dangling`).
* `requests`, `aborted`, `poc`, `found`, `opaque`, `netserv`, `netsent`,
  `messages`, `timing`, `tokens`, `client`, `delays`, `shim` - one or two
  requests of each kind with one loss; two moves of the Q330; three lists of
  tokens of which two are refused in part; three EP channels with room for two.

`CHECK_DEADLOCK FALSE` is given where the system really stops: after the
process has crashed in `Connector`, when all data has been delivered in
`Telemetry`, and in the composed modules when a part has taken all its inputs.

### Fairness

* The timer of the station thread runs every 100 ms whatever else the thread
  does, but not while a callback is served: strong fairness of `Timer`, weak
  fairness of the return of callbacks, which in Python only log and copy.
* The 20 seconds of a de-registration do run out: strong fairness of
  `DeregTimeout`. No other timeout and no answer of the Q330 is assumed.
* `disconnect` goes on once begun, the event loop being alive; connecting and
  beginning to disconnect are not fair.
* For the link, a network that delivers now and then what is sent again and
  again, and a Q330 that sends its oldest packet until it is acknowledged. No
  fairness on `StartRun` or on `StopRun`: the property is about links that stay up.
* The event loop calls `read_data` again and again.
* In `MCProgress`: the timer's steps that send what is requested and count
  seconds are weakly fair (`lib_timer` runs every 100 ms, its second part every
  second); of the answers to a command that is repeated until it is answered, one
  comes (weak, or strong where it may be given up and asked for anew: `Status`);
  the Q330 sends its POC again and again and some of them arrive while the
  station waits (strong, `Poc`); the thread of the network server runs and its
  client reads; the interpreter gives its lock to everybody who waits (strong,
  `Shim`); an EP measures the delay it is asked for. Strong fairness of the three
  parts that need it is stated of the union of their actions: only the one that
  runs is ever enabled.

## Proofs

What is proved, for every value of the constants that the assumptions admit:

| module | theorem | property |
|---|---|---|
| `StationThreadProofs` | `StationTypes`, `ParkedUnregistered`, `InFlightQueued` | `TypeOK`, `ParkedIsUnregistered`, `InFlightIsQueued` |
| | `ClosedLeaving`, `SessionsInOrder` | `ClosedIsLeaving`, `SessionOrder` |
| | `CleanStops`, `LastNotice` | `CleanStop`, `LastNoticeIsTerm` of `Connector` |
| `TelemetryProofs` | `TelemetryTypes`, `RecordsOfOneSecond`, `QueuedIsFrozen` | `TelemetryTypeOK`, `OneSecondPerRecord`, `FrozenOnceQueued` |
| | `PublishedInOrder` | `CompleteAndInOrder` |
| `SliderProofs` | `SliderTypes`, `BuffersHoldWindow`, `PacketsInOrder`, `AcknowledgedIsKept` | `SliderTypeOK`, `SlotsHoldWindow`, `TakenInOrder`, `AckedIsKept` |
| | `LinkImplementsStream` | `ImplementsStream` |
| `CommandsProofs` | `CommandsTypes`, `AnswersAreForHead`, `RingNeverOverflows` | `CommandsTypeOK`, `AnswerIsForHead`, `CommandsAreKept` |
| | `ConfigurationIsKnown`, `TunnelIsTheClients` | `LogIsKnown`; `TunnelAnswerIsTheRequests`, `BusyIsInProgress` |
| `NetServ` | `RecordsInOrder`, `LatestKept` | `InOrder`, `LatestAreKept` |
| `MCProgress` | `PartsServed`, `SecondsTimed` | `ServedInOrder`, `SecondsAreExact` |
| `MCControl` | `DescriptorsAreKept`, `RequestsKnown`, `EventsSent` | `SocketsAreExact`, `RequestsAreKnown`, `EventOutputIsExact` |

None of these properties but the types is inductive. What each proof adds to
them is an invariant of its own, with a theorem of its own (`StationInvariant`,
`OrderInvariant`, `ConnectorInvariant`, `TelemetryInvariant`, `UncutInvariant`,
`SliderInvariant`, `CommandsInvariant`, `ServerInvariant`).

### The station thread

Nothing is assumed of `Contexts`, and queues are of any length.

`StationInv`. When the timer has found a request to stop in IDLE, WAIT or REG it
goes to `apply`, and by the time it applies the target the client may have
changed it; that the state which results does not count as registered rests on
the thread still being in one of the three states. `Consistent` therefore adds:
at `apply`, `libstate` is IDLE, WAIT or REG.

The proof goes along the code: for each operator a lemma says what it keeps and
establishes (`lib_send_next_cmd` and `new_cmd` keep consistency, `close_sockets`
does not disturb it, `purge_cmdq` and `clear_cmsg` end with the phase and the
stall cleared, and so on), and for each group of actions (`ClientKeeps`,
`TargetKeeps`, `SecondKeeps`, `ReaderKeeps`) one lemma composes them. `One`
reduces an action to the context it changes.

`OrderInv`, on top of it. Which state follows which is decided by answers (to
whatever command is in flight) and by the target, which the client writes: it
asks for RUN out of the callback that announces RUNWAIT, and the thread goes on
with what it read before. So `Session` says, state by state, which commands may
be queued and that the one which ends the state is the last (`QueueFits`); that
while RUNWAIT is still being announced the thread is in RUNWAIT (`Announced`);
in which states the target can be RUN; that after READCFG with open sockets the
status has been read, so that a late answer does not begin the configuration
again; and when TOKENS_CHANGE can be the reason. `Placed` says what each point of
the loop means for the state. `ClosedIsLeaving` is one conjunct of `Session`, and
`SessionOrder` follows step by step (`InOrder`). The property was stated with an
exception for the point `apply`; the proof showed that it needs none.

### The connector

`ConnectorInv`, on top of `StationInv`, for any set of contexts: threads of
earlier connections, freed or abandoned, may go on beside the present one.

`disconnect` sees numbers, left in `q330_state` by a callback that copied them
from a static word that another callback may have written in between. The
invariant follows a notice on that way. A notice of IDLE in `calls` means a
thread at rest (`Idled`: not registered, asked for nothing but RUN or TERM); in
`state` or `q330_state` it means that some thread came to rest and that, if it
has ended since, its TERM has not yet come as far (`Witness`, `IdleStored`,
`IdleCopied`). A thread that has exited has nothing to say but TERM, once
(`Notified`). From the moment `disconnect` has read a real IDLE with no other
thread about, `Stopping` holds of its context: `Idled`; once the shim holds TERM
the thread has exited; once `q330_state` holds it, the client has heard the last
of it (`Heard`). `CleanStop` is then the case `py = "destroy"`, and
`LastNoticeIsTerm` what `Freed` keeps of it.

Needed for this is a second reading of the library: `Mild` (a function says
neither IDLE nor TERM and asks for neither). A handler then leaves the thread
alive without such a notice (`Calm`), enters the state its target names
(`Obeys`), ends the loop (`Quits`) or says TERM and exits (`Exits`); `ThreadDoes`
puts the handlers together.

With two contexts the properties are false of a `disconnect` that reads the IDLE
of a thread an earlier connection left behind: `misread` therefore counts a
notice that another thread may have given (`~Alone`) as not read honestly. With
one context, as in the run, this adds nothing: there is no other thread.

### Telemetry

Assumed: at least one second of data (`TelemetryAssumption`). The runs have one
topic; the theorems also say that topics do not disturb each other.

`TelemetryInv`. Both properties speak of records the event loop has or will
have, and hold because the record under collection is never one of those.
`Collecting` states that, with its one exception: between `put` and the
assignment of the new holder, the record of the topic of the current sample is
in the queue and still in `channel_data`, and nothing may write to it. `Hands`
adds that samples go to a holder with their timestamp, and
`OneSecond` says of every holder, queued or not, what the property says of the
published ones. One lemma per action (`SecdataKeeps` to `WriteKeeps`) shows that
`TelemetryInv` is preserved.

`UncutInv`, while no session has been cut. A record goes into the queue when the
first sample of the next second of its topic comes; that it is complete by then
is a statement about the samples still to come: `UnderWay` says that the holder of
a second before the present one is complete, and that of the present one has
every component that has come but the one on its way (`Awaited`), at each
statement of the callback. `OutIsOlder` says that all that
is out (queued, in the hands of the event loop, or written) is complete and older
than what is collected, and `OutInOrder` that the three places are in order,
one before the other.

### The sliding window

For a sequence number of any range, any number of buffers that divides it, any
window that fits them and any number of packets. The receiver knows packets by
sequence numbers, the properties by absolute ones; `Near` and `Truthful` tie
them together: everything under way and everything in a buffer is close enough
to the receiver for a number, or a slot, to mean one packet, and an
acknowledgement, however old, says nothing of the past that has ceased to be so
(`Honest`). `Aligned` and `Quiet` say when the receiver's number is that of its
position. The arithmetic is in `Wrapping`: two numbers less than the modulus
apart are equal when they are equal modulo it, and what the differences of
wrapped numbers are. `LinkImplementsStream` shows that the first state is one of
`Stream`'s and that each action is an action of `Stream` or a stutter. Assumed
(`SliderAssumption`): the sizes fit as those of the source do, and a packet is
not delayed by as much as a whole turn of the sequence number.

### The commands

For any commands and any ring with more places than there are commands.
`new_cmd` has no test for a full ring. It needs none, because it refuses a
command that is there already: the commands in the ring are distinct
(`EachOnce`), so by the pigeonhole principle there are fewer than places, and
`cmdin` never meets `cmdout` from behind. From that the head of the ring stays
what it is while its answer is awaited (`Numbers`).

`ContentsInv`, on top of it, is about what the commands carry (`InRing`: the
commands in the ring, in no order). `LogInv`: a change that the client asked for
is either still marked, or in the one C1_SLOG of the ring, or known; an answer to
the C1_SLOG at the head comes from a Q330 that has taken the new configuration.
`TunnelInv`: while the tunnel is busy its command is in the ring, once, and
nothing else that is tunnelled; so the answer that is passed on is that to the
last request. Both are false in the settings that the table below names (`Overlaps`, `Purges`, a
refused command), which the theorems exclude by name.

### The record server, and the parts of MCProgress

`NetServInv`, for a ring of any size from two places on (`NetServAssumption`) and
any clients. Both threads take records out of the ring, one after a client has
read, the other when the ring is full, and a connection may break in between.
What has left the ring is a number, `Gone`: the records written less those held.
`RingFits` says that the place `k` after the head holds record `Gone + 1 + k`;
`LatestSent` that of the records up to `Gone` the latest went to a client;
`WireFits` that what clients have read and what is on the way is in order and not
newer than `Gone`. A record leaves the ring as number `Gone + 1` (`HeadLeaves`), so
it comes behind all that was sent; when a full ring throws one away, that one is
too old to be among the latest. The lemmas before it replace the modulus by a case
distinction.

`MCProgress` composes that server with parts that are proved in it: each step is
a step of the part that runs and leaves the others alone (`OnlyThePartRuns`), so
an invariant of a part holds of the whole while the part runs. `PocInv`: who is
registering, or is told to, has an address, and a POC under way names one, which
needs both `libstate` and `target_state`, as one follows the other. `PingInv`: a
ping that is marked as sent is in the queue, which needs that a command in flight
is its head, and that nothing is given up (with `Aborts` it is false, see below).
`ShimInv` follows a second from the thread through the static structure to
Python, field by field; with one thread the number of a record is its place.

### The sockets

`SocketsInv`, in `MCControl`, for any modes, addresses and number of descriptors
(`SocketsParameters` only says that they are of the kinds the code knows).
That no descriptor is lost is inductive only with two more facts: the three
fields `cpath`, `dpath` and `comid` never name one descriptor twice, or closing
one would close the other (`LinkFits`), and what the fields name is all that is
open. `close_sockets` looks at `usesock` and so closes only some of the three;
`LinkFits` is what it keeps in either case (`CloseFits`). `CpathFits`,
`DpathFits` and `ComidFits` say that a link with a new descriptor fits, because
it was free. `SocketsOpened` and `SerialOpened` go through every way in which
`open_sockets` and `open_serial` end, with and without success. `HasData`, the
link of a station that runs, holds from REG on; that C2_BACK opens the sockets
anew in the middle of a registration and does not look at the result does not
break it, because it comes from a baler: `balesim` is set, as the invariant says
of ANNC, and the property is about links to a Q330. With a baler a session may
well run without a data socket.

### The TCP stream

`TcpInv`, in `MCControl`, for any sizes of header and buffer, any lengths that are
sent, good or bad, and any way in which `recv` cuts the stream. `StreamInv`: what
is in `tcpbuf` and what is under way behind it are, byte by byte, the packets from
the next one on, each behind its header (`Streamed`, in `Wrapping`, with the place
at which each begins); of a connection that was closed they are only the first
bytes. That a prefix of such a stream is one, that one without its first packet is,
and one with a packet more, are the lemmas `StreamGoesOn`, `PacketGoes` and
`PacketComes`; the actions are cases of them. So four bytes at the beginning of the
buffer are a header, and that of the next packet (`HeaderSays`). `Rested`: when
`recv` is waited for, the buffer begins with less than one packet, and that one
fits; from this follow both that `recv` is never asked for nothing and that no
complete packet waits. The theorem is for a `memcpy` that moves overlapping areas
(`MovesOverlap`); for one that does not it is false, see below.

### The seconds

`SecondsInv`, in `MCProgress`, for any number of segments, of seconds and of
registrations, any loss, and any window that does not reach back further than
`MAXSPREAD` seconds (`SecondsAssumption`; both are 128 in the source).
`TimeInv` ties the time tag to the last sequence number: it is that second's or
unknown, and after a registration, when the test for a missed timing blockette is
not made, the Q330 goes on no later than at the first packet of the next second,
so that no tag serves another second (`TagIsOwn`). `Behind` says of what a channel
has processed that the Q330 can repeat nothing so old that `process_one` would take
it for another numbering (`NotSoFar`). `CollectInv` is about the segments of the
second being collected: as they come in rising order, they are either all from the
first to the last of them, or fewer than that (`Collecting`), and the count alone
decides in `process_mult`; so a second that is complete by the count is whole
(`CollectMore`), one whose segments have all come is complete, and one that is not
yet processed has its time. The theorem needs that the link does not resume beyond
the packets that were lost in between (`SkipOnResume`) and that registrations end
in a known time (`UntimedEnd`): without either it is false, see below.

### The statuses and the GPS receiver

`StatusInv`, in `MCControl`, for any wishes of which no two need the same place (two
serial ports do, see below) and either kind of Q330: as long as a status is to be
asked for, its command is in the queue (`LackingIsAskedFor`), and what lies in a place
is a status that belongs there (`MayLie`), also what comes with an answer that was
in flight when the request was given up.

`GpsInv`. What is told of the receiver is put together from notices in the
data, which come late but in order, and from statuses, which overtake them.
`PowerInv`: as long as a notice is on its way the last of them says whether the
receiver is on, and when there is none, what is told does, as soon as a status has
agreed; a cold start is told of a receiver that is on. `FixInv`: the fix that is
told is of the last one there was, with an F when it is over.

### The events

`RecordsInv`, in `MCControl`, for any number of records ahead of an event and any
number of records. `RingInv`: the place `i` before the one being filled holds the
record finished `i` ago, or none yet. From it `DueRecords` finds which records are
given on when an event begins: the latest ones that the ring holds, that exist and
that are newer than those given on before; that these are neighbours is arithmetic
of the ring (`PlacesOfRing`, with `SlotFirst` of `Wrapping`). `SentInv`: what has been
sent is in order, each record once, and goes on up to the one before `gen_next`,
which is within reach of a trigger. `FlagInv`: of a continuous channel, the last
begin is followed by an end just when the detector is off. One lemma follows a
record that ends through each of them (`RingMoves`, `SentMoves`, `FlagsMove`).

### Only model-checked

* The liveness properties (`IdleHonoured`, `CleanDisconnectEnds`,
  `EverythingIsTaken`, `QueueDrains`, `RequestsAreServed`, `RecordsAreSent`):
  neither fairness nor `ENABLED` is within reach of the prover.
* `MCRecords`, which reaches the RECURSIVE operators of `CtrlDet`, `Murdock` and
  `Record`; with such operators the prover loses its arithmetic.
* `BytesArrive`, `DssIsExact` of `MCControl`: checksums and the
  rounds of the subserver are folds, and the free list of
  `DssMemory` is what following its links gives, one after the other.
* `MessagesAreExact`, `TokensAreExact` of `MCProgress`: a record of the log, a list
  of tokens and the seconds of timing records are what folds over sequences
  make of them, and a fold is induction over data.

## Disagreements met while modelling

Apart from the four that are runs, the modules state the following sentences of
comments and documents, each under the name given, with a comment; TLC finds
every one of them violated under the setting in the third column (the constants
not named there are those of the part in the composed modules, at most with
larger bounds). `Where` is in
`lib330/` unless it has a path of its own.

| property | where | setting | the code |
|---|---|---|---|
| `Connector!TermOnlyFromIdle` | `q330_connector.py:428` | run `connector` | takes any notice with `info` 0 for IDLE and asks for TERM before the thread has de-registered |
| `StationThread!RunWaitIsRegistered` | `libcmds.c:973` | run `station_thread` | a disabled logical port leaves `target_state` at RUNWAIT, which the thread enters after it has de-registered |
| `Telemetry!QueuedIsComplete` | `q330_connector.py:304` | run `telemetry` | a session cut within a second leaves components empty |
| `Telemetry!QueuedIsWritten` | `q330_connector.py:411` | `FairSpec` | a record whose write fails has left the queue |
| `Shim!GotIsOneRecord` | `q330.c:141` | two threads | one structure for all contexts, read without the interpreter's lock |
| `Derived!CopiedAreValid` | `q330.c:159` | two fast decimations | copies as many samples as the rate says, of which one is there |
| `Derived!GapIsGap` | `libsample.c:663` | the same | a channel derived from a derived one finds a gap with every sample but the first of a second |
| `Derived!WindowIsInOrder` | `libsample.c:606` | one gap | after a gap the filter begins with samples from before it |
| `Seconds!SecondsAreTimed` | `libslider.c:357` | `SkipOnResume` | a second that resumes without its timing blockette has the time of the one before |
| `Seconds!LastSegmentIsHeld` | `libsample.c:1190` | - | the last segment of a second is not held, though the caller looks for a held one |
| `Seconds!SecondsOnceInOrder` | `libtokens.c:944` | `UntimedEnd` | a second repeated after a registration that ended without a time tag is processed twice |
| `Threshold!WaitsForBlock` | `libdetect.c:863` | `n_hits` 1, or both limits | the count of the block is that of the event before, and is shared by both limits |
| `Threshold!MinDuration` | `libdetect.c:856` | `n_hits` 2 | samples over the limit add up however far they are apart |
| `Murdock!ValuesAreNeighbours` | `libdetect.c:48` | `E_B` 11 | the last place of the ring is never written, and is read |
| `Murdock!PeriodIsPositive` | `libdetect.c:474` | `E_B` 13 | the same place gives a negative period |
| `Murdock!EventIsReported` | `libdetect.c:293` | `wait_blk` 2 | an event that ends before its eighth value is not reported |
| `DetectBuffer!NoneIsLost`, `SamplesInOrder` | `libdetect.c:624` | `Rate` 3 | when called again for the rest of a buffer, takes the last group twice and skips the rest |
| `Gps!PositionIsExact` | `libstats.c:365` | - | the letter and the digit before it are cut off |
| `Gps!OnIsKnown` | `libstats.c:344` | `Forgets` | a cold start is not corrected by a status that says off |
| `Continuity!RestoredIsLatest` | `libcont.c:1385` | `Crashes` | the file is not marked as used until it is written anew |
| `Continuity!RestoredIsWhole` | `libcont.c:725` | `TornWrites` | the record with the wrong checksum is restored |
| `ThreadContinuity!RestoredIsLatest` | `libcont.c:1403` | `MediaErrors` | a file that cannot be opened for marking is restored again |
| `ThreadContinuity!ChannelsAreReady` | `libcont.c:480` | `TornWrites` | channels from before a broken record have no buffer |
| `ThreadContinuity!LogHasName` | `libsampcfg.c:112` | tokens without a log | the second session has a log channel without a name |
| `ThreadContinuity!OneStatistic` | `libsampcfg.c:682` | tokens that swap two names | two statistics are recorded on one channel |
| `OpStats!DayEffIsMeasured` | `libstats.c:643` | - | adds the mark for "no data" to the efficiency of the day |
| `Archive!FirstDataIsData` | `libarchive.c:214` | `OnlyBlockettes` | the first data byte is not moved if there are no data |
| `Tokens!FilterIsNamed` | `libtokens.c:135` | filter numbers of a second list | a filter that is given the number of an earlier one is not found |
| `Tokens!MappingIsKept` | `libclient.c:388` | `ClientSets` | a client that read the log before gives the old frequencies back |
| `EpDelays!CheckedAfterChange` | `libsampcfg.c:245` | - | the timer that is set is cleared by the next call |
| `EpDelays!DerivedIsTotal` | `libsampcfg.c:259` | - | a delay that comes later does not reach derived channels |
| `EpDelays!OthersAreKept` | `libsampcfg.c:301` | `MaxOther` 1 | read, change and write back, with two commands, loses what others wrote between |
| `Commands!LogIsKnown` | `libcmds.c:1026` | `Overlaps` | a change made while C1_SLOG is in flight is dropped, and taken for known |
| `Commands!TunnelAnswerIsTheRequests` | `libcmds.c:789` | RQSTAT refused | a refused command frees the tunnel of another one |
| `Commands!BusyIsInProgress` | `libcmds.c:1772` | RQSTAT tunnelled | the tunnel stays busy for ever when its command was not queued |
| `Requests!MessageIsShown` | `libcmds.c:1284` | two messages | the confirmation of the first clears the second |
| `Requests!PingInProgress` | `libcmds.c:451` | `Aborts` | a ping that is given up stays "sent" |
| `Requests!AnswerIsToPing` | `libcmds.c:1766` | one ping | the answer to the library's own ping is passed on as that to the client's |
| `Requests!WaitIsRequested` | `libcmds.c:1780` | two configurations | two threads change bits of one word, one without the lock |
| `Status!SerialIsOfPort` | `libcmds.c:1245` | two serial ports | one structure for all |
| `Status!LogIsMine` | `libcmds.c:1196` | another logical port | the same structure as for one's own |
| `Status!AnswersAreRead` | `libclient.c:204` | thread status | its part of the answer is not read over |
| `Poc!ExpiresSincePoc` | `libcmds.c:1823` | `Wait` 4 | an address does not get older while the station waits |
| `Sockets!IdleIsClosed` | `q330io.c:370` | ETH | the control socket stays open when the data socket fails |
| `Sockets!PingReturnsToIdle` | `libcmds.c:1663` | ETH | a failed ping ends in a registration |
| `Sockets!ModeIsUsed` | `libstrucs.c:811` | ETH, then TCP | pings use the mode of the session before |
| `Sockets!AcksCanBeSent` | `libslider.c:201` | TCP | nothing is acknowledged without a data socket, and TCP has none |
| `TcpLink!BlamedRightly` | `q330io.c:687` | `MovesOverlap` FALSE | `memcpy` between areas that overlap |
| `DssMemory!BlocksAreDisjoint` | `libdss.c:526` | `MergeAll` | `prev` of the segment after a merged one |
| `Dss!HeadIsReport` | `libdss.c:1996` | two clients | three ways to remove the first report leave `head` at it |
| `Dss!PrevIsClient` | `libdss.c:935` | two clients | the newest client points at itself |
| `Dss!ReportsByPriority` | `libdss.c:1297` | two priorities | the search never puts a report before the head |
| `Dss!DataIsSentAsData` | `libdss.c:1717` | two reports | a full packet goes out under the command of the one before |
| `Dss!ReportedInTime` | `libdss.c:1959` | `RepFlags` {0} | a report that never tells of an outage never ends one |
| `Dss!PurgeIsTold` | `libdss.c:2002` | two clients | tells the client that was served last |
| `Dss!OthersStay` | `libdss.c:756` | `SendFails` | a refusal that cannot be sent to a stranger removes the client last at work |
| `Dss!ReportedInTime` | `libdss.c:2056` | `SendFails`, two clients, `MAX_BPS` 5 | after a client that was removed for a packet the next is read from a block of the free list, and those behind it are not served |
| `Dss!OnlyOwnMemory` | `libdss.c:758` | `Dangling` | see below |
| `NetServ!QueueIsSent` | `libnetserv.c:444` | `MaxSays` 1 | the loop that reads does not end when there is nothing left to read |
| `NetServ!WaitsForAccept` | `libnetserv.c:377` | a stranger calls | closes the socket that listens |
| `NetServ!TakenIsSent` | `libnetserv.c:468` | `MaxFaults` 1 | a part of a record counts as the record |

The settings that lead to them are left out of the passing runs by the constant
named: the rest of the component is checked with the behaviour as it is in the code.

`Dss` has one constant more for what is undefined in C. `send_msg` returns the
client at work, with its reports, to the memory of the subserver when `sendto`
fails (`libdss.c:744-759`), and its callers go on. They use what was returned
when the packet was a notice of timeout (2035-2043 removes the client again), of a
purge (2002-2003 removes its report again), a refused request (which is removed
again), or a packet that filled up while the reports were walked (1717); so do those
who follow a `head` that was not moved (1985) or unlink a client by a `prev` that
points at itself (935). Each of these is a step that makes `sound` FALSE. It
is taken when `Dangling` is TRUE (then `OnlyOwnMemory` is violated), and is left
out when it is FALSE, as in the passing run; nothing is explored after it. After
any other failure `lib_dss_timer` reads the link of the client that was freed (2050-2056):
the free list has written it, and what it can be is a choice - the next client, the
end of the list, which leaves the clients behind it without a report this second, or (with
`Dangling`) a free block. The first two are in the passing run.

## Not modelled

Everywhere: time, but for what a property is about. A timer that may have run
out is a choice, and only the order of the timers within one call of
`lib_timer` is kept. Wording, formatting and the layout of packets.

* Conversions (`q330cvrt.c`, `libcvrt.c`, `libsupport.c`, most of `libseed.c`), the tables of filter
  coefficients, printing of statuses: no state, or no property of it but the
  layout; `libverbose.c` and `libmd5.c`, functions of their arguments. `libmseed`
  is vendored and not called; `connect_q330` is a test program that makes the
  calls of the connector.
* `StationThread`, `Connector`: the two readings of `target_state` in the `if`
  and in the `switch` of `lib_timer` are one. Cancelling `disconnect`, and two
  contexts delivering data at once (but see `Shim`). After
  `q330_destroy_context` has freed the buffers of a context its thread is taken
  to go on undisturbed; what freed memory does to it is undefined, and the
  properties are about not getting there. Of what a status asks for
  (`libcmds.c:1071-1094`, 1192-1209) the log, the delays, the first ping and the user
  message are left out, like the other commands that only fetch or tell more: their
  answers change nothing of what is modelled, and the ring that holds them is in
  `Commands`. The end of a session by ECONNRESET is one step: the code announces WAIT
  before it clears `registered` and sets the target (`q330io.c:725-727`), so
  that what the client asks for during that notice is overwritten, as in the model
  what it asks for just before; Python's callback asks for nothing. PING, CONN and
  ANNC, other links and dynamic addresses are in `Requests`, `Sockets` and `Poc` instead.
* `Slider`: the freeze timer. `Sockets`: RUN stands for the states from READCFG to RUN, TERM is asked for in
  IDLE only. `Poc`: minutes of two seconds; repetition and loss are bounded.
  `Requests`: without the ring and its numbers, which are in `Commands`; the
  steps of the timer in any order. `Status`: eight kinds, without their age.
* `Serial`: the checksum is ideal, and the other end is one like this one.
  `Base96`: a sum for the CRC. `Cksum`: words of few bits.
* `Derived`: rates, moduli and lengths of filters are scaled; a sample is known
  by the newest source sample it was made of. `EventRing`: channels with event
  output only (others never set `gen_last_on`).
* `Murdock`: the values are classes relative to the thresholds, whose
  adaptation (`P_two`, `Xth`) is left out; `fillo <= iwin` is assumed.
* `Opaque`: sizes are real, contents abstract. `Archive`: units for bytes.
* `OpStats`: days of two hours of two minutes. It shows two facts that are in no
  property: `process_status` copies the minutes while they move on, and
  AD_DAY counts the tail of the hour before twice.
* `ThreadContinuity`: a channel is its name, statistic and count; the part of
  the file that does not change is left out.
* `Tokens`: names, rates and averages are left out; lists of up to seven
  tokens; C1_SLOG in order, losses bounded.
* `EpDelays`: `EP_UPDATE_TIME` 2 for 120, `EP_MAXCHAN` 2 for 128; the EP, which
  is outside, reports the channels whose mask has the port.
* `DssMemory`: `getbuf` hands out memory that has not been used, as long as
  there is some. `Dss`: what comes of using returned memory; blocks are counted, and
  an empty memory refuses a request at any time. `NetServ`: records are sent as a whole or in part; descriptors
  are not used again; which entry of the white list matched is left out.
* `Shim`: two fields stand for the record; the interpreter's lock is external.
* `EarthquakeDataClient`: its loop is in another repository.

## Plan

Written: everything above. Next, in this order:

1. `DssMemory`: that the blocks of the subserver are disjoint, for any memory.
2. `Continuity`, which uses no RECURSIVE operator: what is restored, for any number
   of channels, from a module of its own.
3. `Session`: an abstract specification of a station (parked, registering,
   running, leaving), with `StationThread` shown to implement it from `OrderInv`.
4. `Connector` with a cancelled `disconnect`, composed with `Shim` and
   `Telemetry`.
