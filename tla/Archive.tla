------------------------------- MODULE Archive -------------------------------
(***************************************************************************)
(* The archival records of one channel (libarchive.c): records of 512      *)
(* bytes are collected into larger ones, and handed to the client when one *)
(* is complete or, for slow channels, each time it grows.  Records of data *)
(* carry blockettes before their frames; those of messages, of timing and  *)
(* of opaque blockettes have rules of their own.  After a restart the last *)
(* record is asked back from the client and extended.                      *)
(* A record is a sequence of units (frames, characters or blockettes with  *)
(* their further words), numbered as in the record from 1.                 *)
(***************************************************************************)
EXTENDS Integers, Sequences, SequencesExt, FiniteSets

CONSTANTS
  SIZE,                 \* units of an archival record without its header
  GAP,                  \* gap_secs
  MESSAGES, HOUR,       \* seconds that share a record of messages, of timing
  TIMING_SIZE,          \* units of a timing blockette
  Sizes, BlocketteCounts, Counts, \* of what arrives: units, blockettes, samples
  Delays,               \* deviations of a time from the expected one
  OnlyBlockettes,       \* whether records of blockettes alone arrive
  MaxRecords, MaxStarts \* bounds

PKC_DATA == "data"   PKC_MESSAGE == "message"   PKC_TIMING == "timing"
PKC_OPAQUE == "opaque"

ArchiveAssumption ==
  /\ {SIZE, GAP, MESSAGES, HOUR, TIMING_SIZE} \subseteq Nat \ {0} /\ TIMING_SIZE <= SIZE
  /\ Sizes \subseteq 1 .. SIZE /\ BlocketteCounts \subseteq Nat /\ Counts \subseteq Nat \ {0} /\ Delays \subseteq Nat
  /\ OnlyBlockettes \in BOOLEAN /\ MaxRecords \in Nat /\ MaxStarts \in Nat

VARIABLES
  pack_class, incremental, cnpp,   \* of the channel
  existing_record, appended,
  pcfr,                 \* the units of the record that is collected
  hdr,                  \* its header
  stored,               \* the records the client holds
  taken,                \* the records of 512 bytes that came, to be found in them
  starts

arc == <<existing_record, appended, pcfr, hdr, stored>>
vars == <<pack_class, incremental, cnpp, arc, taken, starts>>

NoHeader == [start |-> 0, samples |-> 0, qual |-> 0, blockettes |-> 0, frames |-> 0,
             first_data |-> 0]

Init ==
  /\ pack_class \in {PKC_DATA, PKC_MESSAGE, PKC_TIMING, PKC_OPAQUE}
  /\ incremental \in (IF pack_class = PKC_DATA THEN BOOLEAN ELSE {FALSE})
  /\ cnpp \in (IF pack_class = PKC_OPAQUE THEN BOOLEAN ELSE {FALSE})
  /\ existing_record = FALSE /\ appended = FALSE /\ pcfr = << >> /\ hdr = NoHeader
  /\ stored = << >> /\ taken = << >> /\ starts = 1

-----------------------------------------------------------------------------
(* What flush_archive leaves of the archive a.  A record the client does   *)
(* not have yet is a new one for it, another one replaces its last.        *)

Cleared(a) == [a EXCEPT !.existing_record = FALSE, !.appended = FALSE, !.pcfr = << >>,
                        !.hdr = NoHeader]

InClient(a) ==
  LET rec == [hdr |-> a.hdr, pcfr |-> a.pcfr]
  IN IF a.existing_record THEN ReplaceAt(a.stored, Len(a.stored), rec)
                          ELSE Append(a.stored, rec)

flush_archive(a, leave_in_buffer) ==
  IF a.pcfr = << >> \/ (a.existing_record /\ ~a.appended) THEN Cleared(a)
  ELSE LET b == [a EXCEPT !.stored = InClient(a)]
       IN IF leave_in_buffer THEN [b EXCEPT !.existing_record = TRUE, !.appended = FALSE]
                             ELSE Cleared(b)

-----------------------------------------------------------------------------
(* A record of 512 bytes: its units, with the link of a blockette to the   *)
(* next one, and its header.                                               *)

Blockettes(s) == {i \in DOMAIN s : s[i].kind = "blockette"}
Frames(s) == {i \in DOMAIN s : s[i].kind = "data"}

\* the blockettes of s linked one after the other
Linked(s) ==
  [i \in DOMAIN s |->
     LET later == {j \in Blockettes(s) : j > i}
     IN IF s[i].kind = "blockette" /\ later # {}
        THEN [s[i] EXCEPT !.link = CHOOSE j \in later : \A k \in later : j <= k]
        ELSE s[i]]

Unit(kind) == [id |-> Len(taken) + 1, kind |-> kind, link |-> 0]
Units(n, kind) == [i \in 1 .. n |-> Unit(kind)]

\* fault: the room of the record is not looked at
Fits_fault(s, a) == Len(s) <= SIZE

Fits(s, a) == Len(s) + Len(a.pcfr) <= SIZE

NewRecord(a, s, h) == [a EXCEPT !.existing_record = FALSE, !.appended = TRUE,
                                !.pcfr = s, !.hdr = h]

\* how the header changes when the time tag of h is better
BestTime(old, h) ==
  IF h.qual > old.qual THEN [old EXCEPT !.start = h.start - old.samples, !.qual = h.qual]
                       ELSE old

\* fault: only the links of the new blockettes are written
Inserted_fault(p, s, old, h) ==
  LET at == old.blockettes
  IN SubSeq(p, 1, at) \o SubSeq(s, 1, h.blockettes) \o SubSeq(p, at + 1, Len(p))
     \o SubSeq(s, h.blockettes + 1, Len(s))

\* the new blockettes go before the data; a link that the loop over all
\* blockettes writes is that of the unit before
Inserted(p, s, old, h) ==
  LET at == old.blockettes
      body == SubSeq(p, 1, at) \o SubSeq(s, 1, h.blockettes)
              \o SubSeq(p, at + 1, Len(p)) \o SubSeq(s, h.blockettes + 1, Len(s))
  IN [i \in DOMAIN body |->
        IF h.blockettes > 0 /\ i < at + h.blockettes THEN [body[i] EXCEPT !.link = i + 1]
                                                     ELSE body[i]]

FirstData(p, old, h) ==
  IF Len(p) > old.blockettes THEN old.first_data + h.blockettes ELSE old.first_data

Extended(a, s, h) ==
  LET best == BestTime(a.hdr, h)
  IN [a EXCEPT !.appended = TRUE, !.pcfr = Inserted(a.pcfr, s, a.hdr, h),
               !.hdr = [best EXCEPT !.samples = @ + h.samples,
                                    !.blockettes = @ + h.blockettes,
                                    !.frames = @ + h.frames,
                                    !.first_data = FirstData(a.pcfr, a.hdr, h)]]

abs(x) == IF x < 0 THEN -x ELSE x

Updated(c) == IF incremental THEN flush_archive(c, TRUE) ELSE c

Data(a, s, h) ==
  LET late == abs(h.start - (a.hdr.start + a.hdr.samples))
      b == IF a.pcfr # << >> /\ (~Fits(s, a) \/ late > GAP) THEN flush_archive(a, FALSE) ELSE a
      c == IF b.pcfr = << >> THEN NewRecord(b, s, h) ELSE Extended(b, s, h)
  IN IF b.pcfr # << >> /\ Len(c.pcfr) = SIZE THEN flush_archive(c, FALSE)
     ELSE Updated(c)

Message(a, s, h) ==
  LET b == IF ~Fits(s, a) \/ h.start > a.hdr.start + MESSAGES THEN flush_archive(a, FALSE) ELSE a
  IN IF b.pcfr = << >> THEN NewRecord(b, s, h)
     ELSE [b EXCEPT !.appended = TRUE, !.pcfr = @ \o s, !.hdr.samples = @ + h.samples]

\* the two classes of blockettes, and with LinkEnd the unit whose link is extended
InHour(a, h) == a.pcfr = << >> \/ h.start \div HOUR = a.hdr.start \div HOUR

Shifted(s, n) ==
  [i \in DOMAIN s |-> IF s[i].link = 0 THEN s[i] ELSE [s[i] EXCEPT !.link = @ + n]]

Chained(a, s, h, LinkEnd(_)) ==
  LET b == IF ~Fits(s, a) \/ cnpp \/ ~InHour(a, h) THEN flush_archive(a, FALSE) ELSE a
      n == Len(b.pcfr)
  IN IF n = 0 THEN NewRecord(b, s, h)
     ELSE [b EXCEPT !.appended = TRUE, !.hdr.blockettes = @ + h.blockettes,
                    !.pcfr = [b.pcfr EXCEPT ![LinkEnd(b.pcfr)].link = n + 1] \o Shifted(s, n)]

\* the walk along the links
ChainEnd(p) ==
  LET end[i \in DOMAIN p] == IF p[i].link = 0 THEN i ELSE end[p[i].link] IN end[1]

Timing(a, s, h) == Chained(a, s, h, LAMBDA p : Len(p) - TIMING_SIZE + 1)
Opaque(a, s, h) == Chained(a, s, h, ChainEnd)

archive_512_record(a, s, h) ==
  CASE pack_class = PKC_DATA -> Data(a, s, h)
    [] pack_class = PKC_MESSAGE -> Message(a, s, h)
    [] pack_class = PKC_TIMING -> Timing(a, s, h)
    [] pack_class = PKC_OPAQUE -> Opaque(a, s, h)

-----------------------------------------------------------------------------
Now == [existing_record |-> existing_record, appended |-> appended, pcfr |-> pcfr,
        hdr |-> hdr, stored |-> stored]

Becomes(a) ==
  /\ existing_record' = a.existing_record /\ appended' = a.appended
  /\ pcfr' = a.pcfr /\ hdr' = a.hdr /\ stored' = a.stored

\* the units a record of the class may have
Shapes ==
  LET data == {Linked(Units(b, "blockette") \o Units(f, "data")) : b \in BlocketteCounts,
                 f \in Sizes \cup (IF OnlyBlockettes THEN {0} ELSE {})}
      opaque == {Linked(Units(1, "blockette") \o Units(m - 1, "more")
                        \o Units(b, "blockette")) : m \in Sizes, b \in {0, 1}}
  IN CASE pack_class = PKC_DATA -> {s \in data : s # << >> /\ Len(s) <= SIZE}
       [] pack_class = PKC_MESSAGE -> {Units(n, "data") : n \in Sizes}
       [] pack_class = PKC_TIMING -> {<<Unit("blockette")>> \o Units(TIMING_SIZE - 1, "more")}
       [] pack_class = PKC_OPAQUE -> {s \in opaque : Len(s) <= SIZE}

\* the channel sends one, some time after the one before
Take ==
  /\ Len(taken) < MaxRecords
  /\ \E s \in Shapes, n \in Counts, q \in {1, 2}, d \in Delays :
       LET before == Last(<<[start |-> HOUR, samples |-> 0]>> \o taken)
           h == [start |-> before.start + before.samples + d,
                 samples |-> IF pack_class = PKC_DATA THEN (IF Frames(s) = {} THEN 0 ELSE n) ELSE Len(s),
                 qual |-> IF pack_class = PKC_DATA THEN q ELSE 1,
                 blockettes |-> Cardinality(Blockettes(s)), frames |-> Cardinality(Frames(s)),
                 first_data |-> Cardinality(Blockettes(s)) + 1]
       IN /\ Becomes(archive_512_record(Now, s, h))
          /\ taken' = Append(taken, [start |-> h.start, samples |-> h.samples,
                                     qual |-> h.qual, units |-> Len(s)])
  /\ UNCHANGED <<pack_class, incremental, cnpp, starts>>

\* the channel is flushed: end of an event, of a session, a timeout, a gap
Flush ==
  /\ pcfr # << >> /\ Becomes(flush_archive(Now, FALSE))
  /\ UNCHANGED <<pack_class, incremental, cnpp, taken, starts>>

\* the program ends after a flush, or without one, and starts again; the
\* client may give back its last record, and continuity may be good
preload_archive(good) ==
  LET rec == Last(stored)
  IN IF good /\ pack_class = PKC_DATA /\ stored # << >> /\ Len(rec.pcfr) < SIZE
     THEN /\ existing_record' = TRUE /\ pcfr' = rec.pcfr /\ hdr' = rec.hdr
     ELSE /\ existing_record' = FALSE /\ pcfr' = << >> /\ hdr' = NoHeader

Ids(p) == {p[i].id : i \in DOMAIN p}
Kept == UNION {Ids(stored[i].pcfr) : i \in DOMAIN stored}

Restart ==
  /\ starts < MaxStarts /\ starts' = starts + 1
  /\ \E good \in BOOLEAN : preload_archive(good)
  /\ appended' = FALSE
  /\ taken' = [i \in DOMAIN taken |-> IF i \in Kept THEN taken[i] ELSE [taken[i] EXCEPT !.units = 0]]
  /\ UNCHANGED <<pack_class, incremental, cnpp, stored>>

Next == Take \/ Flush \/ Restart

Spec == Init /\ [][Next]_vars

-----------------------------------------------------------------------------
\* The record in the buffer and those of the client have room for their
\* units, and the header counts them.
ArchiveTypeOK ==
  \A r \in {[hdr |-> hdr, pcfr |-> pcfr]} \cup Range(stored) :
    /\ Len(r.pcfr) <= SIZE
    /\ (pack_class = PKC_DATA => r.hdr.frames = Cardinality(Frames(r.pcfr)))
    /\ r.hdr.blockettes = Cardinality(Blockettes(r.pcfr))

\* Every unit of every record that was taken is in the archive exactly once
\* and in order: in a record of the client, or in the one that is collected
\* and that the client does not have yet.  What a restart lost is what the
\* client had not been given (flush_archive, preload_archive).
InArchive(kind) ==
  LET recs == IF existing_record THEN Front(stored) ELSE stored
      all == FlattenSeq([i \in DOMAIN recs |-> recs[i].pcfr]) \o pcfr
  IN SelectSeq(all, LAMBDA u : (u.kind = "blockette") = (kind = "blockette"))
KeptOnceInOrder ==
  /\ \A kind \in {"blockette", "other"} :
       LET s == InArchive(kind) IN \A i, j \in DOMAIN s : i < j => s[i].id <= s[j].id
  /\ \A i \in DOMAIN taken :
       LET held == InArchive("blockette") \o InArchive("other")
       IN Cardinality({j \in DOMAIN held : held[j].id = i}) = taken[i].units

\* The client of a slow channel holds everything that was taken, at all times.
ClientIsCurrent ==
  incremental => /\ ~appended
                 /\ \A i \in DOMAIN taken : taken[i].units > 0 => i \in Kept

\* From the first blockette of a record the links lead through all of them.
LinksReachAll ==
  \A r \in {[hdr |-> hdr, pcfr |-> pcfr]} \cup Range(stored) :
    LET b == Blockettes(r.pcfr)
    IN \A i \in b :
         /\ (r.pcfr[i].link = 0) <=> (\A j \in b : j <= i)
         /\ r.pcfr[i].link # 0 => /\ r.pcfr[i].link \in b /\ r.pcfr[i].link > i
                                  /\ ~ \E j \in b : j > i /\ j < r.pcfr[i].link

\* A record of data is dated from the first of its parts with the best time
\* tag, its parts follow each other without a gap, and the data begins where
\* the header says (archive_512_record, PKC_DATA).
Members(p) == SetToSortSeq(Ids(p), <)
DatedFromBest ==
  pack_class = PKC_DATA =>
    \A r \in {[hdr |-> hdr, pcfr |-> pcfr]} \cup Range(stored) :
      LET m == Members(r.pcfr)
          before[k \in DOMAIN m] == IF k = 1 THEN 0 ELSE before[k - 1] + taken[m[k - 1]].samples
      IN r.pcfr # << >> =>
           \E k \in DOMAIN m :
             /\ \A l \in DOMAIN m : taken[m[l]].qual <= taken[m[k]].qual
             /\ \A l \in 1 .. k - 1 : taken[m[l]].qual < taken[m[k]].qual
             /\ r.hdr.start = taken[m[k]].start - before[k]

\* Records of timing and of opaque blockettes do not go over an hour.
WithinHour ==
  pack_class \in {PKC_TIMING, PKC_OPAQUE} =>
    \A r \in {[hdr |-> hdr, pcfr |-> pcfr]} \cup Range(stored) :
      \A i \in Ids(r.pcfr) : taken[i].start \div HOUR = r.hdr.start \div HOUR

\* The header of a record of data says where its frames begin, behind all the
\* blockettes ("need to insert one or more blockettes before data").
FirstDataIsData ==
  pack_class = PKC_DATA =>
    \A r \in {[hdr |-> hdr, pcfr |-> pcfr]} \cup Range(stored) :
      Frames(r.pcfr) # {} => /\ r.hdr.first_data \in Frames(r.pcfr)
                             /\ \A i \in Frames(r.pcfr) : r.hdr.first_data <= i
=============================================================================
