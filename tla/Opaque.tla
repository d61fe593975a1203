-------------------------------- MODULE Opaque --------------------------------
(***************************************************************************)
(* Blockettes of configurations and of serial (CNP) data, gathered in      *)
(* records (libopaque.c): each starts on a long word and holds the place   *)
(* of the next one, a record is sent when the next blockette does not fit, *)
(* when nothing has been added for a while, or when all is flushed.  Only  *)
(* the sizes of configurations and messages are given.                     *)
(***************************************************************************)
EXTENDS Integers, SequencesExt

CONSTANTS
  Sizes,                \* sizes of the configurations the Q330 sends, in bytes
  cfgsize,              \* of the tokens, which are cut into pieces
  Messages,             \* serial messages: each a sequence of sizes, one per part
  CFG_TIMEOUT,          \* 120 seconds
  MaxAdded              \* bound: blockettes of a kind

LIB_REC_SIZE == 512
NONDATA_AREA == LIB_REC_SIZE - 56
OPAQUE_HDR_SIZE == 20
maxsz == NONDATA_AREA - OPAQUE_HDR_SIZE

OpaqueAssumption ==
  /\ Sizes \subseteq 1 .. maxsz /\ cfgsize \in Nat /\ CFG_TIMEOUT \in Nat \ {0} /\ MaxAdded \in Nat
  /\ \A m \in Messages : \A i \in DOMAIN m : m[i] \in 1 .. maxsz

VARIABLES
  ring,                 \* the record of each kind that is being filled
  cfg_timer,
  rest, last_sample,    \* parts of the message still to come; their number
  sent,                 \* records sent, of each kind
  added                 \* ghost: what was added, of each kind

vars == <<ring, cfg_timer, rest, last_sample, sent, added>>

Kinds == {"cfg", "cnp"}

NewRecord == [blockettes |-> << >>, blockette_index |-> 56, last_blockette |-> 48, links |-> << >>]

Init ==
  /\ ring = [k \in Kinds |-> NewRecord] /\ cfg_timer = 0 /\ rest = << >> /\ last_sample = 0
  /\ sent = [k \in Kinds |-> << >>] /\ added = [k \in Kinds |-> << >>]

-----------------------------------------------------------------------------
(* A record and the ones sent so far, as the functions pass them on.       *)

State(r, s) == [r |-> r, s |-> s]

\* fault: a record of one blockette is cleared without being sent
Flushed_fault(st) ==
  IF Len(st.r.blockettes) > 1
  THEN State(NewRecord, Append(st.s, [following |-> Len(st.r.blockettes) + 1, r |-> st.r]))
  ELSE State(NewRecord, st.s)

\* flush_cfgblks, flush_cnp: number_of_following_blockettes counts the one in front, too
Flushed(st) ==
  IF st.r.blockette_index > 56
  THEN State(NewRecord, Append(st.s, [following |-> Len(st.r.blockettes) + 1, r |-> st.r]))
  ELSE State(NewRecord, st.s)

Aligned(n) == ((n + 3) \div 4) * 4

Required(size) == Aligned(OPAQUE_HDR_SIZE + size)

\* The place of the blockette is stored in the one before it.
Linked(r) ==
  IF r.blockette_index = 56 THEN r.links
  ELSE Append(r.links, <<r.last_blockette, r.blockette_index>>)

Full(r, size) == r.blockette_index + Required(size) > LIB_REC_SIZE

Put(r, size, lth, what) ==
  [blockettes |-> Append(r.blockettes, [at |-> r.blockette_index, lth |-> lth, what |-> what]),
   last_blockette |-> r.blockette_index, links |-> Linked(r),
   blockette_index |-> r.blockette_index + Required(size)]

\* the record type of a configuration has two characters, that of data five
Added(st, size, shorter, what, fresh) ==
  LET on == IF Full(st.r, size) \/ fresh THEN Flushed(st) ELSE st
  IN  State(Put(on.r, size, OPAQUE_HDR_SIZE + size - shorter, what), on.s)

Now(k) == State(ring[k], sent[k])
Becomes(k, st) == ring' = [ring EXCEPT ![k] = st.r] /\ sent' = [sent EXCEPT ![k] = st.s]

-----------------------------------------------------------------------------
(* Configurations.                                                         *)

\* fault: the timer is not started
Start_fault == UNCHANGED cfg_timer

Start == cfg_timer' = CFG_TIMEOUT

\* SP_CFGBLK
add_cfg(size) ==
  /\ Len(added["cfg"]) < MaxAdded /\ Start
  /\ LET what == [no |-> 0, flag |-> 0]
     IN  /\ Becomes("cfg", Added(Now("cfg"), size, 2, what, FALSE))
         /\ added' = [added EXCEPT !["cfg"] = Append(@, what)]
  /\ UNCHANGED <<rest, last_sample>>

Pieces == (cfgsize + maxsz - 1) \div maxsz

Least(a, b) == IF a < b THEN a ELSE b

\* piece n of the tokens, counted from 0
Piece(n) ==
  [size |-> Least(maxsz, cfgsize - n * maxsz),
   what |-> [no |-> n,
             flag |-> 1 + IF Pieces = 1 THEN 0 ELSE IF n = 0 THEN 4 ELSE IF n = Pieces - 1 THEN 8 ELSE 12]]

WithPiece(st, p) == Added(st, p.size, 2, p.what, FALSE)

\* the three binary configurations, then the tokens
start_cfgblks(size) ==
  /\ Len(added["cfg"]) + Pieces + 3 <= MaxAdded /\ Start
  /\ LET plain  == [no |-> 0, flag |-> 0]
         three  == FoldLeft(LAMBDA st, i : Added(st, size, 2, plain, FALSE), Now("cfg"), <<1, 2, 3>>)
         pieces == [i \in 1 .. Pieces |-> Piece(i - 1)]
     IN  /\ Becomes("cfg", FoldLeft(WithPiece, three, pieces))
         /\ added' = [added EXCEPT !["cfg"] = @ \o <<plain, plain, plain>> \o [i \in 1 .. Pieces |-> pieces[i].what]]
  /\ UNCHANGED <<rest, last_sample>>

\* lib_timer
Second ==
  /\ cfg_timer > 0 /\ cfg_timer' = cfg_timer - 1
  /\ IF cfg_timer' = 0 THEN Becomes("cfg", Flushed(Now("cfg"))) ELSE UNCHANGED <<ring, sent>>
  /\ UNCHANGED <<rest, last_sample, added>>

\* flush_lcqs
flush_lcqs ==
  /\ \E k \in Kinds : ring[k].blockettes # << >>
  /\ ring' = [k \in Kinds |-> Flushed(Now(k)).r] /\ sent' = [k \in Kinds |-> Flushed(Now(k)).s]
  /\ cfg_timer' = 0 /\ UNCHANGED <<rest, last_sample, added>>

-----------------------------------------------------------------------------
(* Serial data: messages of one part, or streams of several.               *)

StreamNumber(first) == IF first THEN 0 ELSE last_sample

\* One part arrives; keep is the flag that the record is to have its time.
process_cnp(parts, stream, first, keep) ==
  LET lastOne == Len(parts) = 1
      flag == IF ~stream THEN 0 ELSE 1 + IF first THEN 4 ELSE IF lastOne THEN 8 ELSE 12
      no   == StreamNumber(~stream \/ first)
      what == [no |-> IF stream THEN no ELSE 0, flag |-> flag]
  IN  /\ Len(added["cnp"]) < MaxAdded
      /\ last_sample' = IF stream /\ ~first /\ lastOne THEN 0 ELSE no + 1
      /\ rest' = Tail(parts)
      /\ Becomes("cnp", Added(Now("cnp"), Head(parts), 0, what, keep))
      /\ added' = [added EXCEPT !["cnp"] = Append(@, what)]
      /\ UNCHANGED cfg_timer

CnpData ==
  \E keep \in BOOLEAN :
    \/ rest # << >> /\ process_cnp(rest, TRUE, FALSE, keep)
    \/ rest = << >> /\ \E m \in Messages : process_cnp(m, Len(m) > 1, TRUE, keep)

Next ==
  \/ \E size \in Sizes : add_cfg(size) \/ start_cfgblks(size)
  \/ Second \/ flush_lcqs \/ CnpData

\* lib_timer comes every second.
Spec == Init /\ [][Next]_vars /\ WF_vars(Second)

-----------------------------------------------------------------------------
Whats(blockettes) == [i \in DOMAIN blockettes |-> blockettes[i].what]

\* Whoever follows the links of a record from the first blockette comes to
\* all of them, each complete, one behind the other and within the record
\* (add_cfg, process_cnp).
RecordsAreChained ==
  \A k \in Kinds : \A n \in DOMAIN sent[k] :
    LET b == sent[k][n].r.blockettes
        links == sent[k][n].r.links
    IN  /\ sent[k][n].following = Len(b) + 1 /\ b # << >> /\ b[1].at = 56
        /\ Len(links) = Len(b) - 1
        /\ \A i \in 2 .. Len(b) : links[i - 1] = <<b[i - 1].at, b[i].at>>
        /\ \A i \in DOMAIN b :
             /\ b[i].at % 4 = 0
             /\ b[i].at + b[i].lth <= IF i < Len(b) THEN b[i + 1].at ELSE LIB_REC_SIZE

\* Nothing that was added is lost, doubled or out of order, however full the
\* records are and whoever flushes them (flush_cfgblks, flush_cnp).
AllIsThere ==
  \A k \in Kinds :
    added[k] = FlattenSeq([n \in DOMAIN sent[k] |-> Whats(sent[k][n].r.blockettes)]) \o Whats(ring[k].blockettes)

\* Streams are numbered from 0 without gaps, from their first to their last
\* part, across records (start_cfgblks, process_cnp).
StreamsAreNumbered ==
  \A k \in Kinds : \A i \in DOMAIN added[k] :
    LET a == added[k][i]
    IN  /\ a.flag \in {0, 1, 5} => a.no = 0
        /\ a.flag \in {9, 13} => i > 1 /\ added[k][i - 1].flag \in {5, 13} /\ a.no = added[k][i - 1].no + 1

\* A configuration does not stay in a record for ever (lib_timer).
ConfigIsSent == (ring["cfg"].blockettes # << >>) ~> (ring["cfg"].blockettes = << >>)
=============================================================================
