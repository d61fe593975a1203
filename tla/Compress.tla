------------------------------- MODULE Compress -------------------------------
(***************************************************************************)
(* The Steim level 2 compressor of lib330 (libcompress.c) as the sample    *)
(* path (libsample.c) drives it.  Samples wait in a ring of peeks; as soon *)
(* as seven wait, or when the channel is flushed, compress_block packs the *)
(* differences of the next few into one 32-bit word.  Seven formats trade  *)
(* the number of differences in a word for their width, and the search for *)
(* a format starts where the previous one ended.                           *)
(*                                                                         *)
(* A word is its block code, its subcode and its fields; a field has the   *)
(* width of the format, so it is kept modulo 2^shift.  Frames and records  *)
(* are in Record; here a new record may begin before any word.             *)
(***************************************************************************)
EXTENDS Integers, Sequences, SequencesExt

CONSTANTS
  Samples,              \* the sample values that occur
  PEEKELEMS,            \* 16 cells in the ring
  MaxSamples            \* bound: samples fed to the channel

MAXSAMPPERWORD == 7

CompressAssumption ==
  Samples \subseteq Int /\ PEEKELEMS \in Nat /\ PEEKELEMS >= MAXSAMPPERWORD

\* the formats, the densest first: differences in a word, block code, subcode
\* bits as they are written, width and largest magnitude of a difference
compseq ==
  LET E(n, b, c, w, d) == [scan |-> n, bc |-> b, cbits |-> c, shift |-> w, disc |-> d]
  IN [x \in 0..6 |-> <<E(7, 3, 8, 4, 7), E(6, 3, 1, 5, 15), E(5, 3, 0, 6, 31),
                       E(4, 1, 0, 8, 127), E(3, 2, 3, 10, 511),
                       E(2, 2, 2, 15, 16383), E(1, 2, 1, 30, 2^29 - 1)>>[x + 1]]

\* how many fields a reader takes from a word, and their width
decomptab ==
  [c \in 0..6 |-> <<<<4, 8>>, <<1, 30>>, <<2, 15>>, <<3, 10>>,
                    <<5, 6>>, <<6, 5>>, <<7, 4>>>>[c + 1]]

VARIABLES
  peeks, next_in, next_out, peek_total,
  ctabx,                \* the format of the previous word
  last_sample,          \* the last sample packed
  loops                 \* blocks compressed by the flush under way; 0: no flush

history == <<peeks, next_in, next_out, peek_total, ctabx, last_sample>>

VARIABLES
  window,               \* the samples fed and not yet packed
  packed,               \* the last sample packed, as the reader should see it
  word,                 \* the last word and what it was made of
  fed                   \* how many samples have been fed

vars == <<history, loops, window, packed, word, fed>>

-----------------------------------------------------------------------------
Abs(d) == IF d < 0 THEN -d ELSE d

(* The cells from next_out on, of which peek_total hold samples, and the   *)
(* differences of the first n, the first one to the last sample packed.    *)
Waiting == [i \in 1..MAXSAMPPERWORD |-> peeks'[(next_out + i - 1) % PEEKELEMS]]

Diffs(w, prev, n) == [i \in 1..n |-> w[i] - (IF i = 1 THEN prev ELSE w[i - 1])]

FitsIn(w, prev, x) ==
  \A i \in 1..compseq[x].scan :
    Abs(Diffs(w, prev, compseq[x].scan)[i]) <= compseq[x].disc

ctablo(total) == IF total < MAXSAMPPERWORD THEN MAXSAMPPERWORD - total ELSE 0

(* The search of compress_block, from format ctabw on and never denser     *)
(* than ctablo: towards wider fields until one fits; if the first one fits *)
(* already, towards denser ones until one does not.                        *)
Search(w, prev, ctabw, lo) ==
  LET from[x \in 0..6, fit \in -1..6] ==
        IF ~FitsIn(w, prev, x)
        THEN IF fit >= 0 THEN fit ELSE IF x >= 6 THEN x ELSE from[x + 1, -1]
        ELSE IF x > ctabw \/ x <= lo THEN x ELSE from[x - 1, x]
  IN from[ctabw, -1]

Pack(d, x) ==
  LET e == compseq[x] IN
  [bc |-> e.bc,
   sub |-> IF e.bc = 1 THEN 0 ELSE e.cbits \div 2^(30 - e.scan * e.shift),
   fields |-> [i \in 1..e.scan |-> d[i] % 2^e.shift]]

(* What decompress_blockette makes of a word: the differences in it, or    *)
(* nothing when the subcode is not a valid one.                            *)
subcode(blk) == CASE blk.bc = 2 -> blk.sub [] blk.bc = 3 -> 4 + blk.sub [] OTHER -> 0

Unpack(blk) ==
  IF subcode(blk) > 6 THEN << >>
  ELSE LET width == decomptab[subcode(blk)][2] IN
       [k \in 1..decomptab[subcode(blk)][1] |->
          LET work == blk.fields[k]
          IN IF work >= 2^(width - 1) THEN work - 2^width ELSE work]

(* compress_block on the ring that holds total samples; newrec: the word   *)
(* is the first of a record                                                *)
compress_block(total, newrec) ==
  LET w == Waiting
      lo == ctablo(total)
      begin == IF newrec THEN 0 ELSE ctabx
      x == Search(w, last_sample, IF begin < lo THEN lo ELSE begin, lo)
      scan == compseq[x].scan
  IN /\ ctabx' = x
     /\ peek_total' = total - scan
     /\ next_out' = (next_out + scan) % PEEKELEMS
     /\ last_sample' = w[scan]
     /\ word' = [x |-> x, prev |-> packed, window |-> window',
                 blk |-> Pack(Diffs(w, last_sample, scan), x)]
     /\ packed' = IF scan <= Len(window') THEN window'[scan] ELSE w[scan]

-----------------------------------------------------------------------------
Init ==
  /\ peeks = [i \in 0..(PEEKELEMS - 1) |-> 0]
  /\ next_in = 0 /\ next_out = 0 /\ peek_total = 0
  /\ ctabx = 0 /\ last_sample = 0 /\ loops = 0
  /\ window = << >> /\ packed = 0 /\ fed = 0
  /\ word = [x |-> 6, prev |-> 0, window |-> <<0>>, blk |-> Pack(<<0>>, 6)]

(* process_lcq with one sample that is not compressed yet.  The window     *)
(* keeps the packed samples until the next step drops them.                *)
Unpacked == SubSeq(window, Len(window) - peek_total + 1, Len(window))

Sample(s, newrec) ==
  /\ loops = 0 /\ fed < MaxSamples
  /\ fed' = fed + 1
  /\ peeks' = [peeks EXCEPT ![next_in] = s]
  /\ next_in' = (next_in + 1) % PEEKELEMS
  /\ window' = Append(Unpacked, s)
  /\ IF peek_total + 1 < MAXSAMPPERWORD
     THEN /\ peek_total' = peek_total + 1
          /\ UNCHANGED <<next_out, ctabx, last_sample, packed, word>>
     ELSE compress_block(peek_total + 1, newrec)
  /\ UNCHANGED loops

(* One turn of the loop of flush_lcq; the thread does nothing else until   *)
(* the ring is empty or the loop gives up.                                 *)
FlushBlock(newrec) ==
  /\ peek_total > 0
  /\ window' = Unpacked
  /\ UNCHANGED <<peeks, next_in, fed>>
  /\ compress_block(peek_total, newrec)
  /\ loops' = IF peek_total' <= 0 \/ loops + 1 > 20 THEN 0 ELSE loops + 1

Next == \E newrec \in BOOLEAN :
          \/ \E s \in Samples : Sample(s, newrec)
          \/ FlushBlock(newrec)

Spec == Init /\ [][Next]_vars

-----------------------------------------------------------------------------
\* The ring indices stay in range and a flush never nears its limit of 20
\* turns: every turn takes at least one of the at most six samples waiting.
CompressTypeOK ==
  /\ peeks \in [0..(PEEKELEMS - 1) -> Samples \cup {0}]
  /\ next_in \in 0..(PEEKELEMS - 1) /\ next_out \in 0..(PEEKELEMS - 1)
  /\ peek_total \in 0..(MAXSAMPPERWORD - 1) /\ ctabx \in 0..6
  /\ loops \in 0..5

\* No sample is lost, repeated or read after it was overwritten: the cells
\* from next_out on hold the samples fed and not yet packed, in order, and the
\* compressor takes differences from the sample packed last.
RingHoldsTheWaiting ==
  /\ \A i \in 1..peek_total :
       peeks[(next_out + i - 1) % PEEKELEMS] = Unpacked[i]
  /\ next_in = (next_out + peek_total) % PEEKELEMS
  /\ last_sample = packed

\* What a reader unpacks from a word, added up from the sample before it, are
\* the samples the word stands for, whenever they fit in any word at all: the
\* tables of the two directions agree and the signs survive.
WordsAreLossless ==
  LET scan == compseq[word.x].scan
      d == Unpack(word.blk)
  IN FitsIn(word.window, word.prev, word.x) =>
       /\ Len(d) = scan
       /\ \A i \in 1..scan :
            d[i] = word.window[i] - (IF i = 1 THEN word.prev ELSE word.window[i - 1])

\* Wherever the search starts, it ends at the densest format that holds the
\* samples waiting; only when none does is the widest one used anyway.
DensestFormat ==
  LET total == Len(word.window)
      fitting == {x \in (MAXSAMPPERWORD - total)..6 : FitsIn(word.window, word.prev, x)}
  IN IF fitting = {} THEN word.x = 6
     ELSE word.x \in fitting /\ \A x \in fitting : word.x <= x
=============================================================================
