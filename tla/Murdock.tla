------------------------------- MODULE Murdock -------------------------------
(***************************************************************************)
(* The Murdock-Hutt event detector (libdetect.c): of a channel it looks at *)
(* the differences between peaks and troughs (P-T values).  One over a     *)
(* threshold makes an event possible; the values since then are kept in a  *)
(* ring, and an event is declared when enough of them in a window are over *)
(* the threshold.  Eight values later the onset is worked out from the     *)
(* values around the first.                                                *)
(*                                                                         *)
(* A value is its class, 0 below th2, 1 from th2 and 2 from th1, which     *)
(* stands for the thresholds and how they follow the noise (P_two, Xth);   *)
(* th3 lies between classes 0 and 1.  The samples between two values only  *)
(* count.  Every value has a number, id, which the code does not have.     *)
(***************************************************************************)
EXTENDS Integers, Sequences, FiniteSets

CONSTANTS
  E_B,                  \* size of the ring
  Classes, Scs,         \* classes of values, samples between two
  filhi, fillo, iwin,   \* samples between two values over a threshold, window
  n_hits, wait_blk,
  NOR_OUT, EV_OFF,      \* countdown of an event
  Rate,                 \* sample_rate
  MaxValues             \* bound

B_M1 == E_B - 1

MurdockAssumption ==
  /\ E_B \in Nat /\ E_B > 9 /\ Classes \subseteq 0 .. 2
  /\ Scs \subseteq Nat \ {0} /\ filhi < fillo /\ fillo <= iwin
  /\ {wait_blk, MaxValues, Rate} \subseteq Nat \ {0} /\ NOR_OUT > EV_OFF /\ EV_OFF > 0

VARIABLES
  con,                  \* con_sto
  onset,                \* the onset of the last step: its values, its period
  hits, reported        \* ghost: values since an event was possible; onset reported

vars == <<con, onset, hits, reported>>

Zero(id) == [flg |-> 0, sc |-> 0, cls |-> 0, id |-> id]   \* of memory that is clear
NoOnset == [at |-> 0, ids |-> << >>, per |-> 0]

\* the detector's state when it is new
con_sto ==
  [abuf |-> [i \in 1 .. 4 |-> Zero(i - 4)], buf |-> [i \in 0 .. B_M1 |-> Zero(-9)],
   epf |-> FALSE, evon |-> FALSE, icheck |-> FALSE, fst |-> 0, lst |-> 0, lst_pt |-> 0,
   sumdsc |-> 0, th_wt |-> 0, itc |-> NOR_OUT, nn |-> 0, id |-> 0]

Init ==
  /\ con = con_sto
  /\ onset = NoOnset /\ hits = << >> /\ reported = TRUE

-----------------------------------------------------------------------------
Write(c, v) ==
  LET i == IF c.lst_pt + 1 = B_M1 THEN 0 ELSE c.lst_pt + 1
  IN [c EXCEPT !.lst_pt = i,
               !.buf[i] = [flg |-> c.th_wt, sc |-> c.sumdsc, cls |-> v.cls, id |-> v.id]]
Weighed(c, v, th) == Write([c EXCEPT !.th_wt = th], v)

\* the distance from index i to index j of the ring, as the code has it
Ahead(i, j) == IF i > j THEN j + E_B - i ELSE j - i

Ibingo(c) == [c EXCEPT !.epf = FALSE, !.evon = TRUE, !.icheck = FALSE, !.itc = NOR_OUT, !.nn = 0]

\* fault: the last of the four is in the way
LastBefore_fault == 4

\* the index of the last of the four
LastBefore == 3

\* the four values before, and the one that makes an event possible
Arm(c, v) ==
  LET sum[j \in 0 .. 3] == IF j = 0 THEN 0 ELSE sum[j - 1] + c.abuf[j + 1].sc
      ring == [i \in 0 .. B_M1 |->
                 IF i > 3 THEN c.buf[i]
                 ELSE [flg |-> c.buf[i].flg, sc |-> sum[i], cls |-> c.abuf[i + 1].cls,
                       id |-> c.abuf[i + 1].id]]
  IN Weighed([c EXCEPT !.buf = ring, !.epf = TRUE, !.fst = 4, !.lst = 4, !.lst_pt = LastBefore,
                     !.sumdsc = sum[3] + v.sc], v, v.cls)

\* the next index after i that is flagged, up to index last
NextFlagged(c, i, last) ==
  LET k == CHOOSE k \in 1 .. E_B :
             /\ k = Ahead(i, last) \/ c.buf[(i + k) % E_B].flg > 0
             /\ \A l \in 1 .. k - 1 : c.buf[(i + l) % E_B].flg = 0 /\ l # Ahead(i, last)
  IN (i + k) % E_B

\* values that are out of the window are forgotten
RECURSIVE Shrink(_, _)
Shrink(c, sc) ==
  IF sc - c.buf[c.fst].sc <= iwin THEN c
  ELSE IF c.fst = c.lst THEN [c EXCEPT !.epf = FALSE]
  ELSE Shrink([c EXCEPT !.fst = NextFlagged(c, c.fst, c.lst)], sc)

Window(c) == {(c.fst + k) % E_B : k \in 0 .. Ahead(c.fst, c.lst)}

\* a value over the threshold while an event is possible
Flagged(c0, v) ==
  LET c == [c0 EXCEPT !.sumdsc = @ + v.sc]
      since == c.sumdsc - c.buf[c.lst].sc
      w == Weighed(c, v, v.cls)
      far == [w EXCEPT !.fst = w.lst_pt, !.lst = w.lst_pt]
      s == Shrink(c, c.sumdsc)
      u == Weighed(s, v, v.cls)
      t == [u EXCEPT !.lst = u.lst_pt]
      over == {i \in Window(t) : t.buf[i].flg > 0}
  IN IF since <= filhi THEN Weighed(c, v, 0)
     ELSE IF since >= fillo THEN far
     ELSE IF c.fst = c.lst THEN [w EXCEPT !.lst = w.lst_pt]
     ELSE IF Cardinality(over) >= 3
             /\ ((\E i \in over : t.buf[i].flg = 2) \/ Cardinality(over) >= n_hits)
          THEN Ibingo(t) ELSE t

Quiet(c0, v) ==
  LET w == Weighed([c0 EXCEPT !.sumdsc = @ + v.sc], v, 0)
  IN Shrink(w, w.sumdsc)

\* fault: it is not noted that the onset has been worked out
Due_fault(c) == Ahead(c.fst, c.lst_pt) >= 7

\* While an event is on, the values go on until there are eight.
Due(c) == ~c.icheck /\ Ahead(c.fst, c.lst_pt) >= 7

On(c, v) ==
  LET w == Write([c EXCEPT !.sumdsc = @ + v.sc], v)
      n == Ahead(c.fst, c.lst_pt)
  IN IF n <= 7 THEN [w EXCEPT !.icheck = c.icheck \/ n = 7] ELSE [c EXCEPT !.icheck = TRUE]

Event(c, v) ==
  IF c.evon THEN On(c, v)
  ELSE IF ~c.epf THEN IF v.cls = 0 THEN c ELSE Arm(c, v)
  ELSE IF v.cls > 0 THEN Flagged(c, v) ELSE Quiet(c, v)

-----------------------------------------------------------------------------
\* Onsetq: the values of the onset are around the first that was flagged, or
\* begin up to two before it, if those are near and large.
Back(i, n) == IF i - n < 0 THEN i + E_B - n ELSE i - n
Forth(i, n) == IF i + n >= E_B THEN i + n - E_B ELSE i + n

Onsetq(c) ==
  LET f == c.fst
      sc(i) == c.buf[i].sc
      per == (sc(Forth(f, 8)) - sc(f) + 2) \div 4
      near == IF per < Rate THEN Rate ELSE per
      half == near \div 2
      two == sc(Back(f, 1)) - sc(Back(f, 2)) <= near /\ c.buf[Back(f, 2)].cls > 0
      one == sc(f) - sc(Back(f, 1)) <= near /\ c.buf[Back(f, 1)].cls > 0
      lb == IF two THEN 2 ELSE IF one THEN 1 ELSE 0
      first == Back(f, lb)
      early == CASE lb = 2 -> sc(Back(f, 2)) - sc(Back(f, 3)) <= half
                 [] lb = 1 -> sc(Back(f, 1)) - sc(Back(f, 2)) <= half
                 [] lb = 0 -> sc(f) - sc(Back(f, 1)) <= half
      from == Back(first, 2)
  IN [at |-> c.buf[IF early THEN Back(first, 1) ELSE first].id,
      ids |-> [k \in 1 .. 5 |-> c.buf[Forth(from, k - 1)].id], per |-> per]

RECURSIVE Count_dn(_, _)
Count_dn(c, n) ==
  LET less == IF c.nn + 1 >= wait_blk THEN [c EXCEPT !.nn = 0, !.itc = @ - 1]
                                      ELSE [c EXCEPT !.nn = @ + 1]
  IN IF n = 0 \/ c.itc = 0 THEN c
     ELSE Count_dn([less EXCEPT !.evon = @ /\ less.itc > EV_OFF], n - 1)

\* A P-T value: after sc samples the slope has changed.
E_detect ==
  \E cls \in Classes, sc \in Scs :
    LET before == Count_dn(con, sc - 1)
        v == [sc |-> sc, cls |-> cls, id |-> con.id + 1]
        c == Event(before, v)
        last == Append(before.abuf, v)
        due == before.evon /\ Due(before)
    IN /\ con.id < MaxValues
       /\ con' = Count_dn([c EXCEPT !.id = v.id,
                                    !.abuf = IF Len(last) > 4 THEN Tail(last) ELSE last], 1)
       /\ onset' = IF due THEN Onsetq(c) ELSE NoOnset
       /\ hits' = IF c.epf \/ (c.evon /\ ~before.evon) THEN Append(hits, v) ELSE << >>
       /\ reported' = IF c.evon /\ ~before.evon THEN FALSE ELSE reported \/ due

Next == E_detect

Spec == Init /\ [][Next]_vars

-----------------------------------------------------------------------------
Bingo == ~con.evon /\ con'.evon

\* the values over the threshold in the window that ends with the last one
RECURSIVE After(_)
After(h) == IF h = << >> THEN 0 ELSE Head(h).sc + After(Tail(h))
InWindow(h) ==
  {i \in DOMAIN h : h[i].cls > 0 /\ After(SubSeq(h, i + 1, Len(h))) <= iwin}

\* An event is declared with three values over the threshold in the window,
\* one of them over the higher one, or with n_hits (Event).
EventHasHits ==
  [][Bingo => LET w == InWindow(hits')
              IN /\ Cardinality(w) >= 3
                 /\ Cardinality(w) >= n_hits \/ \E i \in w : hits'[i].cls = 2]_vars

\* The values an onset is worked out from follow one another, around the first
\* that was flagged.
ValuesAreNeighbours ==
  onset # NoOnset => \A k \in 1 .. 4 : onset.ids[k + 1] = onset.ids[k] + 1

\* The onset of an event is reported once ("flag, ensures period estimate").
ReportedOnce == [][onset' # NoOnset => ~reported]_vars

\* An event does not end before its onset was reported.
EventIsReported == [][con.evon /\ ~con'.evon => reported']_vars

\* Periods are not negative.
PeriodIsPositive == onset.per >= 0
=============================================================================
