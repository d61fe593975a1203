---------------------------- MODULE CommandsProofs ----------------------------
(***************************************************************************)
(* Theorems about Commands, for any commands, any ring larger than their   *)
(* number, and any number of requests and transmissions.                   *)
(*                                                                         *)
(* new_cmd has no test for a full ring.  It needs none: the commands in    *)
(* the ring differ, so there are fewer than the ring has places.  From     *)
(* that the head stays what it is while its answer is awaited.             *)
(***************************************************************************)
EXTENDS Commands, Wrapping

Places == 0 .. CMDQSZ - 1

\* The ring, its pointers and the numbers of commands.
RingTypes ==
  /\ cmdin \in Places /\ cmdout \in Places
  /\ cmdq \in [Places -> [cmd : Cmds \cup {"none"}, tunneled : BOOLEAN]]
  /\ cphase \in {"IDLE", "NEED", "WAIT"}
  /\ ctrlseq \in Nat /\ lastctrlseq \in Nat /\ lastctrlseq < ctrlseq
  /\ tunnel_state = "REQ" => tunnel.reqcmd \in Tunnelled

\* The commands in the ring are commands, and each is there once.
EachOnce ==
  /\ \A k \in 1 .. Len(Queue) : Queue[k].cmd \in Cmds
  /\ \A j, k \in 1 .. Len(Queue) : Queue[j].cmd = Queue[k].cmd => j = k

InFlight == cphase # "IDLE" => cmdin # cmdout

\* Answers are to commands already sent; the last one is the head of the ring.
Numbers ==
  \A a \in answers :
    /\ a.seq \in Nat /\ a.seq <= lastctrlseq
    /\ cphase # "IDLE" /\ a.seq = lastctrlseq => a.cmd = Head1.cmd

CommandsInv == RingTypes /\ EachOnce /\ InFlight /\ Numbers

\* What is in the ring.
InRing == {Queue[k] : k \in 1 .. Len(Queue)}

-----------------------------------------------------------------------------
(* The ring.                                                               *)

(* What the assumption says of the constants.                              *)
LEMMA RingSize ==
  /\ CMDQSZ \in Nat \ {0} /\ IsFiniteSet(Cmds) /\ Cardinality(Cmds) \in Nat
  /\ Cardinality(Cmds) < CMDQSZ /\ SLOG \in Cmds /\ Own \subseteq Cmds /\ Tunnelled \subseteq Cmds
<1>1. Cardinality(Cmds) \in Nat
  BY CommandsAssumption, FS_CardinalityType
<1> QED BY <1>1, CommandsAssumption DEF Cmds

\* The length of the ring, and what is at its places.
Shape ==
  /\ Len(Queue) = (cmdin - cmdout) % CMDQSZ /\ Len(Queue) \in Places
  /\ \A k \in 1 .. Len(Queue) : Queue[k] = cmdq[(cmdout + k - 1) % CMDQSZ]
  /\ Len(Queue) = IF cmdin >= cmdout THEN cmdin - cmdout ELSE cmdin - cmdout + CMDQSZ

(* The ring has this shape.                                                *)
LEMMA RingShape ==
  ASSUME RingTypes
  PROVE  Shape
<1> DEFINE n == (cmdin - cmdout) % CMDQSZ
           d == cmdin - cmdout
<1>1. d \in Int /\ d \in - CMDQSZ .. CMDQSZ - 1
  BY RingSize DEF RingTypes, Places
<1>2. n \in Places
  BY <1>1, RingSize, ModRange DEF Places
<1>3. n = IF cmdin >= cmdout THEN d ELSE d + CMDQSZ
  <2> HIDE DEF d
  <2>1. /\ d \in 0 .. CMDQSZ - 1 => d % CMDQSZ = d
        /\ d \in - CMDQSZ .. -1 => d % CMDQSZ = d + CMDQSZ
    BY <1>1, RingSize, OneTurn
  <2>2. d >= 0 <=> cmdin >= cmdout
    BY DEF d, RingTypes, Places
  <2> QED BY <1>1, <2>1, <2>2, RingSize DEF d
<1>4. Queue = [k \in 1 .. n |-> cmdq[(cmdout + k - 1) % CMDQSZ]]
  BY DEF Queue
<1> HIDE DEF n, d
<1>5. n \in Nat
  BY <1>2, RingSize DEF Places
<1>6. Len(Queue) = n
  BY <1>4, <1>5
<1> QED BY <1>2, <1>3, <1>4, <1>6 DEF n, d, Shape

(* So has the ring of the next state.                                      *)
LEMMA NextShape == RingTypes' => Shape'
<1>1. RingTypes => Shape
  BY RingShape
<1> QED BY <1>1, PTL

(* Different places of the ring are different, and the next one is cmdin.  *)
LEMMA PlacesDiffer ==
  ASSUME RingTypes, NEW j \in 1 .. CMDQSZ, NEW k \in 1 .. CMDQSZ,
         (cmdout + j - 1) % CMDQSZ = (cmdout + k - 1) % CMDQSZ
  PROVE  j = k
<1> DEFINE a == cmdout + j - 1
           b == cmdout + k - 1
<1>1. a \in Int /\ b \in Int /\ a - b < CMDQSZ /\ b - a < CMDQSZ
  BY RingSize DEF RingTypes, Places
<1> HIDE DEF a, b
<1>2. a = b
  BY <1>1, RingSize, NearEqual DEF a, b
<1> QED BY <1>2, RingSize DEF a, b, RingTypes, Places

(* A ring that is not empty has a head.                                    *)
LEMMA HeadInRing ==
  ASSUME RingTypes, cmdin # cmdout
  PROVE  Head1 = Queue[1] /\ 1 \in 1 .. Len(Queue) /\ Head1 \in InRing
<1>1. Len(Queue) \in Nat \ {0}
  BY RingShape, RingSize DEF RingTypes, Places, Shape
<1>2. (cmdout + 1 - 1) % CMDQSZ = cmdout
  <2>1. cmdout \in 0 .. CMDQSZ - 1 /\ cmdout \in Int /\ cmdout + 1 - 1 = cmdout
    BY RingSize DEF RingTypes, Places
  <2> QED BY <2>1, RingSize, OneTurn
<1>3. 1 \in 1 .. Len(Queue)
  BY <1>1
<1>4. Queue[1] = cmdq[(cmdout + 1 - 1) % CMDQSZ]
  BY <1>3, RingShape DEF Shape
<1> QED BY <1>2, <1>3, <1>4 DEF InRing, Head1

(* The place after the last command is cmdin.                              *)
LEMMA NextPlace ==
  ASSUME RingTypes
  PROVE  (cmdout + (Len(Queue) + 1) - 1) % CMDQSZ = cmdin
<1> DEFINE x == cmdout + (Len(Queue) + 1) - 1
<1>1. x \in Int /\ (x = cmdin \/ x = cmdin + CMDQSZ) /\ cmdin \in 0 .. CMDQSZ - 1
  BY RingShape, RingSize DEF RingTypes, Places, Shape
<1> HIDE DEF x
<1>2. /\ x \in 0 .. CMDQSZ - 1 => x % CMDQSZ = x
      /\ x \in CMDQSZ .. 2 * CMDQSZ - 1 => x % CMDQSZ = x - CMDQSZ
  BY <1>1, RingSize, OneTurn
<1>3. x % CMDQSZ = cmdin
  BY <1>1, <1>2, RingSize
<1> QED BY <1>3 DEF x

(* A ring that lacks a command has room for it and for one more.           *)
LEMMA RingHasRoom ==
  ASSUME RingTypes, EachOnce, NEW c \in Cmds, \A k \in 1 .. Len(Queue) : Queue[k].cmd # c
  PROVE  Len(Queue) + 1 < CMDQSZ
<1> DEFINE n == Len(Queue)
           f == [k \in 1 .. n + 1 |-> IF k <= n THEN Queue[k].cmd ELSE c]
<1>1. n \in Nat
  BY RingShape, RingSize DEF Places, Shape
<1> HIDE DEF n
<1>2. f \in [1 .. n + 1 -> Cmds]
  BY <1>1 DEF EachOnce, n
<1>3. ASSUME NEW j \in 1 .. n + 1, NEW k \in 1 .. n + 1, f[j] = f[k] PROVE j = k
  <2>1. CASE j <= n /\ k <= n
    BY <1>1, <1>3, <2>1 DEF EachOnce, n
  <2>2. CASE j <= n /\ ~ (k <= n)
    BY <1>1, <1>3, <2>2 DEF n
  <2>3. CASE ~ (j <= n) /\ k <= n
    BY <1>1, <1>3, <2>3 DEF n
  <2>4. CASE ~ (j <= n) /\ ~ (k <= n)
    BY <1>1, <2>4
  <2> QED BY <2>1, <2>2, <2>3, <2>4
<1>4. f \in Injection(1 .. n + 1, Cmds)
  BY <1>2, <1>3 DEF Injection, IsInjective
<1>5. Cardinality(1 .. n + 1) <= Cardinality(Cmds)
  BY <1>4, RingSize, FS_Injection
<1>6. Cardinality(1 .. n + 1) = n + 1
  <2>1. 1 \in Int /\ n + 1 \in Int /\ ~ (1 > n + 1)
    BY <1>1
  <2>2. Cardinality(1 .. n + 1) = (n + 1) - 1 + 1
    BY <2>1, FS_Interval
  <2> QED BY <1>1, <2>2
<1> QED BY <1>1, <1>5, <1>6, RingSize DEF n

(* A command is queued, or is there already.                               *)
LEMMA QueuedKeeps ==
  ASSUME RingTypes, EachOnce, NEW c \in Cmds, NEW t \in BOOLEAN, new_cmd(c, t),
         UNCHANGED flight, tunnel_state' = "REQ" => tunnel'.reqcmd \in Tunnelled
  PROVE  /\ RingTypes' /\ EachOnce' /\ Len(Queue') >= Len(Queue)
         /\ cmdin # cmdout => cmdin' # cmdout' /\ Head1' = Head1
         /\ InRing' = IF \E e \in InRing : e.cmd = c THEN InRing
                      ELSE InRing \cup {[cmd |-> c, tunneled |-> t]}
<1> DEFINE n == Len(Queue)
<1>1. n \in Nat /\ Queue' = Queue' /\ n < CMDQSZ
  BY RingShape, RingSize DEF Places, Shape
<1>2. CASE UNCHANGED queue
  <2>1. UNCHANGED <<cmdq, cmdin, cmdout, cphase, ctrlseq, lastctrlseq>>
    BY <1>2 DEF queue, flight
  <2>2. Queue' = Queue /\ Head1' = Head1
    BY <2>1 DEF Queue, Head1
  <2>3. RingTypes'
    BY <2>1 DEF RingTypes
  <2>4. InRing' = InRing
    BY <2>2 DEF InRing
  <2>5. \E e \in InRing : e.cmd = c
    <3>1. CASE \E k \in 1 .. n : Queue[k].cmd = c
      BY <3>1 DEF InRing
    <3>2. CASE ~ \E k \in 1 .. n : Queue[k].cmd = c
      <4>1. cmdin' = (cmdin + 1) % CMDQSZ /\ cmdin' = cmdin
        BY <2>1, <3>2 DEF new_cmd
      <4>2. n + 1 < CMDQSZ
        BY <3>2, RingHasRoom
      <4> DEFINE x == cmdin + 1
      <4>3. x \in 1 .. CMDQSZ /\ x \in Int
        BY RingSize DEF RingTypes, Places
      <4>4. /\ x \in 0 .. CMDQSZ - 1 => x % CMDQSZ = x
            /\ x \in CMDQSZ .. 2 * CMDQSZ - 1 => x % CMDQSZ = x - CMDQSZ
        BY <4>3, RingSize, OneTurn
      <4> HIDE DEF x
      <4>5. x % CMDQSZ # x - 1
        BY <1>1, <4>2, <4>3, <4>4, RingSize
      <4>6. x - 1 = cmdin
        BY RingSize DEF x, RingTypes, Places
      <4> QED BY <4>1, <4>5, <4>6 DEF x
    <3> QED BY <3>1, <3>2
  <2> QED BY <1>1, <2>1, <2>2, <2>3, <2>4, <2>5 DEF EachOnce
<1>3. CASE ~ UNCHANGED queue
  <2>1. /\ \A k \in 1 .. n : Queue[k].cmd # c
        /\ cmdq' = [cmdq EXCEPT ![cmdin] = [cmd |-> c, tunneled |-> t]]
        /\ cmdin' = (cmdin + 1) % CMDQSZ /\ cmdout' = cmdout
    BY <1>3 DEF new_cmd
  <2>2. n + 1 < CMDQSZ
    BY <2>1, RingHasRoom
  <2>3. cmdin' = IF cmdin + 1 = CMDQSZ THEN 0 ELSE cmdin + 1
    <3> DEFINE x == cmdin + 1
    <3>1. x \in Int /\ x \in 1 .. CMDQSZ
      BY RingSize DEF RingTypes, Places
    <3>2. /\ x \in 0 .. CMDQSZ - 1 => x % CMDQSZ = x
          /\ x \in CMDQSZ .. 2 * CMDQSZ - 1 => x % CMDQSZ = x - CMDQSZ
      BY <3>1, RingSize, OneTurn
    <3> HIDE DEF x
    <3>3. x % CMDQSZ = IF x = CMDQSZ THEN 0 ELSE x
      BY <3>1, <3>2, RingSize
    <3> QED BY <2>1, <3>3 DEF x
  <2>4. RingTypes'
    <3>1. cmdin' \in Places /\ cmdout' \in Places
      BY <2>1, <2>3, RingSize DEF RingTypes, Places
    <3>2. cmdq' \in [Places -> [cmd : Cmds \cup {"none"}, tunneled : BOOLEAN]]
      BY <2>1 DEF RingTypes
    <3> QED BY <3>1, <3>2 DEF RingTypes, flight
  <2>5. Len(Queue') = n + 1
    <3>1. Len(Queue') = IF cmdin' >= cmdout' THEN cmdin' - cmdout' ELSE cmdin' - cmdout' + CMDQSZ
      BY <2>4, NextShape DEF Shape
    <3>2. n = IF cmdin >= cmdout THEN cmdin - cmdout ELSE cmdin - cmdout + CMDQSZ
      BY RingShape DEF Shape
    <3> HIDE DEF n
    <3>3. /\ cmdin \in 0 .. CMDQSZ - 1 /\ cmdout \in 0 .. CMDQSZ - 1 /\ CMDQSZ \in Nat \ {0}
          /\ cmdout' = cmdout
      BY <2>1, RingSize DEF RingTypes, Places
    <3>4. CASE cmdin >= cmdout
      BY <3>1, <3>2, <3>3, <3>4, <2>2, <2>3
    <3>5. CASE cmdin < cmdout
      BY <3>1, <3>2, <3>3, <3>5, <2>2, <2>3
    <3> QED BY <3>3, <3>4, <3>5
  <2>6. ASSUME NEW k \in 1 .. n + 1
        PROVE  Queue'[k] = IF k <= n THEN Queue[k] ELSE [cmd |-> c, tunneled |-> t]
    <3>1. Queue'[k] = cmdq'[(cmdout + k - 1) % CMDQSZ]
      BY <2>1, <2>4, <2>5, NextShape DEF Shape
    <3>2. (cmdout + k - 1) % CMDQSZ \in Places
      <4>1. cmdout + k - 1 \in Int
        BY <1>1, RingSize DEF RingTypes, Places
      <4> QED BY <4>1, RingSize, ModRange DEF Places
    <3>3. CASE k <= n
      <4>1. k \in 1 .. CMDQSZ /\ n + 1 \in 1 .. CMDQSZ /\ k # n + 1
        BY <1>1, <2>2, <3>3, RingSize
      <4>2. (cmdout + k - 1) % CMDQSZ # cmdin
        BY <4>1, NextPlace, PlacesDiffer
      <4>3. Queue[k] = cmdq[(cmdout + k - 1) % CMDQSZ]
        BY <1>1, <3>3, RingShape DEF Shape
      <4> QED BY <2>1, <3>1, <3>2, <3>3, <4>2, <4>3 DEF RingTypes
    <3>4. CASE ~ (k <= n)
      <4>1. k = n + 1
        BY <1>1, <3>4
      <4>2. (cmdout + k - 1) % CMDQSZ = cmdin
        BY <4>1, NextPlace
      <4> QED BY <2>1, <3>1, <3>2, <3>4, <4>2 DEF RingTypes
    <3> QED BY <3>3, <3>4
  <2>7. EachOnce'
    <3>1. \A k \in 1 .. n + 1 : Queue'[k].cmd = IF k <= n THEN Queue[k].cmd ELSE c
      BY <2>6
    <3>2. \A k \in 1 .. n + 1 : Queue'[k].cmd \in Cmds
      BY <1>1, <3>1 DEF EachOnce
    <3>3. ASSUME NEW j \in 1 .. n + 1, NEW k \in 1 .. n + 1, Queue'[j].cmd = Queue'[k].cmd
          PROVE  j = k
      <4> HIDE DEF n
      <4>1. CASE j <= n /\ k <= n
        BY <1>1, <3>1, <3>3, <4>1 DEF EachOnce, n
      <4>2. CASE j <= n /\ ~ (k <= n)
        BY <1>1, <2>1, <3>1, <3>3, <4>2
      <4>3. CASE ~ (j <= n) /\ k <= n
        BY <1>1, <2>1, <3>1, <3>3, <4>3
      <4>4. CASE ~ (j <= n) /\ ~ (k <= n)
        BY <1>1, <4>4
      <4> QED BY <4>1, <4>2, <4>3, <4>4
    <3> QED BY <2>5, <3>2, <3>3 DEF EachOnce
  <2>8. cmdin # cmdout => cmdin' # cmdout' /\ Head1' = Head1
    <3>1. cmdin' # cmdout'
      <4>1. Len(Queue') = IF cmdin' >= cmdout' THEN cmdin' - cmdout' ELSE cmdin' - cmdout' + CMDQSZ
        BY <2>4, NextShape DEF Shape
      <4>2. cmdin' \in Int /\ cmdout' \in Int
        BY <2>4, RingSize DEF RingTypes, Places
      <4>3. Len(Queue') # 0
        BY <2>5, <1>1
      <4>4. cmdin' = cmdout' => Len(Queue') = 0
        <5>1. \A a, b \in Int : a = b => (IF a >= b THEN a - b ELSE a - b + CMDQSZ) = 0
          OBVIOUS
        <5> QED BY <4>1, <4>2, <5>1
      <4> QED BY <4>3, <4>4
    <3> QED BY <2>1, <3>1 DEF Head1, RingTypes
  <2>9. InRing' = InRing \cup {[cmd |-> c, tunneled |-> t]}
    <3> HIDE DEF n
    <3> DEFINE new == [cmd |-> c, tunneled |-> t]
    <3>1. InRing = {Queue[k] : k \in 1 .. n} /\ InRing' = {Queue'[k] : k \in 1 .. n + 1}
      BY <2>5 DEF InRing, n
    <3>2. Queue'[n + 1] = new /\ n + 1 \in 1 .. n + 1
      BY <1>1, <2>6
    <3>3. \A k \in 1 .. n : k \in 1 .. n + 1 /\ Queue'[k] = Queue[k]
      BY <1>1, <2>6
    <3>4. \A k \in 1 .. n + 1 : k \in 1 .. n \/ k = n + 1
      BY <1>1
    <3> HIDE DEF new
    <3> QED BY <3>1, <3>2, <3>3, <3>4 DEF new
  <2>10. ~ \E e \in InRing : e.cmd = c
    BY <2>1 DEF InRing
  <2> QED BY <1>1, <2>4, <2>5, <2>7, <2>8, <2>9, <2>10
<1> QED BY <1>2, <1>3

(* The head is done with.                                                  *)
LEMMA ClearedKeeps ==
  ASSUME RingTypes, EachOnce, clear_cmsg, tunnel_state' = "REQ" => tunnel'.reqcmd \in Tunnelled
  PROVE  /\ RingTypes' /\ EachOnce' /\ Len(Queue') >= Len(Queue) - 1 /\ cphase' = "IDLE"
         /\ cmdin # cmdout => InRing' = InRing \ {Head1}
<1> DEFINE n == Len(Queue)
<1>1. n \in Nat /\ n < CMDQSZ
  BY RingShape, RingSize DEF Places, Shape
<1>2. cphase' = "IDLE" /\ UNCHANGED <<cmdq, cmdin, ctrlseq, lastctrlseq>>
  BY DEF clear_cmsg
<1>3. CASE cmdin = cmdout
  <2>1. cmdout' = cmdout
    BY <1>3 DEF clear_cmsg
  <2>2. Queue' = Queue
    BY <1>2, <2>1 DEF Queue
  <2>3. RingTypes'
    BY <1>2, <2>1 DEF RingTypes
  <2> QED BY <1>1, <1>2, <1>3, <2>2, <2>3 DEF EachOnce
<1>4. CASE cmdin # cmdout
  <2>1. cmdout' = (cmdout + 1) % CMDQSZ
    BY <1>4 DEF clear_cmsg
  <2>2. cmdout' = IF cmdout + 1 = CMDQSZ THEN 0 ELSE cmdout + 1
    <3> DEFINE x == cmdout + 1
    <3>1. x \in Int /\ x \in 1 .. CMDQSZ
      BY RingSize DEF RingTypes, Places
    <3>2. /\ x \in 0 .. CMDQSZ - 1 => x % CMDQSZ = x
          /\ x \in CMDQSZ .. 2 * CMDQSZ - 1 => x % CMDQSZ = x - CMDQSZ
      BY <3>1, RingSize, OneTurn
    <3> HIDE DEF x
    <3>3. x % CMDQSZ = IF x = CMDQSZ THEN 0 ELSE x
      BY <3>1, <3>2, RingSize
    <3> QED BY <2>1, <3>3 DEF x
  <2>3. RingTypes'
    <3>1. cmdout' \in Places
      BY <2>2, RingSize DEF RingTypes, Places
    <3> QED BY <3>1, <1>2 DEF RingTypes
  <2>4. Len(Queue') = n - 1 /\ n > 0
    <3>1. Len(Queue') = IF cmdin' >= cmdout' THEN cmdin' - cmdout' ELSE cmdin' - cmdout' + CMDQSZ
      BY <2>3, NextShape DEF Shape
    <3>2. n = IF cmdin >= cmdout THEN cmdin - cmdout ELSE cmdin - cmdout + CMDQSZ
      BY RingShape DEF Shape
    <3> HIDE DEF n
    <3>3. /\ cmdin \in 0 .. CMDQSZ - 1 /\ cmdout \in 0 .. CMDQSZ - 1 /\ CMDQSZ \in Nat \ {0}
          /\ cmdin' = cmdin
      BY <1>2, RingSize DEF RingTypes, Places
    <3>4. CASE cmdin >= cmdout
      BY <3>1, <3>2, <3>3, <3>4, <1>4, <2>2
    <3>5. CASE cmdin < cmdout
      BY <3>1, <3>2, <3>3, <3>5, <2>2
    <3> QED BY <3>3, <3>4, <3>5
  <2>5. ASSUME NEW k \in 1 .. n - 1 PROVE Queue'[k] = Queue[k + 1]
    <3>1. k \in Nat /\ k + 1 \in 1 .. n /\ k + 1 - 1 = k
      BY <1>1
    <3>2. Queue'[k] = cmdq[(cmdout' + k - 1) % CMDQSZ]
      BY <2>3, <2>4, <1>2, NextShape DEF Shape
    <3>3. Queue[k + 1] = cmdq[(cmdout + (k + 1) - 1) % CMDQSZ]
      BY <3>1, RingShape DEF Shape
    <3>4. (cmdout' + k - 1) % CMDQSZ = (cmdout + (k + 1) - 1) % CMDQSZ
      <4> DEFINE a == cmdout + 1
                 j == k - 1
      <4>1. a \in Int /\ j \in Int /\ CMDQSZ \in Nat \ {0} /\ CMDQSZ % CMDQSZ = 0
        BY <3>1, RingSize DEF RingTypes, Places
      <4>2. ((a % CMDQSZ) + j) % CMDQSZ = (a + j) % CMDQSZ
        <5> HIDE DEF a, j
        <5> QED BY <4>1, RemainderFirst
      <4>3. cmdout' + k - 1 = (a % CMDQSZ) + j /\ cmdout + (k + 1) - 1 = a + j
        BY <2>1, <2>3, <3>1, RingSize DEF RingTypes, Places
      <4> QED BY <4>2, <4>3
    <3> QED BY <3>2, <3>3, <3>4
  <2>6. EachOnce'
    <3> HIDE DEF n
    <3>1. \A k \in 1 .. n - 1 : Queue'[k].cmd = Queue[k + 1].cmd /\ k + 1 \in 1 .. n
      BY <1>1, <2>5
    <3>2. \A k \in 1 .. n - 1 : Queue'[k].cmd \in Cmds
      BY <3>1 DEF EachOnce, n
    <3>3. ASSUME NEW j \in 1 .. n - 1, NEW k \in 1 .. n - 1, Queue'[j].cmd = Queue'[k].cmd
          PROVE  j = k
      <4>1. Queue[j + 1].cmd = Queue[k + 1].cmd /\ j + 1 \in 1 .. n /\ k + 1 \in 1 .. n
        BY <3>1, <3>3
      <4>2. j + 1 = k + 1
        BY <4>1 DEF EachOnce, n
      <4> QED BY <4>2
    <3> QED BY <2>4, <3>2, <3>3 DEF EachOnce
  <2>7. InRing' = InRing \ {Head1}
    <3>1. Queue[1] = Head1 /\ 1 \in 1 .. n
      BY <1>4, <2>4, HeadInRing
    <3> HIDE DEF n
    <3>2. InRing = {Queue[k] : k \in 1 .. n} /\ InRing' = {Queue'[k] : k \in 1 .. n - 1}
      BY <2>4 DEF InRing, n
    <3>3. \A k \in 1 .. n - 1 : /\ Queue'[k] = Queue[k + 1] /\ k + 1 \in 1 .. n
                                /\ Queue[k + 1] # Queue[1]
      <4> SUFFICES ASSUME NEW k \in 1 .. n - 1
                   PROVE  /\ Queue'[k] = Queue[k + 1] /\ k + 1 \in 1 .. n
                          /\ Queue[k + 1] # Queue[1]
        OBVIOUS
      <4>1. k + 1 \in 1 .. n /\ k + 1 # 1
        BY <1>1
      <4> QED BY <2>5, <3>1, <4>1 DEF EachOnce, n
    <3>4. \A k \in 1 .. n : k = 1 \/ (k - 1 \in 1 .. n - 1 /\ (k - 1) + 1 = k)
      BY <1>1
    <3> QED BY <3>1, <3>2, <3>3, <3>4
  <2> QED BY <1>1, <1>2, <2>3, <2>4, <2>6, <2>7
<1> QED BY <1>3, <1>4

-----------------------------------------------------------------------------
(* The actions.                                                            *)

(* A command is queued by the thread or for a client.                      *)
LEMMA QueueingKeeps ==
  ASSUME CommandsInv, OwnCommand \/ LogChanged \/ TunnelRequested
  PROVE  CommandsInv' /\ Len(Queue') >= Len(Queue) - 1
<1>1. \E c \in Cmds, t \in BOOLEAN :
        /\ new_cmd(c, t) /\ UNCHANGED <<flight, answers>>
        /\ tunnel_state' = "REQ" => tunnel'.reqcmd \in Tunnelled
  <2>1. CASE OwnCommand
    BY <2>1, RingSize DEF OwnCommand, share, CommandsInv, RingTypes
  <2>2. CASE LogChanged
    BY <2>2, RingSize DEF LogChanged, CommandsInv, RingTypes
  <2>3. CASE TunnelRequested
    <3>1. tunnel.reqcmd \in Cmds
      BY <2>3, RingSize DEF TunnelRequested, CommandsInv, RingTypes
    <3>2. tunnel_state' # "REQ"
      BY <2>3 DEF TunnelRequested
    <3> QED BY <2>3, <3>1, <3>2 DEF TunnelRequested
  <2> QED BY <2>1, <2>2, <2>3
<1>2. /\ RingTypes' /\ EachOnce' /\ Len(Queue') >= Len(Queue)
      /\ cmdin # cmdout => cmdin' # cmdout' /\ Head1' = Head1
      /\ UNCHANGED <<flight, answers>>
  BY <1>1, QueuedKeeps DEF CommandsInv
<1>3. InFlight'
  BY <1>2 DEF CommandsInv, InFlight, flight
<1>4. Numbers'
  BY <1>2 DEF CommandsInv, InFlight, Numbers, flight
<1>5. Len(Queue) \in Nat /\ Len(Queue') \in Nat
  BY <1>2, RingShape, NextShape, RingSize DEF CommandsInv, Shape, Places
<1> QED BY <1>2, <1>3, <1>4, <1>5 DEF CommandsInv

(* What leaves the ring as it is.                                          *)
LEMMA RingStays ==
  ASSUME RingTypes, EachOnce, UNCHANGED queue, cphase' \in {"IDLE", "NEED", "WAIT"},
         ctrlseq' \in Nat, lastctrlseq' \in Nat, lastctrlseq' < ctrlseq',
         tunnel_state' = "REQ" => tunnel'.reqcmd \in Tunnelled
  PROVE  /\ RingTypes' /\ EachOnce' /\ Head1' = Head1 /\ Len(Queue') >= Len(Queue) - 1
         /\ InRing' = InRing
<1>1. UNCHANGED <<cmdq, cmdin, cmdout>>
  BY DEF queue
<1>2. Queue' = Queue /\ Head1' = Head1
  BY <1>1 DEF Queue, Head1
<1>3. Len(Queue) \in Nat
  BY RingShape, RingSize DEF Shape, Places
<1>4. RingTypes'
  BY <1>1 DEF RingTypes
<1> QED BY <1>2, <1>3, <1>4 DEF EachOnce, InRing

(* The requests of a client, and time running out.                         *)
LEMMA RequestsKeep ==
  ASSUME CommandsInv, lib_set_config \/ lib_send_tunneled \/ Timeout
  PROVE  CommandsInv' /\ Len(Queue') >= Len(Queue) - 1
<1>1. /\ UNCHANGED <<queue, answers, ctrlseq, lastctrlseq>>
      /\ cphase' = cphase \/ (cphase = "WAIT" /\ cphase' = "NEED")
  BY DEF lib_set_config, lib_send_tunneled, Timeout, flight
<1>2. tunnel_state' = "REQ" => tunnel'.reqcmd \in Tunnelled
  <2>1. CASE lib_set_config
    BY <2>1 DEF lib_set_config, CommandsInv, RingTypes
  <2>2. CASE lib_send_tunneled
    BY <2>2 DEF lib_send_tunneled
  <2>3. CASE Timeout
    BY <2>3 DEF Timeout, share, CommandsInv, RingTypes
  <2> QED BY <2>1, <2>2, <2>3
<1>3. RingTypes' /\ EachOnce' /\ Head1' = Head1 /\ Len(Queue') >= Len(Queue) - 1
  BY <1>1, <1>2, RingStays DEF CommandsInv, RingTypes
<1>4. InFlight' /\ Numbers'
  BY <1>1, <1>3 DEF CommandsInv, InFlight, Numbers, queue
<1> QED BY <1>3, <1>4 DEF CommandsInv

(* The command at the head is sent, under a number not used before.        *)
LEMMA SendingKeeps ==
  ASSUME CommandsInv, lib_send_next_cmd
  PROVE  CommandsInv' /\ Len(Queue') >= Len(Queue) - 1
<1>1. /\ UNCHANGED <<queue, share>> /\ cphase' = "WAIT"
      /\ lastctrlseq' = ctrlseq /\ ctrlseq' = ctrlseq + 1
      /\ cphase = "NEED" \/ cmdin # cmdout
  BY DEF lib_send_next_cmd, Numbered
<1>2. \A a \in answers' : a \in answers \/ (a.seq = lastctrlseq' /\ a.cmd = Head1.cmd)
  BY DEF lib_send_next_cmd
<1>3. ctrlseq \in Nat /\ lastctrlseq \in Nat /\ lastctrlseq < ctrlseq
  BY DEF CommandsInv, RingTypes
<1>4. RingTypes' /\ EachOnce' /\ Head1' = Head1 /\ Len(Queue') >= Len(Queue) - 1
  BY <1>1, <1>3, RingStays DEF CommandsInv, RingTypes, share
<1>5. InFlight'
  BY <1>1 DEF CommandsInv, InFlight, queue
<1>6. Numbers'
  <2> SUFFICES ASSUME NEW a \in answers'
               PROVE  /\ a.seq \in Nat /\ a.seq <= lastctrlseq'
                      /\ a.seq = lastctrlseq' => a.cmd = Head1'.cmd
    BY DEF Numbers
  <2>1. CASE a \in answers
    <3>1. a.seq \in Nat /\ a.seq <= lastctrlseq
      BY <2>1 DEF CommandsInv, Numbers
    <3> QED BY <3>1, <1>1, <1>3
  <2>2. CASE a \notin answers
    <3>1. a.seq = lastctrlseq' /\ a.cmd = Head1.cmd
      BY <1>2, <2>2
    <3> QED BY <3>1, <1>1, <1>3, <1>4
  <2> QED BY <2>1, <2>2
<1> QED BY <1>4, <1>5, <1>6 DEF CommandsInv

(* An answer, or a client that gives the command up.                       *)
LEMMA ClearingKeeps ==
  ASSUME CommandsInv, CommandReceived \/ abort_cmsg
  PROVE  CommandsInv' /\ Len(Queue') >= Len(Queue) - 1
<1>1. answers' \subseteq answers
  BY DEF CommandReceived, abort_cmsg
<1>2. tunnel_state' = "REQ" => tunnel'.reqcmd \in Tunnelled
  <2>1. CASE abort_cmsg
    BY <2>1 DEF abort_cmsg, share, CommandsInv, RingTypes
  <2>2. CASE CommandReceived
    <3>1. CASE UNCHANGED share
      BY <3>1 DEF share, CommandsInv, RingTypes
    <3>2. CASE ~ UNCHANGED share
      <4>1. PICK a \in answers : Answered(a)
        BY <2>2, <3>2 DEF CommandReceived
      <4>2. tunnel_state' # "REQ" \/ UNCHANGED <<tunnel_state, tunnel>>
        BY <4>1, <3>2 DEF Answered, Refusal
      <4> QED BY <4>2 DEF CommandsInv, RingTypes
    <3> QED BY <3>1, <3>2
  <2> QED BY <2>1, <2>2
<1>3. CASE clear_cmsg
  <2>1. RingTypes' /\ EachOnce' /\ Len(Queue') >= Len(Queue) - 1 /\ cphase' = "IDLE"
    BY <1>2, <1>3, ClearedKeeps DEF CommandsInv
  <2>2. UNCHANGED lastctrlseq
    BY <1>3 DEF clear_cmsg
  <2> QED BY <1>1, <2>1, <2>2 DEF CommandsInv, InFlight, Numbers
<1>4. CASE UNCHANGED <<queue, flight>>
  <2>1. UNCHANGED <<cphase, ctrlseq, lastctrlseq, queue>>
    BY <1>4 DEF flight
  <2>2. RingTypes' /\ EachOnce' /\ Head1' = Head1 /\ Len(Queue') >= Len(Queue) - 1
    BY <1>2, <2>1, RingStays DEF CommandsInv, RingTypes
  <2> QED BY <1>1, <2>1, <2>2 DEF CommandsInv, InFlight, Numbers, queue
<1> QED BY <1>3, <1>4 DEF CommandReceived, abort_cmsg

(* The ring is emptied.                                                    *)
LEMMA PurgeKeeps ==
  ASSUME CommandsInv, purge_cmdq
  PROVE  CommandsInv'
<1>1. /\ cphase' = "IDLE" /\ cmdin' = 0 /\ cmdout' = 0
      /\ UNCHANGED <<cmdq, ctrlseq, lastctrlseq, share, answers>>
  BY DEF purge_cmdq
<1>2. RingTypes'
  BY <1>1, RingSize DEF CommandsInv, RingTypes, Places, share
<1>3. Len(Queue') = 0
  BY <1>1, <1>2, NextShape DEF Shape
<1> QED BY <1>1, <1>2, <1>3 DEF CommandsInv, EachOnce, InFlight, Numbers

(* The first state.                                                        *)
LEMMA CommandsBegin == ASSUME Init PROVE CommandsInv
<1>1. RingTypes
  BY RingSize DEF Init, RingTypes, Places, NoCommand
<1>2. Len(Queue) = 0
  BY <1>1, RingShape DEF Init, Shape
<1> QED BY <1>1, <1>2 DEF Init, CommandsInv, EachOnce, InFlight, Numbers

(* Every step keeps the invariant, and loses at most the head of the ring  *)
(* unless it empties it.                                                   *)
LEMMA CommandsSteps ==
  ASSUME CommandsInv, [Next]_vars
  PROVE  /\ CommandsInv'
         /\ Len(Queue') >= Len(Queue) - 1 \/ (cmdin' = 0 /\ cmdout' = 0)
<1>1. CASE purge_cmdq
  BY <1>1, PurgeKeeps DEF purge_cmdq
<1>2. CASE UNCHANGED vars
  <2>1. UNCHANGED <<queue, flight, answers, tunnel_state, tunnel, cphase, ctrlseq, lastctrlseq>>
    BY <1>2 DEF vars, share, flight
  <2>2. RingTypes' /\ EachOnce' /\ Head1' = Head1 /\ Len(Queue') >= Len(Queue) - 1
    BY <2>1, RingStays DEF CommandsInv, RingTypes
  <2> QED BY <2>1, <2>2 DEF CommandsInv, InFlight, Numbers, queue
<1> QED BY <1>1, <1>2, QueueingKeeps, RequestsKeep, SendingKeeps, ClearingKeeps DEF Next

(* The invariant holds of every behaviour.                                 *)
THEOREM CommandsInvariant == Spec => []CommandsInv
<1>1. Init => CommandsInv
  BY CommandsBegin
<1>2. CommandsInv /\ [Next]_vars => CommandsInv'
  BY CommandsSteps
<1> QED BY <1>1, <1>2, PTL DEF Spec

(* A command in flight is in the ring, and what is awaited is the answer   *)
(* to the last number (cphase, lastctrlseq).                               *)
THEOREM CommandsTypes == Spec => []CommandsTypeOK
<1>1. CommandsInv => CommandsTypeOK
  BY DEF CommandsInv, RingTypes, InFlight, CommandsTypeOK
<1> QED BY <1>1, CommandsInvariant, PTL

(* An accepted answer is to the command at the head of the ring            *)
(* (lib_command_received), however late others are.                        *)
THEOREM AnswersAreForHead == Spec => []AnswerIsForHead
<1>1. CommandsInv => AnswerIsForHead
  BY DEF CommandsInv, Numbers, AnswerIsForHead, Acknowledges
<1> QED BY <1>1, CommandsInvariant, PTL

(* The ring never runs over itself (new_cmd), though nothing tests it.     *)
THEOREM RingNeverOverflows == Spec => CommandsAreKept
<1>1. CommandsInv /\ [Next]_vars =>
        [Len(Queue') >= Len(Queue) - 1 \/ (cmdin' = 0 /\ cmdout' = 0)]_vars
  BY CommandsSteps
<1> QED BY <1>1, CommandsInvariant, PTL DEF Spec, CommandsAreKept

-----------------------------------------------------------------------------
(* What commands carry, of a client that waits for its answers, as long as *)
(* nothing is purged.                                                      *)

(* One command as the ring has it changes nothing of another one.          *)
LEMMA AloneInRing ==
  ASSUME RingTypes, EachOnce, NEW e \in InRing, NEW f \in InRing, e.cmd = f.cmd
  PROVE  e = f
BY DEF EachOnce, InRing

\* The configuration is known when it has not been asked to change and the
\* command that changes it is done; while that command awaits the answer that
\* was given, the Q330 has what the client asked for.
LogInv ==
  /\ log_changed => \A e \in InRing : e.cmd # SLOG
  /\ \A e \in InRing : e.cmd = SLOG => ~e.tunneled
  /\ \A a \in answers :
       cphase # "IDLE" /\ a.seq = lastctrlseq /\ Head1.cmd = SLOG => ~a.cerr /\ q330log = newlog
  /\ ~log_changed /\ (\A e \in InRing : e.cmd # SLOG) => log = q330log /\ log = newlog

(* In other words.                                                         *)
LEMMA LogInvLog ==
  ASSUME LogInv
  PROVE  LogIsKnown
BY DEF LogInv, LogIsKnown, InRing

(* The same of the guard of lib_set_config.                                *)
LEMMA Unsent ==
  ASSUME \A k \in 1 .. Len(Queue) : Queue[k].cmd # SLOG
  PROVE  \A e \in InRing : e.cmd # SLOG
BY DEF InRing

(* Queueing commands and asking for them.                                  *)
LEMMA LogQueued ==
  ASSUME ~Overlaps, CommandsInv, LogInv,
         OwnCommand \/ LogChanged \/ TunnelRequested \/ lib_set_config \/ lib_send_tunneled
  PROVE  LogInv'
<1>1. /\ RingTypes /\ EachOnce /\ SLOG \in Cmds /\ SLOG \notin Own /\ SLOG \notin Tunnelled
      /\ Own \subseteq Cmds /\ Tunnelled \subseteq Cmds /\ (cphase # "IDLE" => cmdin # cmdout)
  BY RingSize, CommandsAssumption DEF CommandsInv, InFlight
<1>2. CASE OwnCommand \/ TunnelRequested
  <2>1. PICK c \in Own \cup Tunnelled, t \in BOOLEAN : new_cmd(c, t)
    BY <1>1, <1>2 DEF OwnCommand, TunnelRequested, CommandsInv, RingTypes
  <2>2. UNCHANGED <<cphase, lastctrlseq, ctrlseq, log, newlog, log_changed, q330log, answers>>
    BY <1>2 DEF OwnCommand, TunnelRequested, flight, share
  <2>3. tunnel_state' = "REQ" => tunnel'.reqcmd \in Tunnelled
    BY <1>1, <1>2 DEF OwnCommand, TunnelRequested, share, RingTypes
  <2>4. c \in Cmds /\ c # SLOG
    BY <1>1
  <2>5. /\ cmdin # cmdout => Head1' = Head1
        /\ InRing' = IF \E e \in InRing : e.cmd = c THEN InRing
                     ELSE InRing \cup {[cmd |-> c, tunneled |-> t]}
    BY <1>1, <2>1, <2>2, <2>3, <2>4, QueuedKeeps DEF flight
  <2>6. \A e \in InRing' : e \in InRing \/ e.cmd # SLOG
    BY <2>4, <2>5
  <2>7. InRing \subseteq InRing'
    BY <2>5
  <2> QED BY <1>1, <2>2, <2>5, <2>6, <2>7 DEF LogInv
<1>3. CASE LogChanged
  <2>1. /\ log_changed /\ log_changed' = FALSE /\ new_cmd(SLOG, FALSE)
        /\ UNCHANGED <<cphase, lastctrlseq, ctrlseq, log, newlog, tunnel_state, tunnel,
                       q330log, answers>>
    BY <1>3 DEF LogChanged, flight
  <2>2. tunnel_state' = "REQ" => tunnel'.reqcmd \in Tunnelled
    BY <1>1, <2>1 DEF RingTypes
  <2>3. /\ cmdin # cmdout => Head1' = Head1
        /\ InRing' = IF \E e \in InRing : e.cmd = SLOG THEN InRing
                     ELSE InRing \cup {[cmd |-> SLOG, tunneled |-> FALSE]}
    BY <1>1, <2>1, <2>2, QueuedKeeps DEF flight
  <2>4. InRing' = InRing \cup {[cmd |-> SLOG, tunneled |-> FALSE]}
    BY <2>1, <2>3 DEF LogInv
  <2>5. \A e \in InRing' : e.cmd = SLOG => ~e.tunneled
    BY <2>1, <2>4 DEF LogInv
  <2>6. \E e \in InRing' : e.cmd = SLOG
    <3>1. [cmd |-> SLOG, tunneled |-> FALSE] \in InRing'
      BY <2>4
    <3>2. [cmd |-> SLOG, tunneled |-> FALSE].cmd = SLOG
      OBVIOUS
    <3> QED BY <3>1, <3>2
  <2>7. \A a \in answers :
          cphase # "IDLE" /\ a.seq = lastctrlseq /\ Head1'.cmd = SLOG => ~a.cerr /\ q330log = newlog
    BY <1>1, <2>3 DEF LogInv
  <2> QED BY <2>1, <2>5, <2>6, <2>7 DEF LogInv
<1>4. CASE lib_set_config \/ lib_send_tunneled
  <2>1. UNCHANGED <<queue, cphase, lastctrlseq, ctrlseq, log, q330log, answers>>
    BY <1>4 DEF lib_set_config, lib_send_tunneled, flight
  <2>2. tunnel_state' = "REQ" => tunnel'.reqcmd \in Tunnelled
    BY <1>1, <1>4 DEF lib_set_config, lib_send_tunneled, RingTypes
  <2>3. Head1' = Head1 /\ InRing' = InRing
    BY <1>1, <2>1, <2>2, RingStays DEF CommandsInv, RingTypes
  <2>4. CASE lib_set_config
    <3>1. \A e \in InRing : e.cmd # SLOG
      BY <2>4, Unsent DEF lib_set_config
    <3>2. cphase # "IDLE" => Head1.cmd # SLOG
      BY <1>1, <3>1, HeadInRing
    <3>3. log_changed' = TRUE
      BY <2>4 DEF lib_set_config
    <3> QED BY <2>1, <2>3, <3>1, <3>2, <3>3 DEF LogInv
  <2>5. CASE lib_send_tunneled
    <3>1. UNCHANGED <<newlog, log_changed>>
      BY <2>5 DEF lib_send_tunneled
    <3> QED BY <2>1, <2>3, <3>1 DEF LogInv
  <2> QED BY <1>4, <2>4, <2>5
<1> QED BY <1>2, <1>3, <1>4

(* Sending commands and answering them.                                    *)
LEMMA LogSent ==
  ASSUME ~Purges, CommandsInv, CommandsInv', LogInv,
         Timeout \/ lib_send_next_cmd \/ CommandReceived
  PROVE  LogInv'
<1>1. /\ RingTypes /\ EachOnce /\ Numbers /\ (cphase # "IDLE" => cmdin # cmdout)
      /\ RingTypes' /\ Refused \subseteq Own /\ SLOG \notin Own
  BY CommandsAssumption DEF CommandsInv, InFlight
<1>2. ctrlseq \in Nat /\ lastctrlseq \in Nat /\ lastctrlseq < ctrlseq
  BY <1>1 DEF RingTypes
<1>3. tunnel_state' = "REQ" => tunnel'.reqcmd \in Tunnelled
  BY <1>1 DEF RingTypes
<1>4. ASSUME UNCHANGED queue
      PROVE  Head1' = Head1 /\ InRing' = InRing
  BY <1>1, <1>3, <1>4, RingStays DEF RingTypes
<1>5. CASE Timeout
  BY <1>4, <1>5 DEF Timeout, LogInv, share
<1>6. CASE lib_send_next_cmd
  <2>1. /\ UNCHANGED <<queue, log, newlog, log_changed>> /\ lastctrlseq' = ctrlseq
        /\ cphase = "NEED" \/ cmdin # cmdout
    BY <1>6 DEF lib_send_next_cmd, share, Numbered
  <2>2. Head1' = Head1 /\ InRing' = InRing /\ Head1 \in InRing
    BY <1>1, <1>4, <2>1, HeadInRing
  <2>3. q330log' = q330log \/ (Head1.cmd = SLOG /\ q330log' = newlog)
    BY <1>6 DEF lib_send_next_cmd
  <2>4. ASSUME NEW a \in answers', a.seq = lastctrlseq', Head1.cmd = SLOG
        PROVE  ~a.cerr /\ q330log' = newlog
    <3>1. a \notin answers
      BY <1>1, <1>2, <2>1, <2>4 DEF Numbers
    <3>2. ~Head1.tunneled /\ Head1.cmd \notin Refused
      BY <1>1, <2>2, <2>4 DEF LogInv
    <3>3. PICK cerr \in {FALSE} \cup {Head1.tunneled \/ Head1.cmd \in Refused} :
             a = [seq |-> lastctrlseq', cmd |-> Head1.cmd, content |-> Content(Head1), cerr |-> cerr]
      BY <1>6, <2>4, <3>1 DEF lib_send_next_cmd
    <3>4. q330log' = newlog
      BY <1>6, <2>4, <3>1 DEF lib_send_next_cmd
    <3>5. cerr = FALSE
      BY <3>2
    <3> QED BY <3>3, <3>4, <3>5
  <2> QED BY <2>1, <2>2, <2>3, <2>4 DEF LogInv
<1>7. CASE CommandReceived
  <2>1. PICK a \in answers :
          /\ answers' = answers \ {a} /\ UNCHANGED q330log
          /\ IF cphase = "WAIT" /\ Acknowledges(a)
             THEN clear_cmsg /\ Answered(a)
             ELSE UNCHANGED <<queue, flight, share>>
    BY <1>7 DEF CommandReceived
  <2>2. CASE ~(cphase = "WAIT" /\ Acknowledges(a))
    BY <1>4, <2>1, <2>2 DEF LogInv, flight, share
  <2>3. CASE cphase = "WAIT" /\ Acknowledges(a)
    <3>1. clear_cmsg /\ Answered(a) /\ cmdin # cmdout /\ a.seq = lastctrlseq
      BY <1>1, <2>1, <2>3 DEF Acknowledges
    <3>2. cphase' = "IDLE" /\ InRing' = InRing \ {Head1} /\ Head1 \in InRing
      BY <1>1, <1>3, <3>1, ClearedKeeps, HeadInRing
    <3>3. UNCHANGED <<newlog, log_changed>>
      BY <3>1 DEF Answered, share, Refusal
    <3>4. CASE Head1.cmd = SLOG
      <4>1. ~a.cerr /\ q330log = newlog /\ ~Head1.tunneled
        BY <2>3, <3>1, <3>2, <3>4 DEF LogInv
      <4>2. log' = newlog
        BY <3>1, <3>4, <4>1 DEF Answered, SetLog
      <4> QED BY <2>1, <3>2, <3>3, <4>1, <4>2 DEF LogInv
    <3>5. CASE Head1.cmd # SLOG
      <4>1. log' = log
        BY <3>1, <3>5 DEF Answered, share
      <4> QED BY <2>1, <3>2, <3>3, <3>5, <4>1 DEF LogInv
    <3> QED BY <3>4, <3>5
  <2> QED BY <2>2, <2>3
<1> QED BY <1>5, <1>6, <1>7

\* A tunnelled command is in the ring exactly while the client waits for the
\* answer to it, and carries what the client asked for last.
TunnelInv ==
  /\ tunnel_state \in {"IDLE", "REQ", "SENT", "READY"}
  /\ tunnel \in [reqcmd : Tunnelled \cup {"none"}, payload : Nat] /\ tunnels \in Nat
  /\ \A e \in InRing : e.tunneled <=> e.cmd \in Tunnelled
  /\ \A e \in InRing : e.tunneled => tunnel_state = "SENT" /\ e.cmd = tunnel.reqcmd
  /\ tunnel_state = "SENT" => \E e \in InRing : e.tunneled
  /\ tunnel_state # "IDLE" => tunnel.payload = tunnels
  /\ \A a \in answers :
       cphase # "IDLE" /\ a.seq = lastctrlseq =>
         /\ a.cerr => Head1.tunneled
         /\ Head1.tunneled => a.content = tunnels

(* In other words.                                                         *)
LEMMA TunnelInvTunnel ==
  ASSUME TunnelInv
  PROVE  TunnelAnswerIsTheRequests /\ BusyIsInProgress
BY DEF TunnelInv, TunnelAnswerIsTheRequests, BusyIsInProgress, InRing

(* Queueing commands and asking for them.                                  *)
LEMMA TunnelQueued ==
  ASSUME Own \cap Tunnelled = {}, CommandsInv, TunnelInv,
         OwnCommand \/ LogChanged \/ TunnelRequested \/ lib_set_config \/ lib_send_tunneled
  PROVE  TunnelInv'
<1>1. /\ RingTypes /\ EachOnce /\ SLOG \in Cmds /\ SLOG \notin Tunnelled
      /\ Own \subseteq Cmds /\ Tunnelled \subseteq Cmds /\ (cphase # "IDLE" => cmdin # cmdout)
  BY RingSize, CommandsAssumption DEF CommandsInv, InFlight
<1>2. CASE OwnCommand \/ LogChanged
  <2>1. PICK c \in Own \cup {SLOG} : new_cmd(c, FALSE)
    BY <1>2 DEF OwnCommand, LogChanged
  <2>2. UNCHANGED <<cphase, lastctrlseq, ctrlseq, tunnel_state, tunnel, tunnels, answers>>
    BY <1>2 DEF OwnCommand, LogChanged, flight, share, client
  <2>3. tunnel_state' = "REQ" => tunnel'.reqcmd \in Tunnelled
    BY <1>1, <2>2 DEF RingTypes
  <2>4. c \in Cmds /\ c \notin Tunnelled
    BY <1>1
  <2>5. /\ cmdin # cmdout => Head1' = Head1
        /\ InRing' = IF \E e \in InRing : e.cmd = c THEN InRing
                     ELSE InRing \cup {[cmd |-> c, tunneled |-> FALSE]}
    BY <1>1, <2>1, <2>2, <2>3, <2>4, QueuedKeeps DEF flight
  <2>6. \A e \in InRing' : e \in InRing \/ (~e.tunneled /\ e.cmd \notin Tunnelled)
    BY <2>4, <2>5
  <2>7. InRing \subseteq InRing'
    BY <2>5
  <2> QED BY <1>1, <2>2, <2>5, <2>6, <2>7 DEF TunnelInv
<1>3. CASE TunnelRequested
  <2>1. /\ tunnel_state = "REQ" /\ tunnel_state' = "SENT" /\ new_cmd(tunnel.reqcmd, TRUE)
        /\ UNCHANGED <<cphase, lastctrlseq, ctrlseq, tunnel, tunnels, answers>>
    BY <1>3 DEF TunnelRequested, flight, client
  <2> DEFINE c == tunnel.reqcmd
             new == [cmd |-> c, tunneled |-> TRUE]
  <2>2. c \in Tunnelled /\ c \in Cmds
    BY <1>1, <2>1 DEF RingTypes
  <2>3. \A e \in InRing : ~e.tunneled /\ e.cmd # c
    BY <2>1, <2>2 DEF TunnelInv
  <2>4. /\ cmdin # cmdout => Head1' = Head1
        /\ InRing' = IF \E e \in InRing : e.cmd = c THEN InRing ELSE InRing \cup {new}
    BY <1>1, <2>1, <2>2, QueuedKeeps DEF flight
  <2>5. InRing' = InRing \cup {new} /\ new.tunneled /\ new.cmd = c
    BY <2>3, <2>4
  <2>6. tunnel.reqcmd' = c
    BY <2>1
  <2> HIDE DEF c, new
  <2> QED BY <1>1, <2>1, <2>2, <2>3, <2>4, <2>5, <2>6 DEF TunnelInv
<1>4. CASE lib_set_config \/ lib_send_tunneled
  <2>1. UNCHANGED <<queue, cphase, lastctrlseq, ctrlseq, answers>>
    BY <1>4 DEF lib_set_config, lib_send_tunneled, flight
  <2>2. tunnel_state' = "REQ" => tunnel'.reqcmd \in Tunnelled
    BY <1>1, <1>4 DEF lib_set_config, lib_send_tunneled, RingTypes
  <2>3. Head1' = Head1 /\ InRing' = InRing
    BY <1>1, <2>1, <2>2, RingStays DEF RingTypes
  <2>4. CASE lib_set_config
    BY <2>1, <2>3, <2>4 DEF TunnelInv, lib_set_config
  <2>5. CASE lib_send_tunneled
    <3>1. /\ tunnel_state \in {"IDLE", "READY"} /\ tunnel_state' = "REQ"
          /\ tunnel'.payload = tunnels' /\ tunnels' \in Nat
          /\ tunnel' \in [reqcmd : Tunnelled \cup {"none"}, payload : Nat]
      BY <2>5 DEF lib_send_tunneled, TunnelInv
    <3>2. \A e \in InRing : ~e.tunneled
      BY <3>1 DEF TunnelInv
    <3>3. cphase # "IDLE" => ~Head1.tunneled
      BY <1>1, <3>2, HeadInRing
    <3> QED BY <2>1, <2>3, <3>1, <3>2, <3>3 DEF TunnelInv
  <2> QED BY <1>4, <2>4, <2>5
<1> QED BY <1>2, <1>3, <1>4

(* Sending commands and answering them.                                    *)
LEMMA TunnelSent ==
  ASSUME Refused = {}, CommandsInv, CommandsInv', TunnelInv,
         Timeout \/ lib_send_next_cmd \/ CommandReceived
  PROVE  TunnelInv'
<1>1. /\ RingTypes /\ EachOnce /\ Numbers /\ (cphase # "IDLE" => cmdin # cmdout) /\ RingTypes'
  BY DEF CommandsInv, InFlight
<1>2. ctrlseq \in Nat /\ lastctrlseq \in Nat /\ lastctrlseq < ctrlseq
  BY <1>1 DEF RingTypes
<1>3. RingTypes' /\ (tunnel_state' = "REQ" => tunnel'.reqcmd \in Tunnelled)
  BY DEF CommandsInv, RingTypes
<1>4. ASSUME UNCHANGED queue
      PROVE  Head1' = Head1 /\ InRing' = InRing
  BY <1>1, <1>3, <1>4, RingStays DEF RingTypes
<1>5. CASE Timeout
  BY <1>4, <1>5 DEF Timeout, TunnelInv, share, client
<1>6. CASE lib_send_next_cmd
  <2>1. /\ UNCHANGED <<queue, tunnel_state, tunnel, tunnels>> /\ lastctrlseq' = ctrlseq
        /\ cphase = "NEED" \/ cmdin # cmdout
    BY <1>6 DEF lib_send_next_cmd, share, client, Numbered
  <2>2. Head1' = Head1 /\ InRing' = InRing /\ Head1 \in InRing
    BY <1>1, <1>4, <2>1, HeadInRing
  <2>3. ASSUME NEW a \in answers', a.seq = lastctrlseq'
        PROVE  /\ a.cerr => Head1.tunneled
               /\ Head1.tunneled => a.content = tunnels
    <3>1. a \notin answers
      BY <1>1, <1>2, <2>1, <2>3 DEF Numbers
    <3>2. PICK cerr \in {FALSE} \cup {Head1.tunneled \/ Head1.cmd \in Refused} :
             a = [seq |-> lastctrlseq', cmd |-> Head1.cmd, content |-> Content(Head1), cerr |-> cerr]
      BY <1>6, <2>3, <3>1 DEF lib_send_next_cmd
    <3>3. Head1.tunneled => tunnel.payload = tunnels
      BY <2>2 DEF TunnelInv
    <3>4. cerr => Head1.tunneled
      OBVIOUS
    <3> QED BY <3>2, <3>3, <3>4 DEF Content
  <2> QED BY <2>1, <2>2, <2>3 DEF TunnelInv
<1>7. CASE CommandReceived
  <2>1. PICK a \in answers :
          /\ answers' = answers \ {a} /\ UNCHANGED tunnels
          /\ IF cphase = "WAIT" /\ Acknowledges(a)
             THEN clear_cmsg /\ Answered(a)
             ELSE UNCHANGED <<queue, flight, share>>
    BY <1>7 DEF CommandReceived, client
  <2>2. CASE ~(cphase = "WAIT" /\ Acknowledges(a))
    BY <1>4, <2>1, <2>2 DEF TunnelInv, flight, share
  <2>3. CASE cphase = "WAIT" /\ Acknowledges(a)
    <3>1. clear_cmsg /\ Answered(a) /\ cmdin # cmdout /\ a.seq = lastctrlseq
      BY <1>1, <2>1, <2>3 DEF Acknowledges
    <3>2. cphase' = "IDLE" /\ InRing' = InRing \ {Head1} /\ Head1 \in InRing
      BY <1>1, <1>3, <3>1, ClearedKeeps, HeadInRing
    <3>3. (a.cerr => Head1.tunneled) /\ (Head1.tunneled => a.content = tunnels)
      BY <2>3, <3>1 DEF TunnelInv
    <3>4. CASE Head1.tunneled
      <4>1. \A e \in InRing' : ~e.tunneled
        <5> SUFFICES ASSUME NEW e \in InRing, e.tunneled PROVE e = Head1
          BY <3>2
        <5>1. e.cmd = Head1.cmd
          BY <3>2, <3>4 DEF TunnelInv
        <5> QED BY <1>1, <3>2, <5>1, AloneInRing
      <4>2. tunnel_state = "SENT" /\ tunnel.payload = tunnels
        BY <3>2, <3>4 DEF TunnelInv
      <4>3. \/ tunnel_state' = "IDLE" /\ UNCHANGED tunnel
            \/ tunnel_state' = "READY" /\ tunnel' = [tunnel EXCEPT !.payload = a.content]
        BY <3>1, <3>4, <4>2 DEF Answered, Refusal
      <4>4. /\ tunnel_state' = "READY" => tunnel'.payload = tunnels
            /\ tunnel' \in [reqcmd : Tunnelled \cup {"none"}, payload : Nat]
        BY <3>3, <3>4, <4>3 DEF TunnelInv
      <4> QED BY <2>1, <3>2, <4>1, <4>3, <4>4 DEF TunnelInv
    <3>5. CASE ~Head1.tunneled
      <4>1. UNCHANGED <<tunnel_state, tunnel>>
        BY <3>1, <3>3, <3>5 DEF Answered, share
      <4> QED BY <2>1, <3>2, <3>5, <4>1 DEF TunnelInv
    <3> QED BY <3>4, <3>5
  <2> QED BY <2>2, <2>3
<1> QED BY <1>5, <1>6, <1>7

\* What commands carry is what their client asked for.
ContentsInv ==
  /\ CommandsInv
  /\ ~Overlaps /\ ~Purges => LogInv
  /\ Own \cap Tunnelled = {} /\ Refused = {} /\ ~Purges => TunnelInv

(* The first state.                                                        *)
LEMMA ContentsBegin == ASSUME Init PROVE ContentsInv
<1>1. CommandsInv
  BY CommandsBegin
<1>2. InRing = {}
  <2>1. Len(Queue) = 0
    BY <1>1, RingShape DEF CommandsInv, Init, Shape
  <2> QED BY <2>1 DEF InRing
<1> QED BY <1>1, <1>2 DEF Init, ContentsInv, LogInv, TunnelInv

(* Every step keeps it.                                                    *)
LEMMA ContentsSteps ==
  ASSUME ContentsInv, [Next]_vars
  PROVE  ContentsInv'
<1>1. CommandsInv /\ CommandsInv'
  BY CommandsSteps DEF ContentsInv
<1>2. CASE abort_cmsg \/ purge_cmdq
  BY <1>1, <1>2 DEF abort_cmsg, purge_cmdq, ContentsInv
<1>3. CASE UNCHANGED vars
  <2>1. UNCHANGED <<queue, cphase, ctrlseq, lastctrlseq, log, newlog, log_changed,
                    tunnel_state, tunnel, tunnels, q330log, answers>>
    BY <1>3 DEF vars, flight, share, client
  <2>2. Head1' = Head1 /\ InRing' = InRing
    BY <1>1, <2>1, RingStays DEF CommandsInv, RingTypes
  <2> QED BY <1>1, <2>1, <2>2 DEF ContentsInv, LogInv, TunnelInv
<1> QED BY <1>1, <1>2, <1>3, LogQueued, LogSent, TunnelQueued, TunnelSent
      DEF Next, ContentsInv

(* It says what the properties say.                                        *)
LEMMA ContentsProperties ==
  ASSUME ContentsInv
  PROVE  /\ ~Overlaps /\ ~Purges => LogIsKnown
         /\ Own \cap Tunnelled = {} /\ Refused = {} /\ ~Purges =>
              TunnelAnswerIsTheRequests /\ BusyIsInProgress
BY LogInvLog, TunnelInvTunnel DEF ContentsInv

(* A client that changes the configuration only when the change before is  *)
(* done knows it: then it is the one asked for and the one the Q330 works  *)
(* with, however often C1_SLOG is sent and whatever is lost.               *)
THEOREM ConfigurationIsKnown == ~Overlaps /\ ~Purges /\ Spec => []LogIsKnown
<1>1. Init => ContentsInv
  BY ContentsBegin
<1>2. ContentsInv /\ [Next]_vars => ContentsInv'
  BY ContentsSteps
<1>3. CASE ~Overlaps /\ ~Purges
  <2>1. ContentsInv => LogIsKnown
    BY <1>3, ContentsProperties
  <2> QED BY <1>1, <1>2, <2>1, PTL DEF Spec
<1> QED BY <1>3

(* Where the thread gives itself no command that clients tunnel, and none  *)
(* of its own is refused, what a client gets is the answer to its last     *)
(* request, and the tunnel is not busy but with a command in the ring.     *)
THEOREM TunnelIsTheClients ==
  Own \cap Tunnelled = {} /\ Refused = {} /\ ~Purges /\ Spec =>
    []TunnelAnswerIsTheRequests /\ []BusyIsInProgress
<1>1. Init => ContentsInv
  BY ContentsBegin
<1>2. ContentsInv /\ [Next]_vars => ContentsInv'
  BY ContentsSteps
<1>3. CASE Own \cap Tunnelled = {} /\ Refused = {} /\ ~Purges
  <2>1. ContentsInv => TunnelAnswerIsTheRequests /\ BusyIsInProgress
    BY <1>3, ContentsProperties
  <2> QED BY <1>1, <1>2, <2>1, PTL DEF Spec
<1> QED BY <1>3
=============================================================================
