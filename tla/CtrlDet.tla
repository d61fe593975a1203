------------------------------- MODULE CtrlDet -------------------------------
(***************************************************************************)
(* Control detectors (libctrldet.c, read_control_detector of libtokens.c): *)
(* an expression over detectors, calibrations and communication events     *)
(* comes as a list of tokens, is expanded once into a list of operations   *)
(* on temporaries, and is evaluated again and again; while it is true the  *)
(* channel is in an event.                                                 *)
(*                                                                         *)
(* A parenthesis that begins with NOT is the negation of all of it: the    *)
(* expressions here have parentheses of their own around the operand of a  *)
(* NOT and around a NOT that is an operand.                                *)
(***************************************************************************)
EXTENDS Integers, Sequences, SequencesExt

CONSTANTS
  Inputs,               \* detectors, calibrations, communication events
  Depth                 \* of the expressions: bound

Operators == {"AND", "OR", "EOR"}
DONE == "DONE"

CtrlDetAssumption ==
  /\ Inputs # {} /\ Inputs \cap (Operators \cup {"NOT", "LPAR", "RPAR", DONE}) = {}
  /\ Depth \in Nat

VARIABLES
  tree,                 \* the expression that is meant
  pdetop,               \* the operations it was expanded to
  on,                   \* which inputs are on
  ison,                 \* the value
  gen_on                \* sticky, for the channel

vars == <<tree, pdetop, on, ison, gen_on>>

-----------------------------------------------------------------------------
(* Expressions: an input, <<"NOT", e>> or <<operator, e, f>>.              *)

RECURSIVE Trees(_)
Trees(n) ==
  {<<i>> : i \in Inputs}
    \cup IF n = 0 THEN {}
         ELSE {<<"NOT", e>> : e \in Trees(n - 1)}
                \cup {<<o, e, f>> : o \in Operators, e \in Trees(n - 1), f \in Trees(n - 1)}

RECURSIVE Value(_, _)
Value(e, env) ==
  CASE e[1] = "NOT" -> ~Value(e[2], env)
    [] e[1] = "AND" -> Value(e[2], env) /\ Value(e[3], env)
    [] e[1] = "OR"  -> Value(e[2], env) \/ Value(e[3], env)
    [] e[1] = "EOR" -> Value(e[2], env) # Value(e[3], env)
    [] OTHER        -> env[e[1]]

\* as tokens, with parentheses only where the order of the operators needs them:
\* AND and EOR before OR, and from left to right
Paren(tokens) == <<"LPAR">> \o tokens \o <<"RPAR">>

RECURSIVE Tokens(_)
Tokens(e) ==
  LET Left(f)  == IF f[1] = "NOT" \/ (f[1] = "OR" /\ e[1] # "OR")
                  THEN Paren(Tokens(f)) ELSE Tokens(f)
      Right(f) == IF f[1] \in Inputs \/ (e[1] = "OR" /\ f[1] \in {"AND", "EOR"})
                  THEN Tokens(f) ELSE Paren(Tokens(f))
  IN  CASE e[1] = "NOT"       -> <<"NOT">> \o (IF e[2][1] \in Inputs THEN Tokens(e[2])
                                               ELSE Paren(Tokens(e[2])))
        [] e[1] \in Operators -> Left(e[2]) \o <<e[1]>> \o Right(e[3])
        [] OTHER              -> e

-----------------------------------------------------------------------------
(* The parser.  It works on [s |-> the tokens, i |-> the place of the next *)
(* one, ops |-> the operations so far, ret |-> what the last call returned]*)
(* where ret is an input, a temporary (the number of the operation that    *)
(* sets it) or DONE.                                                       *)

Next_oke(p) == IF p.i > Len(p.s) THEN DONE ELSE p.s[p.i]

token(p) == [p EXCEPT !.i = @ + 1]

\* the operation that sets the next temporary
stackdetop(p, tos, nos, op) ==
  [p EXCEPT !.ops = Append(@, [op |-> op, tos |-> tos, nos |-> nos]),
            !.ret = [temp |-> Len(p.ops) + 1]]

\* an input by its name, a temporary by its number
Input(name) == [input |-> name]
Nothing == [none |-> TRUE]

RECURSIVE unary(_, _), factor(_), express(_), term(_), MoreFactors(_), MoreTerms(_)

unary(p, forcex) ==
  CASE Next_oke(p) = DONE -> [p EXCEPT !.ret = Nothing]
    [] Next_oke(p) = "NOT" ->
         LET r == IF forcex THEN express(token(p)) ELSE factor(token(p))
         IN  IF r.ret = Nothing THEN r ELSE stackdetop(r, r.ret, Nothing, "NOT")
    [] OTHER ->
         IF forcex THEN express(p) ELSE [token(p) EXCEPT !.ret = Input(Next_oke(p))]

factor(p) ==
  CASE Next_oke(p) = DONE -> [p EXCEPT !.ret = Nothing]
    [] Next_oke(p) = "LPAR" ->
         LET r == unary(token(p), TRUE)
         IN  IF r.ret # Nothing /\ Next_oke(r) = "RPAR" THEN token(r)
             ELSE [r EXCEPT !.ret = Nothing]
    [] OTHER -> unary(p, FALSE)

MoreFactors_fault(p) ==
  IF Next_oke(p) \notin {"AND", "EOR"} THEN p
  ELSE LET r == term(token(p))
       IN  IF r.ret = Nothing THEN r
           ELSE MoreFactors(stackdetop(r, p.ret, r.ret, Next_oke(p)))

MoreFactors(p) ==
  IF Next_oke(p) \notin {"AND", "EOR"} THEN p
  ELSE LET r == factor(token(p))
       IN  IF r.ret = Nothing THEN MoreFactors([r EXCEPT !.ret = p.ret])
           ELSE MoreFactors(stackdetop(r, p.ret, r.ret, Next_oke(p)))

term(p) == LET r == factor(p) IN IF r.ret = Nothing THEN r ELSE MoreFactors(r)

MoreTerms(p) ==
  IF Next_oke(p) # "OR" THEN p
  ELSE LET r == term(token(p))
       IN  IF r.ret = Nothing THEN MoreTerms([r EXCEPT !.ret = p.ret])
           ELSE MoreTerms(stackdetop(r, p.ret, r.ret, "OR"))

express(p) == LET r == term(p) IN IF r.ret = Nothing THEN r ELSE MoreTerms(r)

\* an expression without an operator gets an operation of its own
Expanded(tokens) ==
  LET r == express([s |-> tokens, i |-> 1, ops |-> << >>, ret |-> Nothing])
  IN  IF r.ops = << >> THEN stackdetop(r, r.ret, Nothing, DONE).ops ELSE r.ops

-----------------------------------------------------------------------------
(* The evaluation.                                                         *)

Operand(x, temps) ==
  CASE DOMAIN x = {"temp"} -> temps[x.temp]
    [] DOMAIN x = {"input"} -> on[x.input]
    [] OTHER -> FALSE

Result(op, b1, b2) ==
  CASE op = "AND" -> b1 /\ b2 [] op = "OR" -> b1 \/ b2 [] op = "EOR" -> b1 # b2
    [] op = "NOT" -> ~b1 [] OTHER -> b1

\* the last operation is the value
Evaluated ==
  LET Step(temps, o) == Append(temps, Result(o.op, Operand(o.tos, temps), Operand(o.nos, temps)))
  IN  Last(FoldLeft(Step, << >>, pdetop))

Init ==
  /\ tree \in Trees(Depth)
  /\ pdetop = Expanded(Tokens(tree))
  /\ on \in [Inputs -> BOOLEAN]
  /\ ison = FALSE /\ gen_on = FALSE

evaluate_detector_stack ==
  /\ ison' = Evaluated /\ gen_on' = (gen_on \/ ison')
  /\ UNCHANGED <<tree, pdetop, on>>

\* a detector, a calibration or a communication event comes or goes
Change ==
  /\ \E i \in Inputs : on' = [on EXCEPT ![i] = ~@]
  /\ UNCHANGED <<tree, pdetop, ison, gen_on>>

Next == evaluate_detector_stack \/ Change

Spec == Init /\ [][Next]_vars

-----------------------------------------------------------------------------
(* What must hold.                                                         *)

\* libctrldet.c: an operation works on inputs and on temporaries set before it
CtrlDetTypeOK ==
  /\ ison \in BOOLEAN /\ gen_on \in BOOLEAN
  /\ \A n \in DOMAIN pdetop : \A x \in {pdetop[n].tos, pdetop[n].nos} :
       \/ x = Nothing
       \/ DOMAIN x = {"input"} /\ x.input \in Inputs
       \/ DOMAIN x = {"temp"} /\ x.temp \in 1..(n - 1)

\* libctrldet.c: whatever the expression, its operations evaluate to its value
EvaluatesExpression == [][evaluate_detector_stack => ison' = Value(tree, on)]_vars
=============================================================================
