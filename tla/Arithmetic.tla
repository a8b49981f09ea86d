----------------------------- MODULE Arithmetic -----------------------------
(***************************************************************************)
(* What calc promises, over expression trees: the comment above its parser *)
(* in src/shell/shell.c ("recursive-descent parser; integers, +  -  *  /   *)
(* ( ) and unary minus; * / before + -").                                  *)
(*                                                                         *)
(* Trees holds the nodes of the expressions, each after its operands: a    *)
(* number with a sign, an operator of two, or the unary minus of a group.  *)
(***************************************************************************)
EXTENDS Shell

CONSTANT Trees

Operators == {"+", "-", "*", "/"}
Leaf(t) ==
  /\ t.op = "num" /\ t.sign \in {<<>>, <<"-">>, <<"+">>}
  /\ t.digits \in Seq(Digits) /\ t.digits # <<>>

ASSUME TreesAssumption ==
  /\ Trees \in Seq({Trees[i] : i \in DOMAIN Trees})
  /\ \A i \in DOMAIN Trees :
       \/ Leaf(Trees[i])
       \/ Trees[i] \in [op : Operators, l : 1 .. i - 1, r : 1 .. i - 1]
       \/ Trees[i] \in [op : {"neg"}, l : 1 .. i - 1]

Binds(t) == CASE t.op \in {"num", "neg"} -> 3 [] t.op \in {"*", "/"} -> 2 [] OTHER -> 1

\* The text with no more parentheses than needed, and those of a negated group
Text[i \in DOMAIN Trees] ==
  LET t == Trees[i]
      Within(j, bind) == IF Binds(Trees[j]) < bind THEN <<"(">> \o Text[j] \o <<")">> ELSE Text[j]
  IN  IF t.op = "num" THEN t.sign \o t.digits
      ELSE IF t.op = "neg" THEN <<"-">> \o Within(t.l, 4)
      ELSE Within(t.l, Binds(t)) \o <<t.op>> \o Within(t.r, Binds(t) + 1)

\* The number a numeral stands for
Stands(s) ==
  LET signed == s[1] \in {"-", "+"}
      v[i \in 0 .. Len(s)] == IF i = 0 \/ (i = 1 /\ signed) THEN 0 ELSE 10 * v[i - 1] + Value(s[i])
  IN  IF s[1] = "-" THEN -v[Len(s)] ELSE v[Len(s)]

\* What int arithmetic makes of a tree, where a division by zero is 0; whether the
\* smallest int is divided by -1; and whether no group in it has a unary minus
Meant[i \in DOMAIN Trees] ==
  LET t == Trees[i]
      l == Meant[t.l]
      r == Meant[t.r]
  IN  IF t.op = "num"
        THEN [v |-> Int32(Stands(t.sign \o t.digits)), trap |-> FALSE, plain |-> TRUE]
      ELSE IF t.op = "neg" THEN [v |-> Int32(-l.v), trap |-> l.trap, plain |-> FALSE]
      ELSE [v |-> Int32(CASE t.op = "+" -> l.v + r.v [] t.op = "-" -> l.v - r.v
                          [] t.op = "*" -> l.v * r.v
                          [] t.op = "/" -> IF r.v = 0 THEN 0 ELSE Truncated(l.v, r.v)),
            trap |-> l.trap \/ r.trap \/ (t.op = "/" /\ l.v = -IntHalf /\ r.v = -1),
            plain |-> l.plain /\ r.plain]

\* calc has printed the value of the tree, or the quotient that is no int has halted
\* the machine, and nothing else has.  (The smallest int is left out: int_to_ascii
\* has no text for it.)
Answered(i) ==
  /\ mode = "halted" <=> Meant[i].trap
  /\ ~Meant[i].trap /\ Meant[i].v # -IntHalf => Stands(ran.shown) = Meant[i].v

\* calc prints the value of the expression, as int arithmetic has it: that of the
\* tree whose text it is, unless a group in it has a unary minus.
CalcIsRight ==
  ran.words[1] = <<"c">> =>
    \A i \in DOMAIN Trees : ran.words[2] = Text[i] /\ Meant[i].plain => Answered(i)

\* What the comment above the parser says (shell.c:673-676): it supports integers,
\* + - * / ( ) and unary minus.  A minus before a group has no digits after it and
\* gives 0 (shell.c:692-699); run shell_negated shows it.
CalcAsPromised ==
  ran.words[1] = <<"c">> => \A i \in DOMAIN Trees : ran.words[2] = Text[i] => Answered(i)
=============================================================================
