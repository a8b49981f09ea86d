-------------------------------- MODULE Calc --------------------------------
(***************************************************************************)
(* The shell's calculator, src/shell/shell.c: cl_prim, cl_term, cl_eval and *)
(* int_to_ascii, and what its comment promises ("recursive-descent parser; *)
(* integers, +  -  *  /  ( )  and unary minus; * / before + -").           *)
(*                                                                         *)
(* A text is a sequence of characters.  The build has no optimisation, so  *)
(* int wraps, and a quotient that does not fit is a divide error.          *)
(***************************************************************************)
EXTENDS Integers, SequencesExt

CONSTANT IntHalf  \* an int is in -IntHalf .. IntHalf - 1 (2^31)

\* An int has at most ten digits.
ASSUME CalcAssumption == IntHalf \in Nat \ 0 .. 9 /\ IntHalf - 1 <= 2147483647

Numerals == <<"0", "1", "2", "3", "4", "5", "6", "7", "8", "9">>
Digits == {Numerals[i] : i \in 1 .. 10}
Value(d) == (CHOOSE i \in 1 .. 10 : Numerals[i] = d) - 1

Int32(n) == ((n + IntHalf) % (2 * IntHalf)) - IntHalf
Truncated(n, d) ==
  LET abs(m) == IF m < 0 THEN -m ELSE m
      q == abs(n) \div abs(d)
  IN  IF (n < 0) = (d < 0) THEN q ELSE -q

\* What the parser has: a value, the next position, and if a division trapped.
Result(v, p, trap) == [v |-> Int32(v), p |-> p, trap |-> trap]

At(s, p) == IF p <= Len(s) THEN s[p] ELSE "end"

\* The first position from p on that holds none of a set of characters
Past(s, p, chars) ==
  CHOOSE q \in p .. Len(s) + 1 : At(s, q) \notin chars /\ \A i \in p .. q - 1 : s[i] \in chars

Skip(s, p) == Past(s, p, {" "})

\* The digits up to q, as far as an int holds them
Number(s, p) ==
  LET q == Past(s, p, Digits)
      v[i \in p - 1 .. q - 1] == IF i < p THEN 0 ELSE Int32(v[i - 1] * 10 + Value(s[i]))
  IN  Result(v[q - 1], q, FALSE)

Applied(op, v, r) ==
  CASE op = "+" -> v + r [] op = "-" -> v - r [] op = "*" -> v * r
    [] op = "/" -> IF r = 0 THEN 0 ELSE Truncated(v, r)

\* The divide error of idiv
Overflows(op, v, r) == op = "/" /\ v = -IntHalf /\ r = -1

Combined(op, l, r) ==
  Result(Applied(op, l.v, r.v), r.p, l.trap \/ r.trap \/ Overflows(op, l.v, r.v))

\* The functions of the parser call each other: parse[<<rule, l>>] is what a rule makes
\* of the text from l.p on; "factors" and "summands" are the loops of cl_term and
\* cl_eval, which have l.v on the left.
Rules == {"cl_prim", "cl_term", "factors", "cl_eval", "summands"}
Parsed(s) == [v : Int, p : 1 .. Len(s) + 1, trap : BOOLEAN]
From(p) == Result(0, p, FALSE)

\* A group, or digits with a sign.  A sign before a group has no digits: 0.
cl_prim(parse, s, p) ==
  LET q == Skip(s, p)
  IN  IF At(s, q) = "("
        THEN LET inner == parse[<<"cl_eval", From(q + 1)>>]
                 close == Skip(s, inner.p)
             IN  [inner EXCEPT !.p = IF At(s, close) = ")" THEN close + 1 ELSE close]
        ELSE LET signed == At(s, q) \in {"-", "+"}
                 n == Number(s, Skip(s, IF signed THEN q + 1 ELSE q))
             IN  [n EXCEPT !.v = Int32(IF At(s, q) = "-" THEN -@ ELSE @)]

\* Mutant: the operators of a term are applied from right to left.
cl_termFromRight(parse, s, l) ==
  LET q == Skip(s, l.p)
  IN  IF At(s, q) \in {"*", "/"}
        THEN Combined(s[q], l, parse[<<"factors", parse[<<"cl_prim", From(q + 1)>>]>>])
        ELSE [l EXCEPT !.p = q]

cl_term(parse, s, l) ==
  LET q == Skip(s, l.p)
  IN  IF At(s, q) \in {"*", "/"}
        THEN parse[<<"factors", Combined(s[q], l, parse[<<"cl_prim", From(q + 1)>>])>>]
        ELSE [l EXCEPT !.p = q]

cl_eval(parse, s, l) ==
  LET q == Skip(s, l.p)
  IN  IF At(s, q) \in {"+", "-"}
        THEN parse[<<"summands", Combined(s[q], l, parse[<<"cl_term", From(q + 1)>>])>>]
        ELSE [l EXCEPT !.p = q]

Ruled(parse, s, rule, l) ==
  CASE rule = "cl_prim" -> cl_prim(parse, s, l.p)
    [] rule = "cl_term" -> parse[<<"factors", parse[<<"cl_prim", l>>]>>]
    [] rule = "factors" -> cl_term(parse, s, l)
    [] rule = "cl_eval" -> parse[<<"summands", parse[<<"cl_term", l>>]>>]
    [] rule = "summands" -> cl_eval(parse, s, l)

Calculated(s) ==
  LET parse[call \in Rules \X Parsed(s)] == Ruled(parse, s, call[1], call[2])
  IN  parse[<<"cl_eval", From(1)>>]

\* The decimal text of a number
Tens == <<1, 10, 100, 1000, 10000, 100000, 1000000, 10000000, 100000000, 1000000000>>
Written(n) ==
  LET width == CHOOSE w \in 1 .. 10 : (w = 1 \/ Tens[w] <= n) /\ (w = 10 \/ n < Tens[w + 1])
  IN  [i \in 1 .. width |-> Numerals[((n \div Tens[width + 1 - i]) % 10) + 1]]

\* The smallest int has no negation: its remainder is no digit.
int_to_ascii(n) ==
  IF n = -IntHalf THEN <<"-", "?">>
  ELSE IF n < 0 THEN <<"-">> \o Written(-n) ELSE Written(n)
=============================================================================
