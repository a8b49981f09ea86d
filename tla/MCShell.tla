------------------------------ MODULE MCShell ------------------------------
(* Instance of Shell for TLC: the lines that are typed.                    *)
EXTENDS Arithmetic

Num(sign, digits) == [op |-> "num", sign |-> sign, digits |-> digits]
Node(op, l, r) == [op |-> op, l |-> l, r |-> r]
Neg(l) == [op |-> "neg", l |-> l]

\* Precedence, grouping and order in both shapes of two operators; wrapping, the
\* smallest int and its quotient, division by zero, signs, and the unary
\* minus of a group, alone and in a product
Leaves == <<Num(<<>>, <<"9">>), Num(<<>>, <<"2">>), Num(<<"+">>, <<"4">>), Num(<<>>, <<"6", "4">>),
            Num(<<"-">>, <<"7">>), Num(<<"-">>, <<"1">>), Num(<<>>, <<"0">>)>>
Simple == <<Node("+", 1, 2), Node("-", 1, 2), Node("*", 1, 2), Node("/", 1, 2)>>
Nested(op, l) == [k \in 1 .. 4 |-> IF l THEN Node(op, k + 7, 3) ELSE Node(op, 1, k + 7)]
Expressions ==
  Leaves \o Simple \o Nested("-", TRUE) \o Nested("/", TRUE)
  \o Nested("-", FALSE) \o Nested("/", FALSE)
  \o <<Node("/", 4, 6), Node("/", 5, 2), Node("/", 5, 7), Node("-", 5, 4)>>
  \o <<Neg(2), Node("*", 1, 32)>>

\* The names of the commands, lines with and without blanks and arguments, and one
\* that is longer than the buffer, of one word that is longer than its array
Words == {<<"e", " ", "p">>, <<"p">>, <<"k">>, <<"m">>, <<"h">>, <<"s">>, <<"z">>,
          <<" ", "f", " ", " ", "p", "e", "p", " ", "p">>, [i \in 1 .. 10 |-> "c"]}
Lines0 == Words \cup {<<"c", " ">> \o Text[i] : i \in 12 .. Len(Trees)}

Texts == {<<>>, <<"x", "x", "x", NL, "x">>}
=============================================================================
