------------------------------- MODULE Matrix -------------------------------
(***************************************************************************)
(* One column of the matrix rain, run_matrix in src/shell/shell.c.  The    *)
(* columns do not depend on each other.  A column is a record of the       *)
(* arrays' elements and of the column's cells on the screen: the colour of *)
(* a character of the rain, or "none": a blank, or what a redraw has put   *)
(* there.  A redraw paints the view of the console, which need not be      *)
(* blank: it has the tasks' marks in row 0, older lines when it is moved   *)
(* back, and the row of a task that was preempted in its redraw.  The rain *)
(* never looks at a cell and does the same whatever stands there.          *)
(***************************************************************************)
EXTENDS Integers, FiniteSets

CONSTANTS
  Height,   \* 25
  Lengths,  \* 5 .. 16
  Speeds    \* 1 .. 3

ASSUME MatrixAssumption ==
  /\ Height \in Nat \ {0} /\ Lengths \subseteq Nat \ 0 .. 3 /\ Speeds \subseteq Nat \ {0}

Lines == 0 .. Height - 1

Dry == [y_pos |-> -1, length |-> 0, speed |-> 0, count |-> 0,
        cells |-> [i \in Lines |-> "none"]]

\* The attribute of a cell: what is not the rain's does not become it.
Coloured(cells, i, colour) ==
  IF i \in Lines /\ cells[i] # "none" THEN [cells EXCEPT ![i] = colour] ELSE cells

Drawn(cells, i, colour) ==
  IF i \in Lines THEN [cells EXCEPT ![i] = colour] ELSE cells

\* A drop that has reached line y: its head, two darker shades, and its end
Painted(cells, y, length) ==
  Drawn(Coloured(Coloured(Drawn(cells, y, "white"), y - 1, "light"), y - 3, "dark"),
        y - length, "none")

\* Mutant: the drop ends a line before its tail has left the screen.
LeftEarly(y, length) == y - length >= Height - 1
Left(y, length) == y - length >= Height

Started(c, length, speed) ==
  [c EXCEPT !.y_pos = 0, !.length = length, !.speed = speed, !.count = 0]

\* The drop falls one line, from which it is painted, and may leave the screen.
Fallen(c) ==
  [c EXCEPT !.count = 0,
            !.cells = Painted(@, c.y_pos, c.length),
            !.y_pos = IF Left(c.y_pos + 1, c.length) THEN -1 ELSE c.y_pos + 1]

\* One pass of the loop: the column may start, waits, or falls.
Passes(c) ==
  IF c.y_pos = -1 THEN {c} \cup {Started(c, l, s) : l \in Lengths, s \in Speeds}
  ELSE IF c.count + 1 < c.speed THEN {[c EXCEPT !.count = @ + 1]}
  ELSE {Fallen(c)}

\* Some lines are redrawn from the view of the console.
Redrawn(c, lines) ==
  [c EXCEPT !.cells = [i \in Lines |-> IF i \in lines THEN "none" ELSE @[i]]]

\* What a column shows of the rain: nothing when it is dry; otherwise characters only
\* in the drop's own lines, at most length of them, white only where its head was last.
Rains(c) ==
  LET shown == {i \in Lines : c.cells[i] # "none"}
      drop == IF c.y_pos = -1 THEN {} ELSE c.y_pos - c.length .. c.y_pos - 1
  IN  /\ shown \subseteq drop
      /\ \A i \in shown : c.cells[i] = "white" <=> i = c.y_pos - 1
      /\ \A i \in shown : i < c.y_pos - 3 => c.cells[i] = "dark"
=============================================================================
