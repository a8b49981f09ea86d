----------------------------- MODULE Scrollback -----------------------------
(***************************************************************************)
(* What the VGA console promises: the live lines, the lines that have      *)
(* scrolled off the top, oldest first, of which the last History can be    *)
(* brought back, and a view that is moved line by line within those.       *)
(*                                                                         *)
(* Background tasks write into the top line at any time.                   *)
(***************************************************************************)
EXTENDS Integers, Sequences

CONSTANTS
  MAX_ROWS, MAX_COLS, History,
  Chars,   \* what is printed
  Marks,   \* what tasks write
  Blank

VARIABLES
  live,  \* the lines on the screen, <<line, column>> |-> character
  old,   \* the lines scrolled off, oldest first
  pos,   \* where the next character goes
  back   \* how many lines the view is moved back

vars == <<live, old, pos, back>>

Rows == 0 .. MAX_ROWS - 1
Cols == 0 .. MAX_COLS - 1
BlankLine == [c \in Cols |-> Blank]
End == MAX_ROWS * MAX_COLS

Init ==
  /\ live = [r \in Rows |-> BlankLine]
  /\ old = <<>> /\ pos = 0 /\ back = 0

SetCell(at, ch) == live' = [live EXCEPT ![at \div MAX_COLS][at % MAX_COLS] = ch]

Put(ch) == /\ pos < End /\ pos' = pos + 1
           /\ SetCell(pos, ch)
           /\ UNCHANGED <<old, back>>

Newline == /\ pos < End
           /\ pos' = (pos \div MAX_COLS + 1) * MAX_COLS
           /\ UNCHANGED <<live, old, back>>

Rubout == /\ pos \in 1 .. End - 1
          /\ pos' = pos - 1
          /\ SetCell(pos - 1, Blank)
          /\ UNCHANGED <<old, back>>

Mark(col, ch) == /\ live' = [live EXCEPT ![0][col] = ch]
                 /\ UNCHANGED <<old, pos, back>>

\* The top line goes to the old ones, of which History are kept.
Scroll ==
  /\ pos >= End
  /\ pos' = pos - MAX_COLS
  /\ LET all == Append(old, live[0])
     IN  old' = IF Len(all) > History THEN Tail(all) ELSE all
  /\ live' = [r \in Rows |-> IF r + 1 \in Rows THEN live[r + 1] ELSE BlankLine]
  /\ UNCHANGED back

\* Clearing erases line after line, then shows the live screen from its start.
Erase(r) == live' = [live EXCEPT ![r] = BlankLine] /\ UNCHANGED <<old, pos, back>>

Home == pos' = 0 /\ back' = 0 /\ UNCHANGED <<live, old>>

MoveView == /\ back' \in {back - 1, back + 1} \cap 0 .. Len(old)
            /\ UNCHANGED <<live, old, pos>>

Next == \/ \E ch \in Chars : Put(ch)
        \/ Newline \/ Rubout \/ Scroll \/ Home \/ MoveView
        \/ \E c \in Cols, ch \in Marks : Mark(c, ch)
        \/ \E r \in Rows : Erase(r)

Spec == Init /\ [][Next]_vars
=============================================================================
