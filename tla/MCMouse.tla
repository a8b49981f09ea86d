------------------------------ MODULE MCMouse ------------------------------
(* Instance of Mouse for TLC: a screen of 4 by 3.                          *)
EXTENDS Mouse

\* To the right, the wheel down; left past the edge and up, the wheel up
Moves == {[dx |-> 3, dy |-> 0, dz |-> 1], [dx |-> -256, dy |-> 3, dz |-> -1]}
=============================================================================
