------------------------------ MODULE MCSnake ------------------------------
(* Snake on a board of 3 by 3 cells.                                        *)
EXTENDS Snake

MCStart == <<3, 2>>
=============================================================================
