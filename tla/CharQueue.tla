----------------------------- MODULE CharQueue -----------------------------
(***************************************************************************)
(* What the keyboard driver does for the shell: characters arrive in the   *)
(* order they were typed, none twice and none altered; a character typed   *)
(* while Capacity of them are pending is dropped, and no other.            *)
(***************************************************************************)
EXTENDS Naturals, Sequences

CONSTANTS Chars, Capacity

VARIABLES
  queue,
  lost    \* flips with every character dropped

Init == queue = <<>> /\ lost = FALSE

Put(c) == Len(queue) < Capacity /\ queue' = Append(queue, c) /\ UNCHANGED lost

Drop == Len(queue) = Capacity /\ lost' = ~lost /\ UNCHANGED queue

Get == queue # <<>> /\ queue' = Tail(queue) /\ UNCHANGED lost

Next == (\E c \in Chars : Put(c)) \/ Drop \/ Get

Spec == Init /\ [][Next]_<<queue, lost>>
=============================================================================
