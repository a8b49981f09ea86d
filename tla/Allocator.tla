----------------------------- MODULE Allocator -----------------------------
(***************************************************************************)
(* What kmalloc and kfree promise their callers: a pointer to as many      *)
(* bytes as were asked for, inside the heap, that no other live pointer    *)
(* shares, until it is freed.  Between two pieces there is room for the    *)
(* header kfree finds in front of a pointer.                               *)
(***************************************************************************)
EXTENDS Integers

CONSTANTS HEAP_SIZE, HDR, Requests

VARIABLE owned  \* the live pointers, with the bytes asked for

Disjoint(p, n, q, m) == p + n + HDR <= q \/ q + m + HDR <= p

Init == owned = [p \in {} |-> 0]

Grant(p, n) ==
  /\ p \notin DOMAIN owned
  /\ HDR <= p /\ p + n <= HEAP_SIZE
  /\ \A q \in DOMAIN owned : Disjoint(p, n, q, owned[q])
  /\ owned' = [q \in DOMAIN owned \cup {p} |-> IF q = p THEN n ELSE owned[q]]

Release(p) ==
  owned' = [q \in DOMAIN owned \ {p} |-> owned[q]]

Next == \/ \E p \in 0 .. HEAP_SIZE, n \in Requests : Grant(p, n)
        \/ \E p \in DOMAIN owned : Release(p)

Spec == Init /\ [][Next]_owned
=============================================================================
