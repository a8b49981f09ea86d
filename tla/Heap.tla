-------------------------------- MODULE Heap --------------------------------
(***************************************************************************)
(* The kernel heap, src/memory/mem.c: a list of blocks that tiles the      *)
(* heap, a first-fit kmalloc that splits, a kfree that coalesces.  Only    *)
(* thread 0 calls them (create_process and the shell's memtest), so they   *)
(* do not interleave; each iteration of their loops is a step.             *)
(*                                                                         *)
(* Addresses are offsets from HEAP_START.  A block is named by the address *)
(* of its header; the list's headers are the domain of size, free, next.   *)
(***************************************************************************)
EXTENDS Integers

CONSTANTS
  HEAP_SIZE,  \* HEAP_END - HEAP_START
  HDR,        \* sizeof(block_t)
  U32,        \* 2^32: kmalloc's argument and arithmetic are u32
  Requests    \* the sizes callers ask for

ASSUME HeapAssumption ==
  /\ HDR \in Nat \ {0}
  /\ HEAP_SIZE \in Nat /\ HEAP_SIZE > HDR
  /\ U32 \in Nat
  /\ Requests \subseteq 0 .. U32 - 4  \* no caller is near the u32 limit

VARIABLES
  size, free, next,  \* block_t, by header address
  pc,                \* "idle", in kmalloc's loop, in kfree's loop
  need, asked,       \* kmalloc's aligned size, and its argument
  curr,              \* the cursor of either loop
  owned              \* the callers' pointers, with the bytes they asked for

vars == <<size, free, next, pc, need, asked, curr, owned>>

NULL == -1
Blocks == DOMAIN size
End(a) == a + HDR + size[a]

\* init_mem: one free block
Init ==
  /\ size = [a \in {0} |-> HEAP_SIZE - HDR]
  /\ free = [a \in {0} |-> TRUE]
  /\ next = [a \in {0} |-> NULL]
  /\ pc = "idle" /\ need = 0 /\ asked = 0 /\ curr = NULL
  /\ owned = [p \in {} |-> 0]

\* (size + 3) & ~3 on u32
Wrapped(n) == IF n < U32 THEN n ELSE n - U32
\* Mutant: rounds down.
RoundedDown(n) == (Wrapped(n) \div 4) * 4
Aligned(n) == (Wrapped(n + 3) \div 4) * 4

-----------------------------------------------------------------------------
(* kmalloc                                                                 *)

Kmalloc(n) ==
  /\ pc = "idle" /\ n # 0
  /\ asked' = n /\ need' = Aligned(n)
  /\ curr' = 0
  /\ pc' = "search"
  /\ UNCHANGED <<size, free, next, owned>>

\* Mutant: a block of exactly the right size is passed over.
FitsStrictly(a) == free[a] /\ size[a] > need
Fits(a) == free[a] /\ size[a] >= need

\* curr = curr->next
Advance ==
  /\ pc = "search" /\ curr # NULL /\ ~Fits(curr)
  /\ curr' = next[curr]
  /\ UNCHANGED <<size, free, next, pc, need, asked, owned>>

Splittable(a) == size[a] >= need + HDR + 4

\* The block at curr becomes [curr, need] followed by a free remainder.
SplitAt(new) ==
  /\ size' = [a \in Blocks \cup {new} |->
                CASE a = curr -> need
                  [] a = new -> size[curr] - need - HDR
                  [] OTHER -> size[a]]
  /\ next' = [a \in Blocks \cup {new} |->
                CASE a = curr -> new
                  [] a = new -> next[curr]
                  [] OTHER -> next[a]]
  /\ free' = [a \in Blocks \cup {new} |->
                CASE a = curr -> FALSE
                  [] a = new -> TRUE
                  [] OTHER -> free[a]]

TakeWhole ==
  /\ free' = [free EXCEPT ![curr] = FALSE]
  /\ UNCHANGED <<size, next>>

\* The first block that fits is split if it can be, and returned.
Take ==
  /\ pc = "search" /\ curr # NULL /\ Fits(curr)
  /\ IF Splittable(curr) THEN SplitAt(curr + HDR + need) ELSE TakeWhole
  /\ owned' = [p \in DOMAIN owned \cup {curr + HDR} |->
                 IF p = curr + HDR THEN asked ELSE owned[p]]
  /\ pc' = "idle" /\ curr' = NULL /\ need' = 0 /\ asked' = 0

\* Out of memory: kmalloc returns NULL.
Fail ==
  /\ pc = "search" /\ curr = NULL
  /\ pc' = "idle" /\ need' = 0 /\ asked' = 0
  /\ UNCHANGED <<size, free, next, curr, owned>>

-----------------------------------------------------------------------------
(* kfree, of a pointer kmalloc returned and nobody freed                   *)

Kfree(p) ==
  /\ pc = "idle"
  /\ free' = [free EXCEPT ![p - HDR] = TRUE]
  /\ owned' = [q \in DOMAIN owned \ {p} |-> owned[q]]
  /\ curr' = 0
  /\ pc' = "merge"
  /\ UNCHANGED <<size, next, need, asked>>

Looping == pc = "merge" /\ curr # NULL /\ next[curr] # NULL
BothFree == free[curr] /\ free[next[curr]]

\* Mutant: the absorbed header is not counted.
HeaderLost(a, b) == size[a] + size[b]
Joined(a, b) == size[a] + HDR + size[b]

\* curr absorbs its successor, whose header leaves the list.
Absorb(gone) ==
  LET rest == Blocks \ {gone} IN
    /\ size' = [a \in rest |-> IF a = curr THEN Joined(curr, gone) ELSE size[a]]
    /\ next' = [a \in rest |-> IF a = curr THEN next[gone] ELSE next[a]]
    /\ free' = [a \in rest |-> free[a]]

\* Mutant: the cursor moves on after a merge.
MergeAndAdvance ==
  /\ Looping /\ BothFree
  /\ Absorb(next[curr])
  /\ curr' = next[next[curr]]
  /\ UNCHANGED <<pc, need, asked, owned>>

Merge ==
  /\ Looping /\ BothFree
  /\ Absorb(next[curr])
  /\ UNCHANGED <<pc, need, asked, curr, owned>>

Skip ==
  /\ Looping /\ ~BothFree
  /\ curr' = next[curr]
  /\ UNCHANGED <<size, free, next, pc, need, asked, owned>>

Freed ==
  /\ pc = "merge" /\ ~Looping
  /\ pc' = "idle" /\ curr' = NULL
  /\ UNCHANGED <<size, free, next, need, asked, owned>>

-----------------------------------------------------------------------------
Loop == Advance \/ Take \/ Fail \/ Merge \/ Skip \/ Freed

Next == \/ \E n \in Requests : Kmalloc(n)
        \/ \E p \in DOMAIN owned : Kfree(p)
        \/ Loop

Spec == Init /\ [][Next]_vars

-----------------------------------------------------------------------------
(* Properties                                                              *)

\* Every variable keeps its type.
TypeOK ==
  /\ Blocks \subseteq 0 .. HEAP_SIZE - 1 /\ 0 \in Blocks
  /\ size \in [Blocks -> 0 .. HEAP_SIZE]
  /\ free \in [Blocks -> BOOLEAN]
  /\ next \in [Blocks -> Blocks \cup {NULL}]
  /\ pc \in {"idle", "search", "merge"}
  /\ need \in Nat /\ asked \in Nat /\ asked <= need
  /\ curr \in Blocks \cup {NULL}
  /\ DOMAIN owned \subseteq HDR .. HEAP_SIZE
  /\ owned \in [DOMAIN owned -> Nat]

\* Each block ends where the next begins, the last at the end of the heap, and no
\* header lies inside another block.
Chained ==
  /\ \A a \in Blocks :
       \/ End(a) = HEAP_SIZE /\ next[a] = NULL
       \/ End(a) < HEAP_SIZE /\ next[a] = End(a)
  /\ \A a, b \in Blocks : a < b => End(a) <= b

\* After any number of splits and merges the list's blocks tile the heap, and each is
\* at least its header: no remainder was too small to be split off.
Tiled == Chained /\ \A a \in Blocks : a + HDR <= End(a)

\* The blocks in use are exactly those of the callers' pointers (nothing leaks,
\* nothing in use is marked free), and each is as large as was asked for.
OwnedMatchesBlocks ==
  /\ \A p \in DOMAIN owned :
       /\ p - HDR \in Blocks
       /\ ~free[p - HDR]
       /\ owned[p] <= size[p - HDR]
  /\ \A a \in Blocks : ~free[a] => a + HDR \in DOMAIN owned

\* The bytes a caller may write hold no block header, live or stale-but-listed:
\* a caller that keeps to its piece cannot break the list.
HeadersSafe ==
  \A p \in DOMAIN owned, a \in Blocks :
    a + HDR <= p \/ p + owned[p] <= a

\* Outside kfree no two adjacent blocks are free: one pass of its loop suffices.
Coalesced ==
  pc # "merge" =>
    \A a \in Blocks : free[a] /\ next[a] # NULL => ~free[next[a]]

\* kmalloc returns NULL only when no free block is large enough.
FailsOnlyWhenFull ==
  [][pc = "search" /\ pc' = "idle" /\ owned' = owned
       => \A a \in Blocks : ~(free[a] /\ size[a] >= need)]_vars

\* The callers see an allocator (module Allocator).
Abstract == INSTANCE Allocator
ImplementsAllocator == Abstract!Spec
=============================================================================
