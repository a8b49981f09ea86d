----------------------------- MODULE HeapProofs -----------------------------
(***************************************************************************)
(* Theorems about Heap, for every heap size, header size and set of        *)
(* requests below the u32 limit.                                           *)
(***************************************************************************)
EXTENDS Heap, TLAPS

Unmerged(a) == free[a] /\ next[a] # NULL /\ free[next[a]]

\* Behind kfree's cursor no two adjacent blocks are free; elsewhere and at any
\* other time, none at all.
MergedBehind ==
  \A a \in Blocks : Unmerged(a) => pc = "merge" /\ curr # NULL /\ curr <= a

\* Behind kmalloc's cursor no block fits.
SearchedBehind ==
  pc = "search" =>
    \A a \in Blocks : free[a] /\ size[a] >= need => curr # NULL /\ curr <= a

IInv ==
  /\ TypeOK
  /\ Chained
  /\ OwnedMatchesBlocks
  /\ MergedBehind
  /\ SearchedBehind

-----------------------------------------------------------------------------
\* kmalloc's rounding gives at least what was asked, while it does not wrap.
LEMMA AlignedEnough ==
  ASSUME NEW n \in Requests PROVE Aligned(n) \in Nat /\ n <= Aligned(n) /\ n \in Nat
BY HeapAssumption DEF Aligned, Wrapped

LEMMA InvInit == Init => IInv
<1> SUFFICES ASSUME Init PROVE IInv
  OBVIOUS
<1>1. Blocks = {0} /\ size[0] = HEAP_SIZE - HDR /\ free[0] /\ next[0] = NULL
  BY DEF Init, Blocks
<1>2. DOMAIN owned = {}
  BY DEF Init
<1>3. TypeOK
  BY <1>1, <1>2, HeapAssumption DEF Init, TypeOK, Blocks
<1>4. QED
  BY <1>1, <1>2, <1>3, HeapAssumption
  DEF Init, IInv, Chained, End, OwnedMatchesBlocks, MergedBehind, SearchedBehind,
    Unmerged

\* The list is in address order: what lies beyond a lies beyond its successor.
LEMMA Ordered ==
  ASSUME IInv
  PROVE  /\ \A a \in Blocks : a \in Nat /\ a < HEAP_SIZE /\ size[a] \in Nat
         /\ \A a, b \in Blocks :
              a < b => next[a] # NULL /\ next[a] \in Blocks /\ next[a] <= b
         /\ \A a \in Blocks : next[a] # NULL => a < next[a] /\ next[a] = End(a)
<1>1. \A a \in Blocks : a \in Nat /\ a < HEAP_SIZE /\ size[a] \in Nat
  BY HeapAssumption DEF IInv, TypeOK
<1>2. \A a \in Blocks : next[a] \in Blocks \cup {NULL}
  BY DEF IInv, TypeOK
<1>3. \A a \in Blocks : a + HDR <= End(a)
  BY <1>1, HeapAssumption DEF End
<1>4. \A a \in Blocks : next[a] # NULL => next[a] = End(a)
  BY DEF IInv, Chained
<1>5. \A a \in Blocks : next[a] = NULL => End(a) = HEAP_SIZE
  BY <1>1, <1>3, HeapAssumption DEF IInv, Chained, NULL, End
<1>6. \A a, b \in Blocks : a < b => End(a) <= b
  BY DEF IInv, Chained
<1>7. \A a, b \in Blocks : a < b => next[a] # NULL
  BY <1>1, <1>5, <1>6, HeapAssumption
<1>8. \A a \in Blocks : next[a] # NULL => a < next[a]
  BY <1>1, <1>2, <1>3, <1>4, HeapAssumption
<1>9. QED
  BY <1>1, <1>2, <1>4, <1>6, <1>7, <1>8

\* A call that starts.
LEMMA KmallocInv ==
  ASSUME IInv, NEW n \in Requests, Kmalloc(n) PROVE IInv'
<1>1. TypeOK'
  BY AlignedEnough DEF IInv, TypeOK, Kmalloc, Blocks
<1>2. Blocks' = Blocks /\ UNCHANGED <<size, free, next, owned>> /\ curr' = 0
  BY DEF Kmalloc, Blocks
<1>3. Chained' /\ OwnedMatchesBlocks'
  BY <1>2 DEF IInv, Chained, End, OwnedMatchesBlocks
<1>4. MergedBehind'
  BY <1>2 DEF Kmalloc, IInv, MergedBehind, Unmerged
<1>5. SearchedBehind'
  BY <1>2, Ordered DEF SearchedBehind, NULL
<1>6. QED
  BY <1>1, <1>3, <1>4, <1>5 DEF IInv

LEMMA KfreeInv ==
  ASSUME IInv, NEW p \in DOMAIN owned, Kfree(p) PROVE IInv'
<1>1. p - HDR \in Blocks
  BY DEF IInv, OwnedMatchesBlocks
<1>2. /\ Blocks' = Blocks /\ size' = size /\ next' = next
      /\ \A a \in Blocks : free'[a] = (IF a = p - HDR THEN TRUE ELSE free[a])
      /\ DOMAIN owned' = DOMAIN owned \ {p}
      /\ \A q \in DOMAIN owned \ {p} : owned'[q] = owned[q]
      /\ curr' = 0 /\ pc' = "merge"
  BY <1>1 DEF Kfree, IInv, TypeOK, Blocks
<1>3. TypeOK'
  BY <1>1, <1>2 DEF Kfree, IInv, TypeOK
<1>4. \A q \in DOMAIN owned : q # p => q - HDR # p - HDR
  BY HeapAssumption DEF IInv, TypeOK
<1>5. \A a \in Blocks : a # p - HDR => a + HDR # p
  BY Ordered, HeapAssumption DEF IInv, TypeOK
<1>6. OwnedMatchesBlocks'
  BY <1>1, <1>2, <1>4, <1>5 DEF IInv, OwnedMatchesBlocks
<1>7. Chained'
  BY <1>2 DEF IInv, Chained, End
<1>8. MergedBehind' /\ SearchedBehind'
  BY <1>2, Ordered DEF MergedBehind, SearchedBehind, NULL
<1>9. QED
  BY <1>3, <1>6, <1>7, <1>8 DEF IInv

\* A cursor that moves on.
LEMMA CursorInv ==
  ASSUME IInv, Advance \/ Skip \/ Fail \/ Freed PROVE IInv'
<1>1. /\ Blocks' = Blocks /\ size' = size /\ next' = next /\ free' = free
      /\ owned' = owned
  BY DEF Advance, Skip, Fail, Freed, Blocks
<1>2. TypeOK'
  BY <1>1 DEF Advance, Skip, Fail, Freed, Looping, IInv, TypeOK
<1>3. Chained' /\ OwnedMatchesBlocks'
  BY <1>1 DEF IInv, Chained, End, OwnedMatchesBlocks
<1>4. \A a \in Blocks : curr \in Blocks /\ curr <= a /\ a # curr =>
                            next[curr] # NULL /\ next[curr] <= a
  BY Ordered
<1>5. MergedBehind'
  BY <1>1, <1>4 DEF Advance, Skip, Fail, Freed, Looping, BothFree, IInv, TypeOK,
    MergedBehind, Unmerged
<1>6. SearchedBehind'
  <2>1. CASE Advance
    BY <1>1, <1>4, <2>1 DEF Advance, Fits, IInv, TypeOK, SearchedBehind
  <2>2. CASE Skip \/ Fail \/ Freed
    BY <2>2 DEF Skip, Fail, Freed, Looping, SearchedBehind
  <2>3. QED
    BY <2>1, <2>2
<1>7. QED
  BY <1>2, <1>3, <1>5, <1>6 DEF IInv
\* kmalloc takes the block at the cursor.
LEMMA TakeInv ==
  ASSUME IInv, Take PROVE IInv'
<1>a. PICK c \in Blocks : c = curr
  BY DEF Take, IInv, TypeOK
<1>b. PICK n \in Nat : n = need
  BY DEF IInv, TypeOK
<1>c. PICK m \in Nat : m = asked
  BY DEF IInv, TypeOK
<1>d. PICK new \in Nat : new = c + HDR + n
  BY HeapAssumption DEF IInv, TypeOK
<1>1. free[c] /\ size[c] >= n /\ m <= n
  BY <1>a, <1>b, <1>c DEF Take, Fits, IInv, TypeOK
<1>2. /\ DOMAIN owned' = DOMAIN owned \cup {c + HDR}
      /\ \A p \in DOMAIN owned' :
           owned'[p] = (IF p = c + HDR THEN m ELSE owned[p])
      /\ pc' = "idle" /\ curr' = NULL /\ need' = 0 /\ asked' = 0
      /\ owned' \in [DOMAIN owned' -> Nat]
  <2>1. DOMAIN owned' = DOMAIN owned \cup {c + HDR}
    BY <1>a DEF Take
  <2>2. \A p \in DOMAIN owned' :
          owned'[p] = (IF p = c + HDR THEN m ELSE owned[p])
    BY <1>a, <1>c DEF Take
  <2>3. \A p \in DOMAIN owned' : owned'[p] \in Nat
    BY <1>1, <2>1, <2>2 DEF IInv, TypeOK
  <2>4. owned' = [p \in DOMAIN owned' |-> owned'[p]]
    BY DEF Take
  <2>5. QED
    BY <2>1, <2>2, <2>3, <2>4 DEF Take
<1>3. End(c) \in Nat /\ End(c) <= HEAP_SIZE /\ End(c) = c + HDR + size[c]
      /\ c \in Nat
  BY <1>1, Ordered, HeapAssumption DEF IInv, Chained, End
<1>4. DOMAIN owned' \subseteq HDR .. HEAP_SIZE
  BY <1>1, <1>2, <1>3, Ordered, HeapAssumption DEF IInv, TypeOK
<1>5. \A p \in DOMAIN owned : p # c + HDR
  BY <1>1, <1>3, HeapAssumption DEF IInv, OwnedMatchesBlocks, TypeOK
<1>6. SearchedBehind'
  BY <1>2 DEF SearchedBehind
<1>7. CASE ~Splittable(curr)
  <2>1. /\ Blocks' = Blocks /\ size' = size /\ next' = next
        /\ free'[c] = FALSE
        /\ \A a \in Blocks \ {c} : free'[a] = free[a]
        /\ free' \in [Blocks -> BOOLEAN]
    BY <1>a, <1>7 DEF Take, TakeWhole, IInv, TypeOK, Blocks
  <2>2. TypeOK'
    BY <1>2, <1>4, <2>1 DEF IInv, TypeOK
  <2>3. Chained'
    BY <2>1 DEF IInv, Chained, End
  <2>4. OwnedMatchesBlocks'
    <3>1. (c + HDR) - HDR = c
      BY <1>3, HeapAssumption
    <3>2. \A p \in DOMAIN owned : p - HDR # c
      BY <1>1, <1>3, <1>5, HeapAssumption DEF IInv, TypeOK, OwnedMatchesBlocks
    <3>3. ASSUME NEW p \in DOMAIN owned'
          PROVE  p - HDR \in Blocks' /\ ~free'[p - HDR] /\ owned'[p] <= size'[p - HDR]
      <4>1. CASE p = c + HDR
        BY <1>1, <1>2, <2>1, <3>1, <4>1, Ordered
      <4>2. CASE p # c + HDR
        BY <1>2, <2>1, <3>2, <4>2 DEF IInv, OwnedMatchesBlocks
      <4>3. QED
        BY <4>1, <4>2
    <3>4. ASSUME NEW a \in Blocks', ~free'[a] PROVE a + HDR \in DOMAIN owned'
      BY <1>2, <2>1, <3>4 DEF IInv, OwnedMatchesBlocks
    <3>5. QED
      BY <3>3, <3>4 DEF OwnedMatchesBlocks
  <2>5. MergedBehind'
    BY <1>2, <2>1 DEF Take, IInv, TypeOK, MergedBehind, Unmerged
  <2>6. QED
    BY <1>6, <2>2, <2>3, <2>4, <2>5 DEF IInv
<1>8. CASE Splittable(curr)
  <2>0. size[c] \in Nat /\ size[c] >= n + HDR + 4
    BY <1>a, <1>b, <1>8, Ordered DEF Splittable
  <2>1. new \in Nat /\ c < new /\ c + HDR < End(c) /\ new + HDR < End(c)
        /\ new < HEAP_SIZE /\ new < End(c)
    BY <1>d, <1>3, <2>0, HeapAssumption
  <2>a. \A b \in Blocks : c < b => End(c) <= b
    BY DEF IInv, Chained
  <2>2. \A b \in Blocks : b # new /\ (c < b => End(c) <= b)
    BY <1>3, <2>1, <2>a, Ordered
  <2>3. /\ Blocks' = Blocks \cup {new}
        /\ size'[c] = n /\ size'[new] = size[c] - n - HDR
        /\ next'[c] = new /\ next'[new] = next[c]
        /\ free'[c] = FALSE /\ free'[new] = TRUE
        /\ \A a \in Blocks \ {c} : /\ size'[a] = size[a] /\ next'[a] = next[a]
                                  /\ free'[a] = free[a]
    <3>1. SplitAt(new) /\ c = curr /\ n = need
      BY <1>a, <1>b, <1>d, <1>8 DEF Take
    <3>2. c # new /\ c \in Blocks /\ \A a \in Blocks : a # new
      BY <1>a, <1>d, <1>3, <2>1, <2>2
    <3>3. Blocks' = Blocks \cup {new}
      BY <3>1 DEF SplitAt, Blocks
    <3>4. /\ size'[c] = n /\ size'[new] = size[c] - n - HDR
          /\ \A a \in Blocks \ {c} : size'[a] = size[a]
      BY <3>1, <3>2 DEF SplitAt
    <3>5. /\ next'[c] = new /\ next'[new] = next[c]
          /\ \A a \in Blocks \ {c} : next'[a] = next[a]
      BY <3>1, <3>2 DEF SplitAt
    <3>6. /\ free'[c] = FALSE /\ free'[new] = TRUE
          /\ \A a \in Blocks \ {c} : free'[a] = free[a]
      BY <3>1, <3>2 DEF SplitAt
    <3>7. QED
      BY <3>3, <3>4, <3>5, <3>6
  <2>4. size' \in [Blocks' -> 0 .. HEAP_SIZE]
    <3>1. \A a \in Blocks' : size'[a] \in 0 .. HEAP_SIZE
      BY <1>1, <1>3, <2>0, <2>1, <2>3, HeapAssumption DEF IInv, TypeOK
    <3>2. size' = [a \in Blocks' |-> size'[a]]
      BY <1>a, <1>b, <1>d, <1>8, <2>3 DEF Take, SplitAt, Blocks
    <3>3. QED
      BY <3>1, <3>2
  <2>5. next' \in [Blocks' -> Blocks' \cup {NULL}]
    <3>1. \A a \in Blocks' : next'[a] \in Blocks' \cup {NULL}
      BY <1>1, <2>3 DEF IInv, TypeOK
    <3>2. next' = [a \in Blocks' |-> next'[a]]
      BY <1>a, <1>b, <1>d, <1>8, <2>3 DEF Take, SplitAt
    <3>3. QED
      BY <3>1, <3>2
  <2>6. free' \in [Blocks' -> BOOLEAN]
    <3>1. \A a \in Blocks' : free'[a] \in BOOLEAN
      BY <2>3 DEF IInv, TypeOK
    <3>2. free' = [a \in Blocks' |-> free'[a]]
      BY <1>a, <1>b, <1>d, <1>8, <2>3 DEF Take, SplitAt
    <3>3. QED
      BY <3>1, <3>2
  <2>7. Blocks' \subseteq 0 .. HEAP_SIZE - 1 /\ 0 \in Blocks'
    BY <2>1, <2>3, HeapAssumption DEF IInv, TypeOK
  <2>8. TypeOK'
    BY <1>2, <1>4, <2>4, <2>5, <2>6, <2>7 DEF TypeOK
  <2>9. /\ End(c)' = new /\ End(new)' = End(c)
        /\ \A a \in Blocks \ {c} : End(a)' = End(a)
    BY <1>d, <1>3, <2>0, <2>3, Ordered, HeapAssumption DEF End
  <2>10. Chained'
    <3>1. \A a \in Blocks' :
            \/ End(a)' = HEAP_SIZE /\ next'[a] = NULL
            \/ End(a)' < HEAP_SIZE /\ next'[a] = End(a)'
      <4>1. \A a \in Blocks \ {c} :
              \/ End(a)' = HEAP_SIZE /\ next'[a] = NULL
              \/ End(a)' < HEAP_SIZE /\ next'[a] = End(a)'
        BY <2>3, <2>9 DEF IInv, Chained
      <4>2. \/ End(new)' = HEAP_SIZE /\ next'[new] = NULL
            \/ End(new)' < HEAP_SIZE /\ next'[new] = End(new)'
        BY <2>3, <2>9 DEF IInv, Chained
      <4>3. End(c)' < HEAP_SIZE /\ next'[c] = End(c)'
        BY <2>1, <2>3, <2>9
      <4>4. ASSUME NEW a \in Blocks'
            PROVE  \/ End(a)' = HEAP_SIZE /\ next'[a] = NULL
                   \/ End(a)' < HEAP_SIZE /\ next'[a] = End(a)'
        <5>1. CASE a = new
          BY <4>2, <5>1
        <5>2. CASE a = c
          BY <4>3, <5>2
        <5>3. CASE a \in Blocks \ {c}
          BY <4>1, <5>3
        <5>4. a = new \/ a = c \/ a \in Blocks \ {c}
          BY <2>3
        <5>5. QED
          BY <5>1, <5>2, <5>3, <5>4
      <4>5. QED
        BY <4>4
    <3>2. ASSUME NEW a \in Blocks', NEW b \in Blocks', a < b PROVE End(a)' <= b
      <4>1. CASE a = new
        <5>1. b \in Blocks
          BY <2>1, <2>3, <3>2, <4>1
        <5>3. c < b
          BY <1>3, <2>1, <3>2, <4>1, <5>1, Ordered
        <5>2. QED
          BY <2>2, <2>9, <4>1, <5>1, <5>3
      <4>2. CASE a = c
        <5>1. CASE b = new
          BY <2>1, <2>9, <4>2, <5>1
        <5>2. CASE b \in Blocks
          <6>1. new <= End(c) /\ End(c) <= b /\ b \in Nat
            BY <1>3, <2>1, <2>2, <3>2, <4>2, <5>2, Ordered, HeapAssumption
          <6>2. QED
            BY <1>3, <2>1, <2>9, <4>2, <6>1
        <5>3. QED
          BY <2>3, <5>1, <5>2
      <4>3. CASE a \in Blocks \ {c} /\ b = new
        <5>1. a < c
          <6>1. a \in Nat /\ a # c /\ (c < a => End(c) <= a) /\ a < new
            BY <2>2, <3>2, <4>3, Ordered
          <6>2. new < End(c)
            BY <1>3, <2>1, HeapAssumption
          <6>3. QED
            BY <1>3, <2>1, <6>1, <6>2
        <5>2. End(a) <= c
          BY <1>1, <4>3, <5>1 DEF IInv, Chained
        <5>3. End(a) \in Int
          BY <4>3, Ordered, HeapAssumption DEF End
        <5>4. QED
          BY <1>3, <2>1, <2>9, <4>3, <5>2, <5>3
      <4>4. CASE a \in Blocks \ {c} /\ b \in Blocks
        BY <2>9, <3>2, <4>4 DEF IInv, Chained
      <4>5. QED
        BY <2>3, <4>1, <4>2, <4>3, <4>4
    <3>3. QED
      BY <3>1, <3>2 DEF Chained
  <2>11. OwnedMatchesBlocks'
    <3>1. (c + HDR) - HDR = c
      BY <1>3, HeapAssumption
    <3>2. \A p \in DOMAIN owned : p - HDR # c
      BY <1>1, <1>3, <1>5, HeapAssumption DEF IInv, TypeOK, OwnedMatchesBlocks
    <3>3. ASSUME NEW p \in DOMAIN owned'
          PROVE  p - HDR \in Blocks' /\ ~free'[p - HDR] /\ owned'[p] <= size'[p - HDR]
      <4>1. CASE p = c + HDR
        BY <1>1, <1>2, <2>3, <3>1, <4>1
      <4>2. CASE p # c + HDR
        BY <1>2, <2>2, <2>3, <3>2, <4>2 DEF IInv, OwnedMatchesBlocks
      <4>3. QED
        BY <4>1, <4>2
    <3>4. ASSUME NEW a \in Blocks', ~free'[a] PROVE a + HDR \in DOMAIN owned'
      <4>1. CASE a = c
        BY <1>2, <4>1
      <4>2. CASE a # c
        BY <1>2, <2>3, <3>4, <4>2 DEF IInv, OwnedMatchesBlocks
      <4>3. QED
        BY <4>1, <4>2
    <3>5. QED
      BY <3>3, <3>4 DEF OwnedMatchesBlocks
  <2>12. MergedBehind'
    <3>1. \A a \in Blocks : ~Unmerged(a)
      BY DEF Take, IInv, MergedBehind
    <3>2. \A a \in Blocks \ {c} : next[a] # NULL => next[a] \in Blocks
      BY DEF IInv, TypeOK
    <3>3. next[c] # NULL => next[c] \in Blocks /\ next[c] # c /\ ~free[next[c]]
      BY <1>1, <3>1, Ordered DEF Unmerged, IInv, TypeOK
    <3>4. \A a \in Blocks' : ~Unmerged(a)'
      BY <1>1, <2>3, <3>1, <3>2, <3>3 DEF Unmerged
    <3>5. QED
      BY <3>4 DEF MergedBehind
  <2>13. QED
    BY <1>6, <2>8, <2>10, <2>11, <2>12 DEF IInv
<1>9. QED
  BY <1>7, <1>8
\* kfree's loop merges the block at the cursor with its successor.
LEMMA MergeInv ==
  ASSUME IInv, Merge PROVE IInv'
<1>1. PICK c \in Blocks : c = curr
  BY DEF Merge, Looping, IInv, TypeOK
<1>2. PICK d \in Blocks : d = next[c]
  BY <1>1 DEF Merge, Looping, IInv, TypeOK
<1>3. /\ c < d /\ d = End(c) /\ d # NULL
      /\ c \in Nat /\ d \in Nat /\ size[c] \in Nat /\ size[d] \in Nat
  BY <1>1, <1>2, Ordered DEF Merge, Looping
<1>4. free[c] = TRUE /\ free[d] = TRUE
  BY <1>1, <1>2 DEF Merge, BothFree, IInv, TypeOK
<1>5. End(c) = c + HDR + size[c] /\ End(d) = d + HDR + size[d]
  BY DEF End
<1>6. /\ Blocks' = Blocks \ {d}
      /\ size'[c] = size[c] + HDR + size[d]
      /\ next'[c] = next[d]
      /\ \A a \in Blocks \ {d} : free'[a] = free[a]
      /\ \A a \in Blocks \ {c, d} : size'[a] = size[a] /\ next'[a] = next[a]
  BY <1>1, <1>2, <1>3 DEF Merge, Absorb, Joined, Blocks
<1>7. UNCHANGED <<pc, need, asked, curr, owned>> /\ pc = "merge"
  BY DEF Merge, Looping
<1>8. /\ End(c)' = End(d)
      /\ \A a \in Blocks \ {c, d} : End(a)' = End(a)
  BY <1>3, <1>5, <1>6, HeapAssumption DEF End
<1>9. End(d) \in Nat /\ End(d) <= HEAP_SIZE /\ d < End(d)
  BY <1>3, <1>5, HeapAssumption DEF IInv, Chained
<1>10. next[d] = NULL \/ (next[d] \in Blocks /\ d < next[d])
  BY Ordered DEF IInv, TypeOK
<1>11. \A a \in Blocks \ {c, d} : next[a] # d
  <2>1. SUFFICES ASSUME NEW a \in Blocks \ {c, d}, next[a] = d PROVE FALSE
    OBVIOUS
  <2>2. a \in Nat /\ a < d
    BY <1>3, <2>1, Ordered
  <2>3. CASE a < c
    <3>1. next[a] <= c
      BY <2>3, Ordered
    <3>2. QED
      BY <1>3, <2>1, <3>1
  <2>4. CASE c < a
    <3>1. next[c] <= a
      BY <2>4, Ordered
    <3>2. QED
      BY <1>2, <1>3, <2>2, <3>1
  <2>5. QED
    BY <1>3, <2>2, <2>3, <2>4
<1>12. TypeOK'
  <2>1. size' \in [Blocks' -> 0 .. HEAP_SIZE]
    <3>1. \A a \in Blocks' : size'[a] \in 0 .. HEAP_SIZE
      <4>1. size'[c] \in 0 .. HEAP_SIZE
        BY <1>3, <1>5, <1>6, <1>9, HeapAssumption
      <4>2. QED
        BY <1>6, <4>1 DEF IInv, TypeOK
    <3>2. size' = [a \in Blocks' |-> size'[a]]
      BY <1>1, <1>2, <1>6 DEF Merge, Absorb
    <3>3. QED
      BY <3>1, <3>2
  <2>2. next' \in [Blocks' -> Blocks' \cup {NULL}]
    <3>1. \A a \in Blocks' : next'[a] \in Blocks' \cup {NULL}
      BY <1>3, <1>6, <1>10, <1>11 DEF IInv, TypeOK
    <3>2. next' = [a \in Blocks' |-> next'[a]]
      BY <1>1, <1>2, <1>6 DEF Merge, Absorb
    <3>3. QED
      BY <3>1, <3>2
  <2>3. free' \in [Blocks' -> BOOLEAN]
    <3>1. \A a \in Blocks' : free'[a] \in BOOLEAN
      BY <1>6 DEF IInv, TypeOK
    <3>2. free' = [a \in Blocks' |-> free'[a]]
      BY <1>1, <1>2, <1>6 DEF Merge, Absorb
    <3>3. QED
      BY <3>1, <3>2
  <2>4. /\ Blocks' \subseteq 0 .. HEAP_SIZE - 1 /\ 0 \in Blocks'
        /\ curr' \in Blocks' \cup {NULL}
    BY <1>1, <1>3, <1>6, <1>7 DEF IInv, TypeOK
  <2>5. QED
    BY <1>7, <2>1, <2>2, <2>3, <2>4 DEF IInv, TypeOK
<1>13. Chained'
  <2>1. ASSUME NEW a \in Blocks'
        PROVE  \/ End(a)' = HEAP_SIZE /\ next'[a] = NULL
               \/ End(a)' < HEAP_SIZE /\ next'[a] = End(a)'
    <3>1. CASE a = c
      BY <1>6, <1>8, <3>1 DEF IInv, Chained
    <3>2. CASE a # c
      BY <1>6, <1>8, <3>2 DEF IInv, Chained
    <3>3. QED
      BY <3>1, <3>2
  <2>2. ASSUME NEW a \in Blocks', NEW b \in Blocks', a < b PROVE End(a)' <= b
    <3>1. CASE a = c
      <4>1. End(c) <= b /\ b # d
        BY <1>6, <2>2, <3>1 DEF IInv, Chained
      <4>2. d < b
        BY <1>3, <1>6, <4>1, Ordered
      <4>3. End(d) <= b
        BY <1>6, <4>2 DEF IInv, Chained
      <4>4. QED
        BY <1>8, <3>1, <4>3
    <3>2. CASE a # c
      BY <1>6, <1>8, <2>2, <3>2 DEF IInv, Chained
    <3>3. QED
      BY <3>1, <3>2
  <2>3. QED
    BY <2>1, <2>2 DEF Chained
<1>14. OwnedMatchesBlocks'
  <2>1. ASSUME NEW p \in DOMAIN owned'
        PROVE  p - HDR \in Blocks' /\ ~free'[p - HDR] /\ owned'[p] <= size'[p - HDR]
    <3>1. /\ p - HDR \in Blocks /\ ~free[p - HDR]
          /\ owned[p] <= size[p - HDR] /\ owned' = owned
      BY <1>7 DEF IInv, OwnedMatchesBlocks
    <3>2. p - HDR # c /\ p - HDR # d
      BY <1>4, <3>1
    <3>3. QED
      BY <1>6, <3>1, <3>2
  <2>2. ASSUME NEW a \in Blocks', ~free'[a] PROVE a + HDR \in DOMAIN owned'
    BY <1>6, <1>7, <2>2 DEF IInv, OwnedMatchesBlocks
  <2>3. QED
    BY <2>1, <2>2 DEF OwnedMatchesBlocks
<1>15. MergedBehind'
  <2>1. ASSUME NEW a \in Blocks', Unmerged(a)' PROVE curr # NULL /\ curr <= a
    <3>1. curr # NULL /\ c = curr
      BY <1>1 DEF Merge, Looping
    <3>2. CASE a # c
      BY <1>6, <1>11, <2>1, <3>2 DEF IInv, TypeOK, MergedBehind, Unmerged
    <3>3. QED
      BY <1>3, <3>1, <3>2
  <2>2. QED
    BY <1>7, <2>1 DEF MergedBehind
<1>16. SearchedBehind'
  BY <1>7 DEF SearchedBehind
<1>17. QED
  BY <1>12, <1>13, <1>14, <1>15, <1>16 DEF IInv
LEMMA InvStep == IInv /\ [Next]_vars => IInv'
<1> SUFFICES ASSUME IInv, [Next]_vars PROVE IInv'
  OBVIOUS
<1>1. ASSUME NEW n \in Requests, Kmalloc(n) PROVE IInv'
  BY <1>1, KmallocInv
<1>2. ASSUME NEW p \in DOMAIN owned, Kfree(p) PROVE IInv'
  BY <1>2, KfreeInv
<1>3. CASE Loop
  BY <1>3, CursorInv, TakeInv, MergeInv DEF Loop
<1>4. CASE UNCHANGED vars
  BY <1>4 DEF vars, IInv, TypeOK, Chained, End, OwnedMatchesBlocks, MergedBehind,
    SearchedBehind, Unmerged, Blocks
<1>5. QED
  BY <1>1, <1>2, <1>3, <1>4 DEF Next

LEMMA Inductive == Spec => []IInv
BY InvInit, InvStep, PTL DEF Spec

\* Every variable keeps its type (TypeOK).
THEOREM TypeCorrect == Spec => []TypeOK
BY Inductive, PTL DEF IInv

\* The list tiles the heap after any sequence of calls, with blocks that are at least
\* their headers (Tiled).
THEOREM HeapTiled == Spec => []Tiled
<1>1. ASSUME IInv PROVE Tiled
  <2>1. ASSUME NEW a \in Blocks PROVE a + HDR <= End(a)
    <3>1. size[a] \in Nat /\ a \in Nat /\ HDR \in Nat
      BY <1>1, <2>1, HeapAssumption DEF IInv, TypeOK
    <3>2. QED
      BY <3>1 DEF End
  <2>2. QED
    BY <1>1, <2>1 DEF IInv, Tiled
<1>2. QED
  BY <1>1, Inductive, PTL

\* Blocks in use and callers' pointers agree (OwnedMatchesBlocks).
THEOREM NothingLeaks == Spec => []OwnedMatchesBlocks
BY Inductive, PTL DEF IInv

\* One pass of kfree's loop leaves no two adjacent free blocks (Coalesced).
THEOREM FullyCoalesced == Spec => []Coalesced
<1>1. IInv => Coalesced
  BY DEF IInv, MergedBehind, Unmerged, Coalesced
<1>2. QED
  BY <1>1, Inductive, PTL

\* No block header lies in bytes a caller may write (HeadersSafe).
THEOREM CallersCannotBreakList == Spec => []HeadersSafe
<1>1. ASSUME IInv, NEW p \in DOMAIN owned, NEW a \in Blocks
      PROVE  a + HDR <= p \/ p + owned[p] <= a
  <2>1. PICK b \in Blocks : b = p - HDR
    BY <1>1 DEF IInv, OwnedMatchesBlocks
  <2>2. /\ p \in Int /\ p = b + HDR /\ owned[p] \in Nat /\ owned[p] <= size[b]
        /\ a \in Nat /\ b \in Nat /\ size[b] \in Nat
    BY <1>1, <2>1, Ordered, HeapAssumption DEF IInv, TypeOK, OwnedMatchesBlocks
  <2>3. CASE a <= b
    BY <2>2, <2>3, HeapAssumption
  <2>4. CASE b < a
    <3>1. End(b) <= a
      BY <1>1, <2>4 DEF IInv, Chained
    <3>2. QED
      BY <2>2, <3>1, HeapAssumption DEF End
  <2>5. QED
    BY <2>2, <2>3, <2>4
<1>2. IInv => HeadersSafe
  BY <1>1 DEF HeadersSafe
<1>3. QED
  BY <1>2, Inductive, PTL

\* kmalloc fails only when no free block is large enough (FailsOnlyWhenFull).
THEOREM FirstFitComplete == Spec => FailsOnlyWhenFull
<1>1. IInv /\ [Next]_vars =>
        [pc = "search" /\ pc' = "idle" /\ owned' = owned
           => \A a \in Blocks : ~(free[a] /\ size[a] >= need)]_vars
  <2> SUFFICES ASSUME IInv, Next, pc = "search", pc' = "idle", owned' = owned
               PROVE  \A a \in Blocks : ~(free[a] /\ size[a] >= need)
    OBVIOUS
  <2>1. CASE Fail
    BY <2>1 DEF Fail, IInv, SearchedBehind
  <2>2. CASE Take
    <3>1. PICK c \in Blocks : c = curr
      BY <2>2 DEF Take, IInv, TypeOK
    <3>2. free[c] /\ c + HDR \in DOMAIN owned' /\ c \in Nat
      BY <2>2, <3>1, Ordered DEF Take, Fits
    <3>3. (c + HDR) - HDR = c
      BY <3>2, HeapAssumption
    <3>4. QED
      BY <3>2, <3>3 DEF IInv, OwnedMatchesBlocks
  <2>3. QED
    BY <2>1, <2>2 DEF Next, Loop, Kmalloc, Kfree, Advance, Merge, Skip, Freed,
      Looping
<1>2. QED
  BY <1>1, Inductive, PTL DEF Spec, FailsOnlyWhenFull
-----------------------------------------------------------------------------
(* Refinement                                                              *)

AskedKnown == pc = "search" => asked \in Requests

LEMMA AskedInv == Spec => []AskedKnown
<1>1. Init => AskedKnown
  BY DEF Init, AskedKnown
<1>2. AskedKnown /\ [Next]_vars => AskedKnown'
  BY DEF AskedKnown, Next, Loop, Kmalloc, Kfree, Advance, Take, Fail, Merge, Skip,
    Freed, vars
<1>3. QED
  BY <1>1, <1>2, PTL DEF Spec

\* What Take hands out shares no byte and no header with a live piece.
LEMMA TakeGrants ==
  ASSUME IInv, AskedKnown, Take PROVE Abstract!Next
<1>1. PICK c \in Blocks : c = curr
  BY DEF Take, IInv, TypeOK
<1>2. PICK p \in Int : p = c + HDR
  BY <1>1, Ordered, HeapAssumption
<1>3. /\ free[c] /\ asked \in Requests /\ asked \in Nat /\ asked <= size[c]
      /\ c \in Nat /\ size[c] \in Nat
  BY <1>1, Ordered DEF Take, Fits, IInv, TypeOK, AskedKnown
<1>4. End(c) <= HEAP_SIZE /\ End(c) = c + HDR + size[c]
  BY <1>3, HeapAssumption DEF IInv, Chained, End
<1>5. p \in 0 .. HEAP_SIZE /\ HDR <= p /\ p + asked <= HEAP_SIZE
  BY <1>2, <1>3, <1>4, HeapAssumption
<1>6. ASSUME NEW q \in DOMAIN owned
      PROVE  q # p /\ Abstract!Disjoint(p, asked, q, owned[q])
  <2>1. PICK b \in Blocks : b = q - HDR
    BY DEF IInv, OwnedMatchesBlocks
  <2>2. /\ q \in Int /\ q = b + HDR /\ ~free[b] /\ owned[q] <= size[b]
        /\ owned[q] \in Nat /\ b \in Nat /\ size[b] \in Nat
    BY <2>1, Ordered, HeapAssumption DEF IInv, TypeOK, OwnedMatchesBlocks
  <2>3. (b < c => End(b) <= c) /\ (c < b => End(c) <= b)
    BY DEF IInv, Chained
  <2>4. b # c /\ End(b) = b + HDR + size[b]
    BY <1>3, <2>2 DEF End
  <2>5. QED
    BY <1>2, <1>3, <1>4, <2>2, <2>3, <2>4, HeapAssumption DEF Abstract!Disjoint
<1>7. owned' = [q \in DOMAIN owned \cup {p} |-> IF q = p THEN asked ELSE owned[q]]
  BY <1>1, <1>2 DEF Take
<1>8. Abstract!Grant(p, asked)
  BY <1>5, <1>6, <1>7 DEF Abstract!Grant
<1>9. QED
  BY <1>3, <1>5, <1>8 DEF Abstract!Next

\* kmalloc and kfree implement the allocator of module Allocator
\* (ImplementsAllocator).
THEOREM Refinement == Spec => ImplementsAllocator
<1>1. Init => Abstract!Init
  BY DEF Init, Abstract!Init
<1>2. IInv /\ AskedKnown /\ [Next]_vars => [Abstract!Next]_owned
  <2> SUFFICES ASSUME IInv, AskedKnown, [Next]_vars, owned' # owned
               PROVE  Abstract!Next
    OBVIOUS
  <2>1. CASE Take
    BY <2>1, TakeGrants
  <2>2. ASSUME NEW p \in DOMAIN owned, Kfree(p) PROVE Abstract!Next
    BY <2>2 DEF Kfree, Abstract!Next, Abstract!Release
  <2>3. QED
    BY <2>1, <2>2 DEF Next, Loop, Kmalloc, Advance, Fail, Merge, Skip, Freed, vars
<1>3. QED
  BY <1>1, <1>2, Inductive, AskedInv, PTL
  DEF Spec, ImplementsAllocator, Abstract!Spec
=============================================================================
