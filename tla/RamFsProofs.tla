---------------------------- MODULE RamFsProofs ----------------------------
(***************************************************************************)
(* Theorems about the file system, for every table size, depth limit, set  *)
(* of names and initial tree.  The table keeps its type and a directory is *)
(* renamed with all that is under it whatever the commands; what mv breaks *)
(* (unique names, no orphans, nothing hidden, the tree of FileTree) is     *)
(* proved for moves to a free place inside a directory (Tame), the first   *)
(* three also without mv.                                                  *)
(*                                                                         *)
(* Three invariants carry the rest: TypeInv, which knows that the resolver *)
(* yields at most STACK names; IInv, that no two active entries share one; *)
(* TreeInv, that each is inside an active directory.  Recursive functions  *)
(* (the resolver, the rounds of ls) are reasoned about by the first        *)
(* argument for which a claim would fail (LeastNat, UpTo).                 *)
(***************************************************************************)
EXTENDS RamFs, WellFoundedInduction, TLAPS

-----------------------------------------------------------------------------
(* Recursion over 1 .. n                                                   *)

\* Every set of numbers that is not empty has a least one.
LEMMA LeastNat ==
  ASSUME NEW T, T \subseteq Nat, T # {}
  PROVE  \E x \in T : \A y \in T : x <= y
<1> DEFINE R == {ss \in Nat \X Nat : ss[1] < ss[2]}
<1>1. IsWellFoundedOn(R, Nat)
  BY NatLessThanWellFounded DEF OpToRel
<1>2. \A x, y \in Nat : <<x, y>> \in R <=> x < y
  OBVIOUS
<1> HIDE DEF R
<1>3. \E x \in T : \A y \in T : ~(<<y, x>> \in R)
  BY <1>1, WFMin
<1>4. PICK x \in T : \A y \in T : ~(<<y, x>> \in R)
  BY <1>3
<1>5. ASSUME NEW y \in T PROVE x <= y
  <2>1. x \in Nat /\ y \in Nat
    OBVIOUS
  <2>2. ~(y < x)
    BY <2>1, <1>4, <1>2
  <2>3. QED
    BY <2>1, <2>2
<1>6. QED
  BY <1>4, <1>5

\* Induction up to n: a set that holds 0, and with every number before n its
\* successor, holds 0 .. n.
LEMMA UpTo ==
  ASSUME NEW n \in Nat, NEW G, 0 \in G,
         \A i \in 1 .. n : i - 1 \in G => i \in G
  PROVE  0 .. n \subseteq G
<1> DEFINE T == {i \in 0 .. n : i \notin G}
<1>1. SUFFICES ASSUME T # {} PROVE FALSE
  OBVIOUS
<1>2. PICK x \in T : \A y \in T : x <= y
  <2>1. T \subseteq Nat
    OBVIOUS
  <2> HIDE DEF T
  <2>2. QED
    BY <1>1, <2>1, LeastNat
<1>3. x \in 1 .. n /\ x - 1 \in 0 .. n
  BY <1>2
<1>4. x - 1 \in G
  BY <1>2, <1>3
<1>5. QED
  BY <1>3, <1>4

\* Functions from S to S, one for each of 1 .. n, can be iterated within S.
Iterates(S, base, n, g) ==
  \E f \in [0 .. n -> S] : f[0] = base /\ \A i \in 1 .. n : f[i] = g[i][f[i-1]]

\* They always can: the recursion that iterates them has a solution.
LEMMA IteratesExist ==
  ASSUME NEW S, NEW base \in S, NEW n \in Nat, NEW g \in [1 .. n -> [S -> S]]
  PROVE  Iterates(S, base, n, g)
<1> DEFINE Sol(f, k) == /\ f[0] = base
                        /\ \A i \in 1 .. k : f[i] = g[i][f[i-1]]
           G == {k \in 0 .. n : \E f \in [0 .. k -> S] : Sol(f, k)}
<1>1. 0 \in G
  <2> DEFINE h == [i \in 0 .. 0 |-> base]
  <2>1. h \in [0 .. 0 -> S] /\ h[0] = base
    OBVIOUS
  <2>2. \A i \in 1 .. 0 : FALSE
    OBVIOUS
  <2> HIDE DEF h
  <2>3. Sol(h, 0)
    BY <2>1, <2>2
  <2>4. QED
    BY <2>1, <2>3
<1>2. ASSUME NEW k \in 1 .. n, k - 1 \in G PROVE k \in G
  <2>1. PICK f \in [0 .. k - 1 -> S] : Sol(f, k - 1)
    BY <1>2
  <2> DEFINE h == [i \in 0 .. k |-> IF i = k THEN g[k][f[k-1]] ELSE f[i]]
  <2>2. g[k] \in [S -> S] /\ f[k-1] \in S
    BY <2>1
  <2>3. h \in [0 .. k -> S]
    BY <2>1, <2>2
  <2>4. Sol(h, k)
    BY <2>1
  <2>5. k \in 0 .. n
    OBVIOUS
  <2> HIDE DEF h, Sol
  <2>6. QED
    BY <2>3, <2>4, <2>5
<1>3. n \in G
  <2> HIDE DEF G
  <2>1. 0 .. n \subseteq G
    BY <1>1, <1>2, UpTo
  <2>2. QED
    BY <2>1
<1>4. QED
  BY <1>3 DEF Iterates

-----------------------------------------------------------------------------
(* The resolver                                                            *)

\* What the working directory and every resolved argument are
Folders == {s \in Seq(Names) : Len(s) <= STACK}
PathParts == Names \cup {".", ".."}

\* Whatever a part is, the stack stays one of at most STACK names.
LEMMA PushPartIs ==
  ASSUME NEW s \in Folders, NEW part \in PathParts
  PROVE  PushPart(s, part) \in Folders
<1>0. s \in Seq(Names) /\ Len(s) \in Nat /\ Len(s) <= STACK /\ STACK \in Nat
  <2>1. s \in Seq(Names) /\ Len(s) <= STACK
    BY DEF Folders
  <2>2. Len(s) \in Nat
    BY <2>1
  <2>3. QED
    BY <2>1, <2>2, RamFsAssumption
<1>1. CASE part = "."
  BY <1>1 DEF PushPart
<1>2. CASE part = ".."
  <2>1. PushPart(s, part) = IF s = <<>> THEN s ELSE Front(s)
    BY <1>2 DEF PushPart
  <2>2. s # <<>> => Front(s) \in Seq(Names) /\ Len(Front(s)) = Len(s) - 1
    <3>1. s # <<>> => Len(s) - 1 \in 0 .. Len(s)
      BY <1>0
    <3>2. \A k \in 0 .. Len(s) : /\ SubSeq(s, 1, k) \in Seq(Names)
                                 /\ Len(SubSeq(s, 1, k)) = k
      BY <1>0
    <3>3. QED
      BY <3>1, <3>2 DEF Front
  <2>3. QED
    BY <1>0, <2>1, <2>2 DEF Folders
<1>3. CASE part \notin {".", ".."}
  <2>1. PushPart(s, part) = IF Len(s) < STACK THEN Append(s, part) ELSE s
    BY <1>3 DEF PushPart
  <2>2. part \in Names
    BY <1>3 DEF PathParts
  <2>3. Append(s, part) \in Seq(Names) /\ Len(Append(s, part)) = Len(s) + 1
    BY <1>0, <2>2
  <2>4. QED
    BY <1>0, <2>1, <2>3 DEF Folders
<1>4. QED
  BY <1>1, <1>2, <1>3

\* ... so that is what the resolver returns for every path.
LEMMA ResolveIs ==
  ASSUME NEW parts \in Seq(PathParts)
  PROVE  Resolve(parts) \in Folders
<1> DEFINE n == Len(parts)
           E(f) == f = [i \in 0 .. n |-> IF i = 0 THEN <<>> ELSE PushPart(f[i-1], parts[i])]
           g == [i \in 1 .. n |-> [s \in Folders |-> PushPart(s, parts[i])]]
<1>1. n \in Nat /\ \A i \in 1 .. n : parts[i] \in PathParts
  OBVIOUS
<1>2. g \in [1 .. n -> [Folders -> Folders]]
  BY <1>1, PushPartIs
<1>3. <<>> \in Folders
  <2>1. <<>> \in Seq(Names) /\ Len(<<>>) = 0
    OBVIOUS
  <2>2. Len(<<>>) <= STACK
    <3>1. STACK \in Nat
      BY RamFsAssumption
    <3>2. QED
      BY <2>1, <3>1
  <2>3. QED
    BY <2>1, <2>2 DEF Folders
<1>4. \E f \in [0 .. n -> Folders] : f[0] = <<>> /\ \A i \in 1 .. n : f[i] = g[i][f[i-1]]
  <2> DEFINE none == <<>>
  <2>1. none \in Folders
    BY <1>3
  <2> HIDE DEF g, n, none
  <2>2. \E f \in [0 .. n -> Folders] : f[0] = none /\ \A i \in 1 .. n : f[i] = g[i][f[i-1]]
    <3>1. n \in Nat
      BY <1>1
    <3>2. Iterates(Folders, none, n, g)
      BY <3>1, <1>2, <2>1, IteratesExist
    <3>3. QED
      BY <3>2 DEF Iterates
  <2>3. QED
    BY <2>2 DEF none
<1>5. \E f : E(f)
  <2>1. PICK f \in [0 .. n -> Folders] : f[0] = <<>> /\ \A i \in 1 .. n : f[i] = g[i][f[i-1]]
    BY <1>4
  <2>2. ASSUME NEW i \in 1 .. n PROVE f[i] = PushPart(f[i-1], parts[i])
    <3>1. i - 1 \in 0 .. n
      BY <1>1
    <3>2. f[i-1] \in Folders
      BY <2>1, <3>1
    <3>3. QED
      BY <2>1, <3>2
  <2>3. E(f)
    <3> HIDE DEF n, g
    <3>1. QED
      BY <1>1, <2>1, <2>2
  <2>4. QED
    BY <2>3
<1> DEFINE stack == CHOOSE f : E(f)
<1>6. E(stack)
  BY <1>5
<1>7. Resolve(parts) = stack[n]
  BY DEF Resolve
<1> DEFINE G == {i \in 0 .. n : stack[i] \in Folders}
<1> HIDE DEF stack
<1>8. 0 \in G
  BY <1>1, <1>3, <1>6
<1>9. ASSUME NEW i \in 1 .. n, i - 1 \in G PROVE i \in G
  <2>1. stack[i] = PushPart(stack[i-1], parts[i]) /\ stack[i-1] \in Folders
    BY <1>6, <1>9
  <2>2. QED
    BY <1>1, <2>1, PushPartIs
<1>10. n \in G
  <2> HIDE DEF G, n
  <2>1. 0 .. n \subseteq G
    BY <1>1, <1>8, <1>9, UpTo
  <2>2. QED
    BY <1>1, <2>1
<1>11. QED
  BY <1>7, <1>10
-----------------------------------------------------------------------------
(* Sequences                                                               *)

LEMMA SeqGrows ==
  ASSUME NEW S, NEW T, S \subseteq T, NEW s \in Seq(S)
  PROVE  s \in Seq(T)
<1>1. s \in [1 .. Len(s) -> T] /\ Len(s) \in Nat
  OBVIOUS
<1>2. QED
  BY <1>1

LEMMA ElementIs ==
  ASSUME NEW S, NEW s \in Seq(S), NEW i \in DOMAIN s
  PROVE  s[i] \in S
OBVIOUS

LEMMA LenIs ==
  ASSUME NEW S, NEW s \in Seq(S)
  PROVE  Len(s) \in Nat
OBVIOUS

LEMMA DomainIs ==
  ASSUME NEW S, NEW s \in Seq(S)
  PROVE  DOMAIN s = 1 .. Len(s) /\ Len(s) \in Nat /\ (Len(s) <= 0 => s = <<>>)
OBVIOUS

LEMMA SubSeqIs ==
  ASSUME NEW S, NEW s \in Seq(S), NEW n \in 0 .. Len(s)
  PROVE  /\ SubSeq(s, 1, n) \in Seq(S) /\ Len(SubSeq(s, 1, n)) = n
         /\ \A i \in 1 .. n : SubSeq(s, 1, n)[i] = s[i]
OBVIOUS

LEMMA SeqEq ==
  ASSUME NEW S, NEW s \in Seq(S), NEW t \in Seq(S), Len(s) = Len(t),
         \A i \in 1 .. Len(s) : s[i] = t[i]
  PROVE  s = t
OBVIOUS

LEMMA FrontIs ==
  ASSUME NEW S, NEW s \in Seq(S), Len(s) > 1
  PROVE  /\ Front(s) \in Seq(S) /\ Len(Front(s)) = Len(s) - 1
         /\ \A i \in 1 .. Len(s) - 1 : Front(s)[i] = s[i]
<1>1. Len(s) - 1 \in 0 .. Len(s)
  OBVIOUS
<1>2. QED
  BY <1>1, SubSeqIs DEF Front

LEMMA PrefixIs ==
  ASSUME NEW S, NEW s \in Seq(S), NEW t \in Seq(S)
  PROVE  IsPrefix(s, t) <=> Len(s) <= Len(t) /\ \A i \in 1 .. Len(s) : s[i] = t[i]
<1>1. CASE Len(s) <= Len(t)
  <2>1. Len(s) \in 0 .. Len(s) /\ Len(s) \in 0 .. Len(t)
    BY <1>1
  <2> DEFINE a == SubSeq(s, 1, Len(s))
             b == SubSeq(t, 1, Len(s))
  <2>2. /\ a \in Seq(S) /\ Len(a) = Len(s) /\ \A i \in 1 .. Len(s) : a[i] = s[i]
        /\ b \in Seq(S) /\ Len(b) = Len(s) /\ \A i \in 1 .. Len(s) : b[i] = t[i]
    BY <2>1, SubSeqIs
  <2>3. IsPrefix(s, t) <=> a = b
    BY <1>1 DEF IsPrefix
  <2> HIDE DEF a, b
  <2>4. (\A i \in 1 .. Len(s) : s[i] = t[i]) => a = b
    BY <2>2, SeqEq
  <2>5. QED
    BY <1>1, <2>2, <2>3, <2>4
<1>2. CASE ~(Len(s) <= Len(t))
  BY <1>2 DEF IsPrefix
<1>3. QED
  BY <1>1, <1>2

LEMMA InRange ==
  ASSUME NEW e PROVE e \in Range(<<e>>)
<1>1. 1 \in DOMAIN <<e>> /\ <<e>>[1] = e
  OBVIOUS
<1>2. QED
  BY <1>1 DEF Range

LEMMA AppendIs ==
  ASSUME NEW S, NEW s \in Seq(S), NEW e \in S
  PROVE  Append(s, e) \in Seq(S)
OBVIOUS

LEMMA LastIs ==
  ASSUME NEW S, NEW s \in Seq(S), s # <<>>
  PROVE  Last(s) \in S
BY DEF Last

-----------------------------------------------------------------------------
(* The inductive invariants                                                *)

\* An entry whose name is in N
Named(N) == [name : N, type : Types, content : Texts, active : BOOLEAN]

\* The table is a sequence of entries, whatever their names; no two active ones
\* share one.
IInv == (\E N : fs \in Seq(Named(N))) /\ NamesUnique

PathNames == Seq(Names \cup {""})

\* Of the names something must be known for a subtree to be cut off whole: that
\* they are sequences of components.
TreeInv == fs \in Seq(Named(PathNames)) /\ NamesUnique /\ ParentsExist

-----------------------------------------------------------------------------
(* The search                                                              *)

\* With unique names the first hit is the only one.
LEMMA FindIs ==
  ASSUME NEW N, fs \in Seq(Named(N)), NamesUnique, NEW p
  PROVE  /\ Find(p) # NotFound => Find(p) \in Active /\ fs[Find(p)].name = p
         /\ \A i \in Active : fs[i].name = p => Find(p) = i /\ i # NotFound
<1> DEFINE hits == {i \in Active : fs[i].name = p}
<1>1. Active \subseteq Nat \ {0}
  BY DEF Active
<1>2. Find(p) = IF hits = {} THEN NotFound ELSE Min(hits)
  BY DEF Find
<1>3. ASSUME NEW i \in hits PROVE hits = {i}
  BY DEF NamesUnique
<1>4. ASSUME NEW i \in hits PROVE Min(hits) = i /\ i # NotFound
  <2>1. hits = {i} /\ i \in Nat \ {0}
    BY <1>1, <1>3
  <2>2. Min({i}) = i
    BY <2>1 DEF Min
  <2>3. QED
    BY <2>1, <2>2 DEF NotFound
<1>5. QED
  BY <1>2, <1>4

\* IsDir is what it says.
LEMMA IsDirIs ==
  ASSUME NEW N, fs \in Seq(Named(N)), NamesUnique, NEW p
  PROVE  IsDir(p) <=> \E i \in Active : fs[i].name = p /\ fs[i].type = "DIR"
BY FindIs DEF IsDir
\* ... in the next state too
LEMMA IsDirIsNext ==
  ASSUME NEW N, (fs \in Seq(Named(N)))', NamesUnique', NEW p
  PROVE  IsDir(p)' <=> \E i \in Active' : fs'[i].name = p /\ fs'[i].type = "DIR"
<1> DEFINE hits == {i \in Active' : fs'[i].name = p}
<1>1. Active' \subseteq Nat \ {0}
  BY DEF Active
<1>2. Find(p)' = IF hits = {} THEN NotFound ELSE Min(hits)
  BY DEF Find
<1>3. ASSUME NEW i \in hits PROVE hits = {i}
  BY DEF NamesUnique
<1>4. ASSUME NEW i \in hits PROVE Find(p)' = i /\ i # NotFound
  <2>1. hits = {i} /\ i \in Nat \ {0}
    BY <1>1, <1>3
  <2>2. Min({i}) = i
    BY <2>1 DEF Min
  <2>3. QED
    BY <1>2, <2>1, <2>2 DEF NotFound
<1>5. hits = {} => Find(p)' = NotFound
  BY <1>2
<1>6. QED
  BY <1>4, <1>5 DEF IsDir

-----------------------------------------------------------------------------
(* What the commands do to the table                                       *)

LEMMA AddIs ==
  ASSUME NEW N, fs \in Seq(Named(N)), NEW p, NEW type \in Types, NEW text \in Texts,
         Add(p, type, text)
  PROVE  /\ fs' \in Seq(Named(N \cup {p}))
         /\ Active' = Active \cup {Len(fs) + 1} /\ Len(fs) + 1 \notin Active
         /\ \A i \in Active : fs'[i] = fs[i]
         /\ fs'[Len(fs) + 1].name = p /\ fs'[Len(fs) + 1].type = type
<1> DEFINE e == [name |-> p, type |-> type, content |-> text, active |-> TRUE]
<1>1. fs' = Append(fs, e) /\ e.active = TRUE /\ e.name = p /\ e.type = type
  BY DEF Add
<1>2. Named(N) \subseteq Named(N \cup {p}) /\ e \in Named(N \cup {p})
  BY DEF Named
<1> HIDE DEF e
<1>3. fs \in Seq(Named(N \cup {p}))
  BY <1>2, SeqGrows
<1>4. /\ fs' \in Seq(Named(N \cup {p})) /\ DOMAIN fs' = 1 .. Len(fs) + 1
      /\ fs'[Len(fs) + 1] = e /\ \A i \in 1 .. Len(fs) : fs'[i] = fs[i]
  BY <1>1, <1>2, <1>3
<1>5. DOMAIN fs = 1 .. Len(fs) /\ Len(fs) \in Nat
  OBVIOUS
<1>6. QED
  BY <1>1, <1>4, <1>5 DEF Active

\* A new name stays the only one.
LEMMA AddUnique ==
  ASSUME NEW N, fs \in Seq(Named(N)), NamesUnique,
         NEW p, NEW type \in Types, NEW text \in Texts,
         Find(p) = NotFound, Add(p, type, text)
  PROVE  NamesUnique'
<1>1. \A i \in Active : fs[i].name # p
  BY FindIs
<1>2. /\ Active' = Active \cup {Len(fs) + 1} /\ Len(fs) + 1 \notin Active
      /\ \A i \in Active : fs'[i] = fs[i]
      /\ fs'[Len(fs) + 1].name = p
  BY AddIs
<1>3. QED
  BY <1>1, <1>2 DEF NamesUnique

\* A new text leaves names and types alone.
LEMMA OverwriteIs ==
  ASSUME NEW N, fs \in Seq(Named(N)), NEW k \in Active, NEW text \in Texts,
         fs' = [fs EXCEPT ![k].content = text]
  PROVE  /\ fs' \in Seq(Named(N)) /\ Active' = Active
         /\ \A i \in Active : fs'[i].name = fs[i].name /\ fs'[i].type = fs[i].type
<1>1. DOMAIN fs = 1 .. Len(fs) /\ Len(fs) \in Nat /\ DOMAIN fs' = DOMAIN fs
  OBVIOUS
<1>2. ASSUME NEW i \in DOMAIN fs
      PROVE  /\ fs'[i] \in Named(N) /\ fs'[i].name = fs[i].name
             /\ fs'[i].type = fs[i].type /\ fs'[i].active = fs[i].active
  <2>1. fs[i] \in Named(N)
    BY <1>1
  <2>2. CASE i = k
    BY <2>1, <2>2 DEF Named
  <2>3. CASE i # k
    BY <2>1, <2>3
  <2>4. QED
    BY <2>2, <2>3
<1>3. fs' \in [1 .. Len(fs) -> Named(N)]
  BY <1>1, <1>2
<1>4. QED
  BY <1>1, <1>2, <1>3 DEF Active

\* A removal only takes entries away: the one of that name and, if it is a
\* directory, what is under it.
LEMMA RmIs ==
  ASSUME NEW N, fs \in Seq(Named(N)), NEW p, NEW r, Rm(p, r)
  PROVE  /\ fs' \in Seq(Named(N))
         /\ Active' = {j \in Active : /\ j # Find(p)
                                      /\ ~(fs[Find(p)].type = "DIR" /\ Under(fs[j].name, p))}
         /\ \A j \in Active' : fs'[j].name = fs[j].name /\ fs'[j].type = fs[j].type
         /\ \A j \in Active : fs'[j].name = fs[j].name
<1> DEFINE Stays(j) == /\ j # Find(p)
                       /\ ~(fs[Find(p)].type = "DIR" /\ Under(fs[j].name, p))
<1>1. fs' = [j \in DOMAIN fs |-> [fs[j] EXCEPT !.active = fs[j].active /\ Stays(j)]]
  BY DEF Rm
<1>2. \A j \in DOMAIN fs : Stays(j) \in BOOLEAN
  OBVIOUS
<1> HIDE DEF Stays
<1>3. ASSUME NEW j \in DOMAIN fs
      PROVE  /\ fs'[j] \in Named(N) /\ fs'[j].name = fs[j].name /\ fs'[j].type = fs[j].type
             /\ fs'[j].active <=> fs[j].active /\ Stays(j)
  <2>1. fs[j] \in Named(N)
    BY ElementIs
  <2>2. (fs[j].active /\ Stays(j)) \in BOOLEAN
    OBVIOUS
  <2>3. fs'[j] = [fs[j] EXCEPT !.active = fs[j].active /\ Stays(j)]
    BY <1>1
  <2>4. QED
    BY <2>1, <2>2, <2>3 DEF Named
<1>4. DOMAIN fs = 1 .. Len(fs) /\ Len(fs) \in Nat /\ DOMAIN fs' = DOMAIN fs
  BY <1>1
<1>5. fs' \in [1 .. Len(fs) -> Named(N)]
  BY <1>1, <1>3, <1>4
<1>6. QED
  BY <1>3, <1>4, <1>5 DEF Active, Stays

LEMMA FoundIs ==
  ASSUME NEW N, fs \in Seq(Named(N)), NEW p, Find(p) # NotFound
  PROVE  /\ Find(p) \in Active /\ fs[Find(p)].name = p
         /\ fs[Find(p)].type \in Types /\ fs[Find(p)].content \in Texts
<1> DEFINE hits == {i \in Active : fs[i].name = p}
<1>0. hits \subseteq Nat /\ Find(p) = IF hits = {} THEN NotFound ELSE Min(hits)
  BY DEF Active, Find
<1>1. Find(p) \in Active /\ fs[Find(p)].name = p
  <2> HIDE DEF hits
  <2>1. \E x \in hits : \A y \in hits : x <= y
    BY <1>0, LeastNat
  <2>2. Min(hits) \in hits
    BY <2>1 DEF Min
  <2>3. QED
    BY <1>0, <2>2 DEF hits
<1>2. fs[Find(p)] \in Named(N)
  BY <1>1, ElementIs DEF Active
<1>3. QED
  BY <1>1, <1>2 DEF Named

\* What write and cp do to a path that is no directory: the file there gets the
\* text, or a new one is made.
Filled(p, text) ==
  IF IsFile(p) THEN fs' = [fs EXCEPT ![Find(p)].content = text]
               ELSE Add(p, "REG", text)

LEMMA FilledIs ==
  ASSUME NEW N, fs \in Seq(Named(N)), NamesUnique, NEW p, NEW text \in Texts,
         ~IsDir(p), Filled(p, text)
  PROVE  \/ /\ Find(p) = NotFound /\ Add(p, "REG", text)
         \/ /\ Find(p) \in Active /\ fs' = [fs EXCEPT ![Find(p)].content = text]
<1>1. CASE IsFile(p)
  BY <1>1, FoundIs DEF Filled, IsFile
<1>2. CASE ~IsFile(p)
  BY <1>2, FoundIs DEF Filled, IsFile, IsDir, Types
<1>3. QED
  BY <1>1, <1>2

LEMMA CpIs ==
  ASSUME NEW N, fs \in Seq(Named(N)), NEW p, NEW q, Cp(p, q)
  PROVE  LET final == FinalDest(p, q)
         IN  /\ ~IsDir(final) /\ ParentExists(final)
             /\ \E text \in Texts : Filled(final, text)
<1>1. fs[Find(p)].content \in Texts
  BY FoundIs DEF Cp, IsFile
<1>2. QED
  BY <1>1 DEF Cp, Filled

-----------------------------------------------------------------------------
(* Types                                                                   *)

\* TypeOK, said with the sets of the lemmas above
TypeInv == fs \in Seq(Entries) /\ Len(fs) <= MAX_FILES /\ cwd \in Folders

LEMMA EntriesAre == Entries = Named(Paths)
BY DEF Entries, Named

LEMMA PathsAre == \A p : p \in Paths <=> p \in PathNames /\ Len(p) <= NameMax
<1> DEFINE D == Names \cup {""}
<1>1. Paths = UNION {[1..n -> D] : n \in 0..NameMax} /\ PathNames = Seq(D)
  BY DEF Paths, PathNames
<1>2. NameMax \in Nat
  BY RamFsAssumption
<1> HIDE DEF D
<1>3. ASSUME NEW p \in Paths PROVE p \in Seq(D) /\ Len(p) <= NameMax
  <2>1. PICK n \in 0 .. NameMax : p \in [1..n -> D]
    BY <1>1
  <2>2. n \in Nat /\ n <= NameMax
    BY <1>2, <2>1
  <2>3. p \in Seq(D) /\ Len(p) = n
    BY <2>1, <2>2
  <2>4. QED
    BY <2>2, <2>3
<1>4. ASSUME NEW p \in Seq(D), Len(p) <= NameMax PROVE p \in Paths
  <2>1. Len(p) \in 0 .. NameMax /\ p \in [1 .. Len(p) -> D]
    BY <1>2, <1>4
  <2>2. QED
    BY <1>1, <2>1
<1>5. QED
  BY <1>1, <1>3, <1>4

LEMMA FoldersArePaths ==
  ASSUME NEW p \in Folders
  PROVE  p \in Seq(Names) /\ p \in PathNames /\ p \in Paths
<1>1. p \in Seq(Names) /\ Len(p) <= STACK /\ Len(p) \in Nat
  <2>1. p \in Seq(Names) /\ Len(p) <= STACK
    BY DEF Folders
  <2>2. QED
    BY <2>1, LenIs
<1>2. p \in PathNames
  BY <1>1, SeqGrows DEF PathNames
<1>3. STACK \in Nat /\ NameMax \in Nat /\ STACK <= NameMax
  BY RamFsAssumption
<1>4. QED
  BY <1>1, <1>2, <1>3, PathsAre

LEMMA RootIsFolder == Root \in Folders
<1>1. Root \in Seq(Names) /\ Len(Root) = 0
  BY DEF Root
<1>2. STACK \in Nat
  BY RamFsAssumption
<1>3. QED
  BY <1>1, <1>2 DEF Folders

\* Whatever the working directory and the argument
LEMMA TargetsAre ==
  ASSUME cwd \in Folders
  PROVE  Targets \subseteq Folders
<1>1. SUFFICES ASSUME NEW arg \in Args PROVE ToAbsolutePath(arg) \in Folders
  BY DEF Targets
<1>2. arg.parts \in Seq(PathParts)
  <2>1. arg.parts \in Seq(Names \cup {".", ".."})
    BY RamFsAssumption
  <2>2. QED
    BY <2>1 DEF PathParts
<1>3. cwd \in Seq(PathParts) /\ <<>> \in Seq(PathParts)
  <2>1. cwd \in Seq(Names) /\ Names \subseteq PathParts
    BY DEF Folders, PathParts
  <2>2. QED
    BY <2>1, SeqGrows
<1>4. (IF arg.absolute THEN <<>> ELSE cwd) \o arg.parts \in Seq(PathParts)
  BY <1>2, <1>3
<1>5. QED
  BY <1>4, ResolveIs DEF ToAbsolutePath

\* Where cp and mv put what they are given is a path of components.
LEMMA FinalDestIs ==
  ASSUME NEW p \in Seq(Names), NEW q \in Seq(Names)
  PROVE  FinalDest(p, q) \in PathNames
<1>1. p \in PathNames /\ q \in PathNames
  BY SeqGrows DEF PathNames
<1>2. Append(q, "") \in PathNames
  BY <1>1, AppendIs DEF PathNames
<1>3. p # Root => Append(q, Last(p)) \in PathNames
  <2>1. p # Root => Last(p) \in Names
    BY LastIs DEF Root
  <2>2. QED
    BY <1>1, <2>1, AppendIs DEF PathNames
<1>4. QED
  BY <1>1, <1>2, <1>3 DEF FinalDest

LEMMA TypeInvInit == Init => TypeInv
BY RamFsAssumption, RootIsFolder DEF Init, TypeInv

LEMMA AddType ==
  ASSUME TypeInv, NEW p \in Paths, NEW type \in Types, NEW text \in Texts,
         Add(p, type, text)
  PROVE  fs' \in Seq(Entries) /\ Len(fs') <= MAX_FILES
<1>1. fs \in Seq(Named(Paths))
  BY EntriesAre DEF TypeInv
<1>2. fs' \in Seq(Named(Paths \cup {p}))
  BY <1>1, AddIs
<1>3. Paths \cup {p} = Paths
  OBVIOUS
<1>4. fs' \in Seq(Entries)
  BY <1>2, <1>3, EntriesAre
<1>5. Len(fs') = Len(fs) + 1 /\ Len(fs) < MAX_FILES /\ Len(fs) \in Nat
  BY <1>1 DEF Add, fs_count
<1>6. MAX_FILES \in Nat
  BY RamFsAssumption
<1>7. QED
  BY <1>4, <1>5, <1>6

LEMMA FilledType ==
  ASSUME TypeInv, NEW p \in Paths, NEW text \in Texts, Filled(p, text)
  PROVE  fs' \in Seq(Entries) /\ Len(fs') <= MAX_FILES
<1>1. fs \in Seq(Named(Paths))
  BY EntriesAre DEF TypeInv
<1>2. CASE IsFile(p)
  <2>1. Find(p) \in Active
    BY <1>1, <1>2, FoundIs DEF IsFile
  <2>2. fs' = [fs EXCEPT ![Find(p)].content = text]
    BY <1>2 DEF Filled
  <2>3. fs' \in Seq(Entries)
    BY <1>1, <2>1, <2>2, OverwriteIs, EntriesAre
  <2>4. Len(fs') = Len(fs)
    BY <1>1, <2>2
  <2>5. QED
    BY <2>3, <2>4 DEF TypeInv
<1>3. CASE ~IsFile(p)
  BY <1>3, AddType DEF Filled, Types
<1>4. QED
  BY <1>2, <1>3

LEMMA RmType ==
  ASSUME TypeInv, NEW p, NEW r, Rm(p, r)
  PROVE  fs' \in Seq(Entries) /\ Len(fs') <= MAX_FILES
<1>1. fs \in Seq(Named(Paths))
  BY EntriesAre DEF TypeInv
<1>2. fs' \in Seq(Entries)
  BY <1>1, RmIs, EntriesAre
<1>3. DOMAIN fs' = DOMAIN fs
  BY DEF Rm
<1>4. Len(fs') = Len(fs)
  BY <1>1, <1>2, <1>3
<1>5. QED
  BY <1>2, <1>4 DEF TypeInv

LEMMA SlashedIs ==
  ASSUME NEW p \in PathNames
  PROVE  Slashed(p) \in PathNames /\ Len(Slashed(p)) \in Nat \ {0}
<1> DEFINE D == Names \cup {""}
<1>1. PathNames = Seq(D) /\ "" \in D
  BY DEF PathNames
<1> HIDE DEF D
<1>2. CASE p = Root
  <2>1. PICK e \in D : e = ""
    BY <1>1
  <2>2. <<e>> \in Seq(D) /\ Len(<<e>>) = 1
    OBVIOUS
  <2>3. Slashed(p) = <<e>>
    BY <1>2, <2>1 DEF Slashed
  <2>4. Slashed(p) \in Seq(D) /\ Len(Slashed(p)) = 1
    BY <2>2, <2>3
  <2>5. Slashed(p) \in PathNames
    BY <1>1, <2>4
  <2>6. Len(Slashed(p)) \in Nat \ {0}
    BY <2>4
  <2>7. QED
    BY <2>5, <2>6
<1>3. CASE p # Root
  <2>1. p \in Seq(D) /\ p # <<>>
    BY <1>1, <1>3 DEF Root
  <2>2. Len(p) \in Nat \ {0}
    BY <2>1
  <2>3. QED
    BY <1>3, <2>2 DEF Slashed
<1>4. QED
  BY <1>2, <1>3

LEMMA ConcatIs ==
  ASSUME NEW S, NEW s \in Seq(S), NEW t \in Seq(S)
  PROVE  /\ s \o t \in Seq(S) /\ Len(s \o t) = Len(s) + Len(t)
         /\ \A k \in 1 .. Len(s) : (s \o t)[k] = s[k]
         /\ \A k \in 1 .. Len(t) : (s \o t)[Len(s) + k] = t[k]
OBVIOUS

LEMMA SuffixIs ==
  ASSUME NEW n \in PathNames, NEW p \in PathNames, Under(n, p)
  PROVE  /\ Suffix(n, p) \in PathNames
         /\ Len(Suffix(n, p)) = Len(n) - Len(Slashed(p))
         /\ \A k \in 1 .. Len(n) - Len(Slashed(p)) :
              Suffix(n, p)[k] = n[Len(Slashed(p)) + k]
<1> DEFINE D == Names \cup {""}
           m == Len(Slashed(p))
<1>1. n \in Seq(D) /\ Len(n) \in Nat
  BY LenIs DEF PathNames
<1>2. m \in Nat \ {0} /\ Len(n) > m
  BY SlashedIs DEF Under
<1>3. Suffix(n, p) = SubSeq(n, m + 1, Len(n))
  BY DEF Suffix
<1>4. PathNames = Seq(D)
  BY DEF PathNames
<1> HIDE DEF D, m
<1>5. QED
  BY <1>1, <1>2, <1>3, <1>4 DEF m

LEMMA MvType ==
  ASSUME TypeInv, NEW p \in Seq(Names), NEW q \in Seq(Names), Mv(p, q)
  PROVE  fs' \in Seq(Entries) /\ Len(fs') <= MAX_FILES
<1> DEFINE final == FinalDest(p, q)
           Renamed(j) ==
             IF j = Find(p) THEN final
             ELSE IF j \in Active /\ fs[Find(p)].type = "DIR" /\ Under(fs[j].name, p)
             THEN Slashed(final) \o Suffix(fs[j].name, p)
             ELSE fs[j].name
<1>1. /\ \A j \in DOMAIN fs : Len(Renamed(j)) <= NameMax
      /\ fs' = [j \in DOMAIN fs |-> [fs[j] EXCEPT !.name = Renamed(j)]]
  BY DEF Mv
<1>2. \A j \in DOMAIN fs : fs[j] \in Entries /\ fs[j].name \in PathNames
  <2>1. \A j \in DOMAIN fs : fs[j] \in Entries
    BY ElementIs DEF TypeInv
  <2>2. QED
    BY <2>1, PathsAre DEF Entries
<1>3. ASSUME NEW j \in DOMAIN fs PROVE Renamed(j) \in Paths
  <2>1. final \in PathNames /\ Slashed(final) \in PathNames /\ p \in PathNames
    BY FinalDestIs, SlashedIs, SeqGrows DEF PathNames
  <2>2. Under(fs[j].name, p) => Slashed(final) \o Suffix(fs[j].name, p) \in PathNames
    <3>1. ASSUME Under(fs[j].name, p) PROVE Suffix(fs[j].name, p) \in PathNames
      BY <1>2, <2>1, <3>1, SuffixIs
    <3>2. QED
      BY <2>1, <3>1, ConcatIs DEF PathNames
  <2>3. Renamed(j) \in PathNames
    BY <1>2, <2>1, <2>2
  <2> HIDE DEF Renamed
  <2>4. QED
    BY <1>1, <2>3, PathsAre
<1> HIDE DEF Renamed
<1>4. fs \in Seq(Entries) /\ DOMAIN fs = 1 .. Len(fs) /\ Len(fs) \in Nat
  BY DEF TypeInv
<1>5. ASSUME NEW j \in DOMAIN fs PROVE fs'[j] \in Entries
  BY <1>1, <1>2, <1>3 DEF Entries
<1>6. fs' \in [1 .. Len(fs) -> Entries]
  BY <1>1, <1>4, <1>5
<1>7. fs' \in Seq(Entries) /\ Len(fs') = Len(fs)
  BY <1>4, <1>6
<1>8. QED
  BY <1>7 DEF TypeInv

LEMMA TypeInvStep == TypeInv /\ [Next]_vars => TypeInv'
<1> SUFFICES ASSUME TypeInv, [Next]_vars PROVE TypeInv'
  OBVIOUS
<1>0. \A p \in Targets \cup {Root} : p \in Folders /\ p \in Seq(Names) /\ p \in Paths
  BY TargetsAre, RootIsFolder, FoldersArePaths DEF TypeInv
<1>1. ASSUME NEW p \in Targets, Touch(p) PROVE TypeInv'
  BY <1>0, <1>1, AddType, RamFsAssumption DEF Touch, Types, TypeInv
<1>2. ASSUME NEW p \in Targets, NEW text \in Texts, Write(p, text) PROVE TypeInv'
  BY <1>0, <1>2, FilledType DEF Write, Filled, TypeInv
<1>3. ASSUME NEW p \in Targets, Mkdir(p) PROVE TypeInv'
  BY <1>0, <1>3, AddType, RamFsAssumption DEF Mkdir, Types, TypeInv
<1>4. ASSUME NEW p \in Targets \cup {Root}, Cd(p) PROVE TypeInv'
  BY <1>0, <1>4 DEF Cd, TypeInv
<1>5. ASSUME NEW p \in Targets, NEW q \in Targets, Cp(p, q) PROVE TypeInv'
  <2> DEFINE final == FinalDest(p, q)
  <2>1. final \in PathNames /\ Len(final) <= NameMax
    BY <1>0, <1>5, FinalDestIs DEF Cp
  <2>2. final \in Paths
    BY <2>1, PathsAre
  <2>3. fs \in Seq(Named(Paths)) /\ \E text \in Texts : Filled(final, text)
    BY <1>5, EntriesAre, CpIs DEF TypeInv
  <2> HIDE DEF final
  <2>4. fs' \in Seq(Entries) /\ Len(fs') <= MAX_FILES
    BY <2>2, <2>3, FilledType
  <2>5. QED
    BY <1>5, <2>4 DEF Cp, TypeInv
<1>6. ASSUME NEW p \in Targets, NEW q \in Targets, Mv(p, q) PROVE TypeInv'
  BY <1>0, <1>6, MvType DEF Mv, TypeInv
<1>7. ASSUME NEW p, NEW r \in BOOLEAN, Rm(p, r) PROVE TypeInv'
  BY <1>7, RmType DEF Rm, TypeInv
<1>8. CASE UNCHANGED vars
  BY <1>8 DEF vars, TypeInv
<1>9. QED
  BY <1>1, <1>2, <1>3, <1>4, <1>5, <1>6, <1>7, <1>8 DEF Next, Unmoving

LEMMA TypeInvIs == TypeInv => TypeOK
<1> SUFFICES ASSUME TypeInv PROVE TypeOK
  OBVIOUS
<1>1. Resolved
  BY TargetsAre DEF TypeInv, Resolved, Folders
<1>2. cwd \in Paths /\ cwd \in Seq(Names) /\ Len(cwd) <= STACK
  BY FoldersArePaths DEF TypeInv, Folders
<1>3. Range(cwd) \subseteq Names
  BY <1>2 DEF Range
<1>4. QED
  BY <1>1, <1>2, <1>3 DEF TypeOK, TypeInv, fs_count

LEMMA TypeInvariant == Spec => []TypeInv
BY TypeInvInit, TypeInvStep, PTL DEF Spec

\* Whatever the commands, mv among them: the table keeps its type and its size,
\* and every argument is resolved to a path of names (TypeOK).
THEOREM TypeCorrect == Spec => []TypeOK
BY TypeInvariant, TypeInvIs, PTL

-----------------------------------------------------------------------------
(* Names stay unique                                                       *)

LEMMA InvInit == Init => IInv
<1> SUFFICES ASSUME Init PROVE IInv
  OBVIOUS
<1>1. fs \in Seq(Named(Paths))
  BY RamFsAssumption DEF Init, Entries, Named
<1>2. NamesUnique
  BY InitFsAssumption DEF Init, NamesUnique, Active
<1>3. QED
  BY <1>1, <1>2 DEF IInv

LEMMA AddInv ==
  ASSUME IInv, NEW p, NEW type \in Types, NEW text \in Texts,
         Find(p) = NotFound, Add(p, type, text)
  PROVE  IInv'
<1>1. PICK N : fs \in Seq(Named(N))
  BY DEF IInv
<1>2. fs' \in Seq(Named(N \cup {p}))
  BY <1>1, AddIs
<1>3. NamesUnique'
  BY <1>1, AddUnique DEF IInv
<1>4. QED
  BY <1>2, <1>3 DEF IInv

LEMMA FilledInv ==
  ASSUME IInv, NEW p, NEW text \in Texts, ~IsDir(p), Filled(p, text)
  PROVE  IInv'
<1>1. PICK N : fs \in Seq(Named(N))
  BY DEF IInv
<1>2. CASE Find(p) = NotFound /\ Add(p, "REG", text)
  BY <1>2, AddInv DEF Types
<1>3. CASE Find(p) \in Active /\ fs' = [fs EXCEPT ![Find(p)].content = text]
  <2>1. /\ fs' \in Seq(Named(N)) /\ Active' = Active
        /\ \A i \in Active : fs'[i].name = fs[i].name
    BY <1>1, <1>3, OverwriteIs
  <2>2. NamesUnique'
    BY <2>1 DEF IInv, NamesUnique
  <2>3. QED
    BY <2>1, <2>2 DEF IInv
<1>4. QED
  BY <1>1, <1>2, <1>3, FilledIs DEF IInv

\* Without mv nothing is renamed.
LEMMA WithoutMv == "mv" \notin Commands /\ [Next]_vars => [Unmoving]_vars
BY DEF Next

LEMMA InvStep ==
  ASSUME IInv, [Unmoving]_vars PROVE IInv'
<1>1. ASSUME NEW p \in Targets, Touch(p) PROVE IInv'
  BY <1>1, AddInv, RamFsAssumption DEF Touch, Types
<1>2. ASSUME NEW p \in Targets, NEW text \in Texts, Write(p, text) PROVE IInv'
  BY <1>2, FilledInv DEF Write, Filled
<1>3. ASSUME NEW p \in Targets, Mkdir(p) PROVE IInv'
  BY <1>3, AddInv, RamFsAssumption DEF Mkdir, Types
<1>4. ASSUME UNCHANGED fs PROVE IInv'
  BY <1>4 DEF IInv, NamesUnique, Active
<1>5. ASSUME NEW p \in Targets, NEW q \in Targets, Cp(p, q) PROVE IInv'
  <2>1. PICK N : fs \in Seq(Named(N))
    BY DEF IInv
  <2>2. PICK text \in Texts : ~IsDir(FinalDest(p, q)) /\ Filled(FinalDest(p, q), text)
    BY <1>5, <2>1, CpIs DEF IInv
  <2>3. QED
    BY <2>2, FilledInv
<1>6. ASSUME NEW p, NEW r \in BOOLEAN, Rm(p, r) PROVE IInv'
  <2>1. PICK N : fs \in Seq(Named(N))
    BY DEF IInv
  <2>2. /\ fs' \in Seq(Named(N)) /\ Active' \subseteq Active
        /\ \A j \in Active' : fs'[j].name = fs[j].name
    BY <1>6, <2>1, RmIs
  <2>3. NamesUnique'
    BY <2>2 DEF IInv, NamesUnique
  <2>4. QED
    BY <2>2, <2>3 DEF IInv
<1>7. QED
  BY <1>1, <1>2, <1>3, <1>4, <1>5, <1>6 DEF Unmoving, Cd, vars

\* Nothing but mv ever gives two entries one name (NamesUnique): every command
\* finds the node of the path it was given.
THEOREM NamesStayUnique ==
  ASSUME "mv" \notin Commands PROVE Spec => []NamesUnique
<1>1. Init => IInv
  BY InvInit
<1>2. IInv /\ [Next]_vars => IInv'
  BY InvStep, WithoutMv
<1>3. IInv => NamesUnique
  BY DEF IInv
<1>4. QED
  BY <1>1, <1>2, <1>3, PTL DEF Spec

-----------------------------------------------------------------------------
(* The table stays a tree                                                  *)

\* With unique names a parent is a directory entry of that name.
LEMMA ParentsExistIs ==
  ASSUME NEW N, fs \in Seq(Named(N)), NamesUnique
  PROVE  ParentsExist <=> \A i \in Active : Len(fs[i].name) <= 1 \/
                            \E k \in Active : /\ fs[k].name = Parent(fs[i].name)
                                              /\ fs[k].type = "DIR"
BY IsDirIs DEF ParentsExist, ParentExists

LEMMA ParentsExistIsNext ==
  ASSUME NEW N, (fs \in Seq(Named(N)))', NamesUnique'
  PROVE  ParentsExist' <=> \A i \in Active' : Len(fs'[i].name) <= 1 \/
                             \E k \in Active' : /\ fs'[k].name = Parent(fs'[i].name)
                                                /\ fs'[k].type = "DIR"
BY IsDirIsNext DEF ParentsExist, ParentExists

\* What is inside a directory, or inside one under it, is under it: the name of
\* a child continues that of its parent.
LEMMA ChildIsUnder ==
  ASSUME NEW S, NEW p \in Seq(S), NEW n \in Seq(S), Len(n) > 1
  PROVE  "" \in S /\ (Parent(n) = p \/ Under(Parent(n), p)) => Under(n, p)
<1>0. SUFFICES ASSUME "" \in S, Parent(n) = p \/ Under(Parent(n), p)
               PROVE  Under(n, p)
  OBVIOUS
<1>9. PICK e \in S : e = ""
  BY <1>0
<1>1. /\ Len(n) \in Nat /\ Len(p) \in Nat /\ Front(n) \in Seq(S)
      /\ Len(Front(n)) = Len(n) - 1
      /\ \A i \in 1 .. Len(n) - 1 : Front(n)[i] = n[i]
  BY FrontIs
<1> DEFINE f == Front(n)
<1>2. Parent(n) = IF f = <<e>> THEN <<>> ELSE f
  BY <1>9 DEF Parent, Root
<1> HIDE DEF f
<1>3. /\ f \in Seq(S) /\ Len(f) = Len(n) - 1 /\ \A i \in 1 .. Len(n) - 1 : f[i] = n[i]
  BY <1>1 DEF f
<1>4. CASE p = <<>>
  <2>0. Slashed(p) = <<e>>
    BY <1>4, <1>9 DEF Slashed, Root
  <2>1. Slashed(p) = <<e>> /\ <<e>> \in Seq(S) /\ Len(<<e>>) = 1 /\ <<e>>[1] = e
    BY <2>0
  <2>2. n[1] = e
    <3>1. CASE f = <<e>>
      BY <1>3, <2>1, <3>1
    <3>2. CASE f # <<e>>
      <4>1. f # <<>>
        BY <1>1, <1>3
      <4>2. Under(f, p)
        BY <1>0, <1>2, <1>4, <3>2, <4>1
      <4>3. IsPrefix(<<e>>, f)
        BY <2>1, <4>2 DEF Under
      <4>4. f[1] = e
        <5>1. PICK w \in Seq(S) : w = <<e>>
          BY <2>1
        <5>2. IsPrefix(w, f) => \A i \in 1 .. Len(w) : w[i] = f[i]
          BY <1>3, PrefixIs
        <5>3. \A i \in 1 .. 1 : <<e>>[i] = f[i]
          BY <2>1, <4>3, <5>1, <5>2
        <5>4. QED
          BY <2>1, <5>3
      <4>5. QED
        BY <1>1, <1>3, <4>4
    <3>3. QED
      BY <3>1, <3>2
  <2>3. IsPrefix(<<e>>, n)
    <3>1. Len(<<e>>) <= Len(n) /\ \A i \in 1 .. Len(<<e>>) : <<e>>[i] = n[i]
      BY <1>1, <2>1, <2>2
    <3>2. QED
      BY <2>1, <3>1, PrefixIs
  <2>4. QED
    BY <1>1, <2>1, <2>3 DEF Under
<1>5. CASE p # <<>>
  <2>1. Slashed(p) = p /\ Len(p) >= 1
    BY <1>1, <1>5 DEF Slashed, Root
  <2>2. Parent(n) # <<>>
    <3>1. Under(Parent(n), p) => Len(Parent(n)) > Len(p)
      BY <2>1 DEF Under
    <3>2. Parent(n) = <<>> => Len(Parent(n)) = 0
      OBVIOUS
    <3>3. CASE Parent(n) = p
      BY <1>5, <3>3
    <3>4. CASE Under(Parent(n), p)
      <4>1. Len(Parent(n)) > 0
        BY <1>1, <2>1, <3>1, <3>4
      <4>2. QED
        BY <3>2, <4>1
    <3>5. QED
      BY <1>0, <3>3, <3>4
  <2>3. Parent(n) = f
    BY <1>2, <2>2
  <2>4. Len(p) <= Len(f) /\ \A i \in 1 .. Len(p) : p[i] = f[i]
    <3>1. CASE p = f
      BY <1>3, <3>1
    <3>2. CASE Under(f, p)
      <4>1. IsPrefix(p, f)
        BY <2>1, <3>2 DEF Under
      <4>2. QED
        BY <1>3, <4>1, PrefixIs
    <3>3. QED
      BY <1>0, <2>3, <3>1, <3>2
  <2>5. Len(p) < Len(n) /\ \A i \in 1 .. Len(p) : p[i] = n[i]
    BY <1>1, <1>3, <2>4
  <2>6. IsPrefix(p, n)
    BY <1>1, <2>5, PrefixIs
  <2>7. QED
    BY <2>1, <2>5, <2>6 DEF Under
<1>6. QED
  BY <1>4, <1>5

\* An entry that stays under its own name and type is found as before; so a new
\* entry inside a directory keeps the table a tree, and a new text does.
LEMMA TreeKept ==
  ASSUME TreeInv, (fs \in Seq(Named(PathNames)))', NamesUnique',
         \A i \in Active : /\ i \in Active'
                           /\ fs'[i].name = fs[i].name /\ fs'[i].type = fs[i].type,
         \A i \in Active' : i \notin Active => ParentExists(fs'[i].name)
  PROVE  TreeInv'
<1>1. \A i \in Active : Len(fs[i].name) <= 1 \/
        \E k \in Active : fs[k].name = Parent(fs[i].name) /\ fs[k].type = "DIR"
  BY ParentsExistIs DEF TreeInv
<1>2. ASSUME NEW i \in Active'
      PROVE  Len(fs'[i].name) <= 1 \/
             \E k \in Active : fs[k].name = Parent(fs'[i].name) /\ fs[k].type = "DIR"
  <2>1. CASE i \in Active
    BY <1>1, <2>1
  <2>2. CASE i \notin Active
    BY <2>2, IsDirIs DEF ParentExists, TreeInv
  <2>3. QED
    BY <2>1, <2>2
<1>3. ParentsExist'
  BY <1>2, ParentsExistIsNext
<1>4. QED
  BY <1>3 DEF TreeInv

LEMMA AddTree ==
  ASSUME TreeInv, NEW p \in PathNames, NEW type \in Types, NEW text \in Texts,
         Find(p) = NotFound, ParentExists(p), Add(p, type, text)
  PROVE  TreeInv'
<1>1. PathNames \cup {p} = PathNames
  OBVIOUS
<1>2. fs \in Seq(Named(PathNames)) /\ NamesUnique
  BY DEF TreeInv
<1>3. /\ (fs \in Seq(Named(PathNames)))'
      /\ Active' = Active \cup {Len(fs) + 1} /\ Len(fs) + 1 \notin Active
      /\ \A i \in Active : fs'[i] = fs[i]
      /\ fs'[Len(fs) + 1].name = p
  <2>1. fs' \in Seq(Named(PathNames \cup {p}))
    BY <1>2, AddIs
  <2>2. QED
    BY <1>1, <1>2, <2>1, AddIs
<1>4. NamesUnique'
  BY <1>2, AddUnique
<1>5. \A i \in Active' : i \notin Active => ParentExists(fs'[i].name)
  BY <1>3
<1>6. QED
  BY <1>3, <1>4, <1>5, TreeKept

LEMMA FilledTree ==
  ASSUME TreeInv, NEW p \in PathNames, NEW text \in Texts,
         ~IsDir(p), ParentExists(p), Filled(p, text)
  PROVE  TreeInv'
<1>1. fs \in Seq(Named(PathNames)) /\ NamesUnique
  BY DEF TreeInv
<1>2. CASE Find(p) = NotFound /\ Add(p, "REG", text)
  BY <1>2, AddTree DEF Types
<1>3. CASE Find(p) \in Active /\ fs' = [fs EXCEPT ![Find(p)].content = text]
  <2>1. /\ (fs \in Seq(Named(PathNames)))' /\ Active' = Active
        /\ \A i \in Active : fs'[i].name = fs[i].name /\ fs'[i].type = fs[i].type
    BY <1>1, <1>3, OverwriteIs
  <2>2. NamesUnique'
    BY <1>1, <2>1 DEF NamesUnique
  <2>3. QED
    BY <2>1, <2>2, TreeKept
<1>4. QED
  BY <1>1, <1>2, <1>3, FilledIs

\* A removal takes whole subtrees: no entry loses its parent and stays.
LEMMA RmTree ==
  ASSUME TreeInv, NEW p, NEW r, Rm(p, r)
  PROVE  TreeInv'
<1> DEFINE i == Find(p)
<1>1. fs \in Seq(Named(PathNames)) /\ NamesUnique /\ i # NotFound
  BY DEF TreeInv, Rm
<1>2. i \in Active /\ fs[i].name = p /\ fs[i].type \in Types
  BY <1>1, FoundIs
<1>3. /\ (fs \in Seq(Named(PathNames)))'
      /\ Active' = {j \in Active : j # i /\ ~(fs[i].type = "DIR" /\ Under(fs[j].name, p))}
      /\ \A j \in Active' : fs'[j].name = fs[j].name /\ fs'[j].type = fs[j].type
  BY <1>1, RmIs
<1> HIDE DEF i
<1>4. ASSUME NEW j \in Active PROVE fs[j].name \in PathNames
  <2>1. fs[j] \in Named(PathNames)
    BY <1>1, ElementIs DEF Active
  <2>2. QED
    BY <2>1 DEF Named
<1>5. p \in PathNames
  BY <1>2, <1>4
<1>6. ASSUME NEW j \in Active', ~(Len(fs[j].name) <= 1)
      PROVE  \E k \in Active' : fs[k].name = Parent(fs[j].name) /\ fs[k].type = "DIR"
  <2>1. j \in Active /\ ~(fs[i].type = "DIR" /\ Under(fs[j].name, p))
    BY <1>3
  <2>2. PICK k \in Active : fs[k].name = Parent(fs[j].name) /\ fs[k].type = "DIR"
    BY <1>1, <1>6, <2>1, ParentsExistIs DEF TreeInv
  <2>3. fs[j].name \in PathNames /\ Len(fs[j].name) > 1
    <3>1. fs[j].name \in PathNames
      BY <1>4, <2>1
    <3>2. Len(fs[j].name) \in Nat
      BY <3>1, LenIs DEF PathNames
    <3>3. QED
      BY <1>6, <3>1, <3>2
  <2>4. ASSUME k \notin Active' PROVE FALSE
    <3>1. k = i \/ (fs[i].type = "DIR" /\ Under(fs[k].name, p))
      BY <1>3, <2>4
    <3>2. fs[i].type = "DIR"
      BY <2>2, <3>1
    <3>3. Parent(fs[j].name) = p \/ Under(Parent(fs[j].name), p)
      BY <1>2, <2>2, <3>1
    <3>4. Under(fs[j].name, p)
      BY <1>5, <2>3, <3>3, ChildIsUnder DEF PathNames
    <3>5. QED
      BY <2>1, <3>2, <3>4
  <2>5. QED
    BY <2>2, <2>4
<1>7. NamesUnique'
  BY <1>1, <1>3 DEF NamesUnique
<1>8. ParentsExist'
  <2>1. \A j \in Active' : Len(fs'[j].name) <= 1 \/
          \E k \in Active' : fs'[k].name = Parent(fs'[j].name) /\ fs'[k].type = "DIR"
    BY <1>3, <1>6
  <2>2. QED
    BY <1>3, <1>7, <2>1, ParentsExistIsNext
<1>9. QED
  BY <1>3, <1>7, <1>8 DEF TreeInv

-----------------------------------------------------------------------------
\* The first tree is one.
LEMMA TreeInit == Init => TreeInv
<1> SUFFICES ASSUME Init PROVE TreeInv
  OBVIOUS
<1>1. fs = InitFs /\ NamesUnique
  BY InvInit DEF Init, IInv
<1>2. Paths \subseteq PathNames
  <2> DEFINE D == Names \cup {""}
  <2>1. Paths = UNION {[1..n -> D] : n \in 0..NameMax} /\ PathNames = Seq(D) /\ NameMax \in Nat
    BY RamFsAssumption DEF Paths, PathNames
  <2> HIDE DEF D
  <2>2. ASSUME NEW n \in 0..NameMax, NEW x \in [1..n -> D] PROVE x \in Seq(D)
    BY <2>1
  <2>3. QED
    BY <2>1, <2>2
<1>3. fs \in Seq(Entries)
  BY <1>1, RamFsAssumption
<1>4. Entries \subseteq Named(PathNames)
  BY <1>2 DEF Entries, Named
<1>5. fs \in Seq(Named(PathNames))
  BY <1>3, <1>4, SeqGrows
<1>6. ASSUME NEW i \in Active, ~(Len(fs[i].name) <= 1)
      PROVE  \E k \in Active : fs[k].name = Parent(fs[i].name) /\ fs[k].type = "DIR"
  <2>1. i \in DOMAIN InitFs /\ Active = DOMAIN InitFs
    BY <1>1, InitFsAssumption DEF Active
  <2>2. PICK k \in DOMAIN InitFs : InitFs[k].type = "DIR" /\ InitFs[k].name = Front(InitFs[i].name)
    BY <1>1, <1>6, <2>1, InitFsAssumption
  <2>3. "" \notin Range(InitFs[k].name)
    BY InitFsAssumption
  <2>4. InitFs[k].name # <<"">>
    <3>1. "" \in Range(<<"">>)
      BY InRange
    <3>2. QED
      BY <2>3, <3>1
  <2>5. QED
    BY <1>1, <2>1, <2>2, <2>4 DEF Parent
<1>7. ParentsExist
  BY <1>1, <1>5, <1>6, ParentsExistIs
<1>8. QED
  BY <1>1, <1>5, <1>7 DEF TreeInv

LEMMA TreeStep ==
  ASSUME TypeInv, TreeInv, [Unmoving]_vars PROVE TreeInv'
<1> \A p \in Targets : p \in Seq(Names) /\ p \in PathNames
  BY TargetsAre, FoldersArePaths DEF TypeInv
<1>1. ASSUME NEW p \in Targets, Touch(p) PROVE TreeInv'
  BY <1>1, AddTree, RamFsAssumption DEF Touch, Types
<1>2. ASSUME NEW p \in Targets, NEW text \in Texts, Write(p, text) PROVE TreeInv'
  BY <1>2, FilledTree DEF Write, Filled
<1>3. ASSUME NEW p \in Targets, Mkdir(p) PROVE TreeInv'
  BY <1>3, AddTree, RamFsAssumption DEF Mkdir, Types
<1>4. ASSUME UNCHANGED fs PROVE TreeInv'
  <2>1. (fs \in Seq(Named(PathNames)))' /\ Active' = Active /\ NamesUnique'
    BY <1>4 DEF TreeInv, Active, NamesUnique
  <2>2. QED
    BY <1>4, <2>1, TreeKept
<1>5. ASSUME NEW p \in Targets, NEW q \in Targets, Cp(p, q) PROVE TreeInv'
  <2>1. fs \in Seq(Named(PathNames)) /\ NamesUnique
    BY DEF TreeInv
  <2> DEFINE final == FinalDest(p, q)
  <2>2. ~IsDir(final) /\ ParentExists(final) /\ \E text \in Texts : Filled(final, text)
    BY <1>5, <2>1, CpIs
  <2>3. final \in PathNames
    BY FinalDestIs
  <2> HIDE DEF final
  <2>4. QED
    BY <2>2, <2>3, FilledTree
<1>6. ASSUME NEW p, NEW r \in BOOLEAN, Rm(p, r) PROVE TreeInv'
  BY <1>6, RmTree
<1>7. QED
  BY <1>1, <1>2, <1>3, <1>4, <1>5, <1>6 DEF Unmoving, Cd, vars

LEMMA TreeInvariant ==
  ASSUME "mv" \notin Commands PROVE Spec => []TreeInv
<1>1. Init => TreeInv
  BY TreeInit
<1>2. TypeInv /\ TreeInv /\ [Next]_vars => TreeInv'
  BY TreeStep, WithoutMv
<1>3. QED
  BY <1>1, <1>2, TypeInvariant, PTL DEF Spec

\* Nothing but mv makes an orphan (ParentsExist): what is created goes into a
\* directory, and a removal takes everything below.
THEOREM TableIsATree ==
  ASSUME "mv" \notin Commands PROVE Spec => []ParentsExist
<1>1. TreeInv => ParentsExist
  BY DEF TreeInv
<1>2. QED
  BY <1>1, TreeInvariant, PTL
-----------------------------------------------------------------------------
(* A directory moves with all that is under it                             *)

LEMMA UnderIs ==
  ASSUME NEW n \in PathNames, NEW p \in PathNames
  PROVE  Under(n, p) <=> /\ Len(n) > Len(Slashed(p))
                         /\ \A k \in 1 .. Len(Slashed(p)) : n[k] = Slashed(p)[k]
<1>1. Slashed(p) \in PathNames
  BY SlashedIs
<1>2. Len(Slashed(p)) \in Nat /\ Len(n) \in Nat
  BY <1>1, LenIs DEF PathNames
<1>3. PICK q : q = Slashed(p)
  OBVIOUS
<1>4. q \in Seq(Names \cup {""}) /\ n \in Seq(Names \cup {""})
  BY <1>1, <1>3 DEF PathNames
<1>5. IsPrefix(q, n) <=> Len(q) <= Len(n) /\ \A k \in 1 .. Len(q) : q[k] = n[k]
  BY <1>4, PrefixIs, ZenonT(40)
<1>6. Under(n, p) <=> Len(n) > Len(q) /\ IsPrefix(q, n)
  BY <1>3 DEF Under
<1>7. QED
  BY <1>2, <1>3, <1>5, <1>6

\* A name under another is longer, and no slash is to be added to it.
LEMMA UnderLonger ==
  ASSUME NEW n \in PathNames, NEW p \in PathNames, Under(n, p)
  PROVE  Len(n) > Len(p) /\ n # p /\ Slashed(n) = n
<1>1. Len(Slashed(p)) \in Nat \ {0} /\ Len(n) > Len(Slashed(p)) /\ Len(n) \in Nat
  BY SlashedIs, UnderIs, LenIs DEF PathNames
<1>2. p = Root => Len(p) = 0
  BY DEF Root
<1>3. Len(Slashed(p)) >= Len(p)
  BY <1>1, <1>2 DEF Slashed
<1>4. Len(p) \in Nat /\ Len(n) > Len(p)
  <2>1. Len(p) \in Nat
    BY LenIs DEF PathNames
  <2>2. QED
    BY <1>1, <1>3, <2>1
<1>5. n # Root
  BY <1>4 DEF Root
<1>6. QED
  BY <1>4, <1>5 DEF Slashed

\* The place relative to p goes through every directory between.
LEMMA SuffixSplits ==
  ASSUME NEW f \in PathNames, NEW p \in PathNames, NEW a \in PathNames, NEW b \in PathNames,
         Under(a, p), Under(b, a)
  PROVE  Under(b, p) /\ f \o Suffix(b, p) = (f \o Suffix(a, p)) \o Suffix(b, a)
<1> DEFINE D == Names \cup {""}
           m == Len(Slashed(p))
<1>1. PathNames = Seq(D)
  BY DEF PathNames
<1>2. /\ m \in Nat \ {0} /\ Len(a) \in Nat /\ Len(b) \in Nat /\ Len(f) \in Nat
      /\ Len(a) > m /\ Len(b) > Len(a)
  BY <1>1, SlashedIs, UnderIs, UnderLonger, LenIs
<1>3. Slashed(a) = a
  BY UnderLonger
<1>4. Under(b, p)
  <2>1. \A k \in 1 .. Len(a) : b[k] = a[k]
    BY <1>3, UnderIs
  <2>2. \A k \in 1 .. m : a[k] = Slashed(p)[k]
    BY UnderIs
  <2>3. \A k \in 1 .. m : b[k] = Slashed(p)[k]
    <3> HIDE DEF m
    <3>1. QED
      BY <1>2, <2>1, <2>2
  <2>4. QED
    BY <1>2, <2>3, UnderIs
<1> DEFINE u == Suffix(b, p)
           v == Suffix(a, p)
           w == Suffix(b, a)
<1>5. /\ u \in Seq(D) /\ Len(u) = Len(b) - m /\ \A k \in 1 .. Len(b) - m : u[k] = b[m + k]
      /\ v \in Seq(D) /\ Len(v) = Len(a) - m /\ \A k \in 1 .. Len(a) - m : v[k] = a[m + k]
      /\ w \in Seq(D) /\ Len(w) = Len(b) - Len(a)
      /\ \A k \in 1 .. Len(b) - Len(a) : w[k] = b[Len(a) + k]
  <2>1. /\ u \in PathNames /\ Len(u) = Len(b) - m
        /\ \A k \in 1 .. Len(b) - m : u[k] = b[m + k]
    BY <1>4, SuffixIs
  <2>2. /\ v \in PathNames /\ Len(v) = Len(a) - m
        /\ \A k \in 1 .. Len(a) - m : v[k] = a[m + k]
    BY SuffixIs
  <2>3. /\ w \in PathNames /\ Len(w) = Len(b) - Len(a)
        /\ \A k \in 1 .. Len(b) - Len(a) : w[k] = b[Len(a) + k]
    BY <1>3, SuffixIs
  <2> HIDE DEF D, m, u, v, w
  <2>4. QED
    BY <1>1, <2>1, <2>2, <2>3
<1>6. \A k \in 1 .. Len(a) : b[k] = a[k]
  BY <1>3, UnderIs
<1> HIDE DEF D, m, u, v, w
<1>0. f \in Seq(D)
  BY <1>1
<1>7. f \o u \in Seq(D) /\ f \o v \in Seq(D) /\ (f \o v) \o w \in Seq(D)
  BY <1>0, <1>5, ConcatIs
<1>8. /\ Len(f \o u) = Len(f) + (Len(b) - m)
      /\ Len(f \o v) = Len(f) + (Len(a) - m)
      /\ Len((f \o v) \o w) = Len(f) + (Len(a) - m) + (Len(b) - Len(a))
  <2>1. Len(f \o u) = Len(f) + Len(u) /\ Len(f \o v) = Len(f) + Len(v)
    BY <1>0, <1>5, ConcatIs
  <2>2. Len((f \o v) \o w) = Len(f \o v) + Len(w)
    BY <1>5, <1>7, ConcatIs
  <2>3. QED
    BY <1>2, <1>5, <2>1, <2>2
<1>9. ASSUME NEW k \in 1 .. Len(f \o u) PROVE (f \o u)[k] = ((f \o v) \o w)[k]
  <2>1. k \in Nat /\ 1 <= k /\ k <= Len(f) + (Len(b) - m)
    BY <1>2, <1>8
  <2>2. CASE k <= Len(f)
    <3>1. k \in 1 .. Len(f) /\ k \in 1 .. Len(f \o v)
      BY <1>2, <1>8, <2>1, <2>2
    <3>2. (f \o u)[k] = f[k] /\ (f \o v)[k] = f[k] /\ ((f \o v) \o w)[k] = (f \o v)[k]
      BY <1>0, <1>5, <1>7, <3>1, ConcatIs
    <3>3. QED
      BY <3>2
  <2>3. CASE Len(f) < k /\ k <= Len(f) + (Len(a) - m)
    <3> DEFINE l == k - Len(f)
    <3>1. /\ l \in 1 .. Len(u) /\ l \in 1 .. Len(v) /\ k \in 1 .. Len(f \o v)
          /\ m + l \in 1 .. Len(a) /\ k = Len(f) + l
      BY <1>2, <1>5, <1>8, <2>1, <2>3, SMTT(30)
    <3> HIDE DEF l
    <3>2. (f \o u)[k] = u[l] /\ (f \o v)[k] = v[l] /\ ((f \o v) \o w)[k] = (f \o v)[k]
      BY <1>0, <1>5, <1>7, <3>1, ConcatIs
    <3>3. QED
      BY <1>5, <1>6, <3>1, <3>2
  <2>4. CASE Len(f) + (Len(a) - m) < k
    <3> DEFINE l == k - Len(f)
               o == l - (Len(a) - m)
    <3>1. /\ l \in 1 .. Len(u) /\ o \in 1 .. Len(w) /\ k = Len(f) + l
          /\ k = Len(f \o v) + o /\ m + l = Len(a) + o
      BY <1>2, <1>5, <1>8, <2>1, <2>4, SMTT(30)
    <3> HIDE DEF l, o
    <3>2. (f \o u)[k] = u[l]
      BY <1>0, <1>5, <3>1, ConcatIs
    <3>3. ((f \o v) \o w)[k] = w[o]
      BY <1>5, <1>7, <3>1, ConcatIs, SMTT(30)
    <3>4. u[l] = b[m + l] /\ w[o] = b[Len(a) + o]
      BY <1>5, <3>1
    <3>5. QED
      BY <3>1, <3>2, <3>3, <3>4
  <2>5. \/ k <= Len(f)
        \/ Len(f) < k /\ k <= Len(f) + (Len(a) - m)
        \/ Len(f) + (Len(a) - m) < k
    BY <1>2, <2>1
  <2>6. QED
    BY <2>2, <2>3, <2>4, <2>5
<1>10. Len(f \o u) = Len((f \o v) \o w)
  BY <1>2, <1>8
<1>11. f \o u = (f \o v) \o w
  BY <1>7, <1>9, <1>10, SeqEq
<1>12. QED
  BY <1>4, <1>11 DEF u, v, w

LEMMA MvTogether ==
  ASSUME TypeInv, NEW p \in Folders, NEW q \in Folders, Mv(p, q)
  PROVE  Together
<1> DEFINE final == FinalDest(p, q)
           src == Find(p)
           Renamed(j) ==
             IF j = src THEN final
             ELSE IF j \in Active /\ fs[src].type = "DIR" /\ Under(fs[j].name, p)
             THEN Slashed(final) \o Suffix(fs[j].name, p)
             ELSE fs[j].name
<1>1. src # NotFound /\ fs' = [j \in DOMAIN fs |-> [fs[j] EXCEPT !.name = Renamed(j)]]
  BY DEF Mv
<1>2. \A j \in Active : fs[j] \in Entries /\ fs[j].name \in PathNames
  <2>1. \A j \in Active : fs[j] \in Entries
    BY ElementIs DEF TypeInv, Active
  <2>2. QED
    BY <2>1, PathsAre DEF Entries
<1>3. fs[src].name = p /\ src \in Active
  BY <1>1, FoundIs, EntriesAre DEF TypeInv
<1>4. p \in PathNames /\ final \in PathNames /\ Slashed(final) \in PathNames
  BY FoldersArePaths, FinalDestIs, SlashedIs
<1>5. ASSUME NEW j \in Active PROVE fs'[j].name = Renamed(j)
  <2> HIDE DEF Renamed
  <2>1. QED
    BY <1>1, <1>2 DEF Entries, Active
<1>6. ASSUME NEW a \in Active, NEW b \in Active, fs[a].type = "DIR",
             fs'[a].name # fs[a].name, Under(fs[b].name, fs[a].name)
      PROVE  fs'[b].name = Slashed(fs'[a].name) \o Suffix(fs[b].name, fs[a].name)
  <2>1. CASE a = src
    <3>1. Under(fs[b].name, p) /\ fs[b].name # p
      BY <1>2, <1>3, <1>4, <1>6, <2>1, UnderLonger
    <3>2. fs'[b].name = Slashed(final) \o Suffix(fs[b].name, p)
      BY <1>3, <1>5, <1>6, <2>1, <3>1
    <3>3. fs'[a].name = final
      BY <1>5, <2>1
    <3>4. QED
      BY <1>3, <2>1, <3>2, <3>3
  <2>2. CASE a # src
    <3>1. fs[src].type = "DIR" /\ Under(fs[a].name, p)
      BY <1>5, <1>6, <2>2
    <3>2. fs'[a].name = Slashed(final) \o Suffix(fs[a].name, p)
      BY <1>5, <2>2, <3>1
    <3>3. /\ Under(fs[b].name, p)
          /\ Slashed(final) \o Suffix(fs[b].name, p)
               = (Slashed(final) \o Suffix(fs[a].name, p)) \o Suffix(fs[b].name, fs[a].name)
      BY <1>2, <1>4, <1>6, <3>1, SuffixSplits
    <3>4. b # src
      BY <1>2, <1>3, <1>4, <3>3, UnderLonger
    <3>5. fs'[b].name = Slashed(final) \o Suffix(fs[b].name, p)
      BY <1>5, <3>1, <3>3, <3>4
    <3>6. Slashed(fs'[a].name) = fs'[a].name
      <4>1. Len(Slashed(final)) \in Nat \ {0} /\ Suffix(fs[a].name, p) \in PathNames
        BY <1>2, <1>4, <3>1, SlashedIs, SuffixIs
      <4>2. /\ Len(fs'[a].name) = Len(Slashed(final)) + Len(Suffix(fs[a].name, p))
            /\ Len(Suffix(fs[a].name, p)) \in Nat
        BY <1>4, <3>2, <4>1, ConcatIs, LenIs DEF PathNames
      <4>3. Len(fs'[a].name) # 0
        BY <4>1, <4>2
      <4>4. QED
        BY <4>3 DEF Slashed, Root
    <3>7. QED
      BY <3>2, <3>3, <3>5, <3>6
  <2>3. QED
    BY <2>1, <2>2
<1>7. QED
  BY <1>6 DEF Together

LEMMA TogetherStep == TypeInv /\ [Next]_vars => [Together]_vars
<1> SUFFICES ASSUME TypeInv, Next PROVE Together
  OBVIOUS
<1>0. /\ \A p \in Targets : p \in Folders
      /\ fs \in Seq(Named(Paths))
  BY TargetsAre, EntriesAre DEF TypeInv
<1>1. ASSUME \A i \in Active : fs'[i].name = fs[i].name PROVE Together
  BY <1>1 DEF Together
<1>2. ASSUME NEW p, NEW type \in Types, NEW text \in Texts, Add(p, type, text)
      PROVE  Together
  BY <1>0, <1>1, <1>2, AddIs
<1>3. ASSUME NEW p, NEW text \in Texts, Filled(p, text) PROVE Together
  <2>1. CASE IsFile(p)
    <3>1. Find(p) \in Active /\ fs' = [fs EXCEPT ![Find(p)].content = text]
      BY <1>0, <1>3, <2>1, FoundIs DEF Filled, IsFile
    <3>2. QED
      BY <1>0, <1>1, <3>1, OverwriteIs
  <2>2. CASE ~IsFile(p)
    BY <1>2, <1>3, <2>2 DEF Filled, Types
  <2>3. QED
    BY <2>1, <2>2
<1>4. ASSUME NEW p \in Targets, Touch(p) \/ Mkdir(p) PROVE Together
  BY <1>2, <1>4, RamFsAssumption DEF Touch, Mkdir, Types
<1>5. ASSUME NEW p \in Targets, NEW text \in Texts, Write(p, text) PROVE Together
  BY <1>3, <1>5 DEF Write, Filled
<1>6. ASSUME NEW p, Cd(p) PROVE Together
  BY <1>1, <1>6 DEF Cd
<1>7. ASSUME NEW p \in Targets, NEW q \in Targets, Cp(p, q) PROVE Together
  BY <1>0, <1>3, <1>7, CpIs
<1>8. ASSUME NEW p \in Targets, NEW q \in Targets, Mv(p, q) PROVE Together
  BY <1>0, <1>8, MvTogether
<1>9. ASSUME NEW p, NEW r, Rm(p, r) PROVE Together
  BY <1>0, <1>1, <1>9, RmIs
<1>10. QED
  BY <1>4, <1>5, <1>6, <1>7, <1>8, <1>9 DEF Next, Unmoving

\* mv takes everything under a renamed directory to the same relative place
\* (MovesTogether), however deep, and no other command renames anything.
THEOREM DirectoriesMoveWhole == Spec => MovesTogether
BY TypeInvariant, TogetherStep, PTL DEF Spec, MovesTogether
-----------------------------------------------------------------------------
(* ls shows every entry                                                    *)

\* Only the last component of a name may be empty, what cp of a file "/" makes.
FrontNamed(n) == \A k \in 1 .. Len(n) - 1 : n[k] \in Names

NamesInv == \A i \in Active : FrontNamed(fs[i].name)

LEMMA FinalDestNamed ==
  ASSUME NEW p \in Seq(Names), NEW q \in Seq(Names)
  PROVE  FrontNamed(FinalDest(p, q))
<1>1. FrontNamed(q)
  BY DEF FrontNamed
<1>2. ASSUME NEW x PROVE FrontNamed(Append(q, x))
  <2>1. Len(Append(q, x)) = Len(q) + 1 /\ \A k \in 1 .. Len(q) : Append(q, x)[k] = q[k]
    OBVIOUS
  <2>2. Len(q) \in Nat /\ \A k \in 1 .. Len(q) : q[k] \in Names
    OBVIOUS
  <2>3. QED
    BY <2>1, <2>2 DEF FrontNamed
<1>3. FrontNamed(Root)
  BY DEF FrontNamed, Root
<1>4. QED
  BY <1>1, <1>2, <1>3 DEF FinalDest

LEMMA NamesInvInit == Init => NamesInv
<1> SUFFICES ASSUME Init, NEW i \in DOMAIN InitFs PROVE FrontNamed(InitFs[i].name)
  BY DEF NamesInv, Init, Active
<1>1. InitFs[i] \in Entries
  BY ElementIs, RamFsAssumption
<1>2. InitFs[i].name \in PathNames
  BY <1>1, PathsAre DEF Entries
<1>3. PICK n \in PathNames : n = InitFs[i].name
  BY <1>2
<1>4. "" \notin Range(n)
  BY <1>3, InitFsAssumption
<1>5. n \in Seq(Names \cup {""}) /\ DOMAIN n = 1 .. Len(n) /\ Len(n) \in Nat
  BY DomainIs DEF PathNames
<1>6. ASSUME NEW k \in 1 .. Len(n) - 1 PROVE n[k] \in Names
  <2>1. k \in DOMAIN n
    <3>1. DOMAIN n = 1 .. Len(n) /\ Len(n) \in Nat
      BY <1>5
    <3>2. QED
      BY <3>1
  <2>2. n[k] \in Names \cup {""}
    BY <1>5, <2>1, ElementIs
  <2>3. n[k] \in Range(n)
    BY <2>1 DEF Range
  <2>4. QED
    BY <1>4, <2>2, <2>3
<1>7. FrontNamed(n)
  BY <1>6 DEF FrontNamed
<1>8. QED
  BY <1>3, <1>7

LEMMA NamesInvStep ==
  ASSUME TypeInv, NamesInv, [Unmoving]_vars PROVE NamesInv'
<1>0. /\ \A p \in Targets : p \in Seq(Names)
      /\ fs \in Seq(Named(Paths))
  BY TargetsAre, FoldersArePaths, EntriesAre DEF TypeInv
<1>1. ASSUME NEW p, FrontNamed(p), NEW type \in Types, NEW text \in Texts,
             Add(p, type, text)
      PROVE  NamesInv'
  BY <1>0, <1>1, AddIs DEF NamesInv
<1>2. ASSUME Active' \subseteq Active, \A i \in Active' : fs'[i].name = fs[i].name
      PROVE  NamesInv'
  BY <1>2 DEF NamesInv
<1>3. ASSUME NEW p, FrontNamed(p), NEW text \in Texts, Filled(p, text)
      PROVE  NamesInv'
  <2>1. CASE IsFile(p)
    <3>1. Find(p) \in Active /\ fs' = [fs EXCEPT ![Find(p)].content = text]
      BY <1>0, <1>3, <2>1, FoundIs DEF Filled, IsFile
    <3>2. QED
      BY <1>0, <1>2, <3>1, OverwriteIs
  <2>2. CASE ~IsFile(p)
    BY <1>1, <1>3, <2>2 DEF Filled, Types
  <2>3. QED
    BY <2>1, <2>2
<1>4. \A p \in Targets : FrontNamed(p)
  <2>1. ASSUME NEW p \in Seq(Names) PROVE FrontNamed(p)
    BY DEF FrontNamed
  <2>2. QED
    BY <1>0, <2>1
<1>5. ASSUME NEW p \in Targets, Touch(p) \/ Mkdir(p) PROVE NamesInv'
  BY <1>1, <1>4, <1>5, RamFsAssumption DEF Touch, Mkdir, Types
<1>6. ASSUME NEW p \in Targets, NEW text \in Texts, Write(p, text) PROVE NamesInv'
  BY <1>3, <1>4, <1>6 DEF Write, Filled
<1>7. ASSUME UNCHANGED fs PROVE NamesInv'
  BY <1>2, <1>7 DEF Active
<1>8. ASSUME NEW p \in Targets, NEW q \in Targets, Cp(p, q) PROVE NamesInv'
  <2>1. \E text \in Texts : Filled(FinalDest(p, q), text)
    BY <1>0, <1>8, CpIs
  <2>2. FrontNamed(FinalDest(p, q))
    BY <1>0, FinalDestNamed
  <2>3. QED
    BY <1>3, <2>1, <2>2
<1>9. ASSUME NEW p, NEW r, Rm(p, r) PROVE NamesInv'
  BY <1>0, <1>2, <1>9, RmIs
<1>10. QED
  BY <1>5, <1>6, <1>7, <1>8, <1>9 DEF Unmoving, Cd, vars

\* The rounds of ls, each from the one before
LEMMA ShownIs ==
  /\ Shown[0] = {Root}
  /\ \A n \in 1 .. NameMax :
       Shown[n] = Shown[n-1] \cup UNION {Listing(d) : d \in {p \in Shown[n-1] : Listable(p)}}
<1> DEFINE All == {Root} \cup {fs[i].name : i \in Active}
           More(X) == X \cup UNION {Listing(d) : d \in {p \in X : Listable(p)}}
           g == [n \in 1 .. NameMax |-> [X \in SUBSET All |-> More(X)]]
           E(f) == f = [n \in 0 .. NameMax |-> IF n = 0 THEN {Root} ELSE More(f[n-1])]
<1>1. NameMax \in Nat
  BY RamFsAssumption
<1>2. \A d : Listing(d) \subseteq All
  BY DEF Listing
<1>3. \A X \in SUBSET All : More(X) \in SUBSET All
  BY <1>2
<1>4. g \in [1 .. NameMax -> [SUBSET All -> SUBSET All]] /\ {Root} \in SUBSET All
  BY <1>3
<1>5. \E f \in [0 .. NameMax -> SUBSET All] :
        f[0] = {Root} /\ \A n \in 1 .. NameMax : f[n] = g[n][f[n-1]]
  <2> DEFINE base == {Root}
             S == SUBSET All
  <2>1. base \in S /\ g \in [1 .. NameMax -> [S -> S]]
    BY <1>4
  <2> HIDE DEF g, All, base, S
  <2>2. \E f \in [0 .. NameMax -> S] :
          f[0] = base /\ \A n \in 1 .. NameMax : f[n] = g[n][f[n-1]]
    <3>1. Iterates(S, base, NameMax, g)
      BY <1>1, <2>1, IteratesExist
    <3>2. QED
      BY <3>1 DEF Iterates
  <2>3. QED
    BY <2>2 DEF base, S
<1>6. PICK f \in [0 .. NameMax -> SUBSET All] :
        f[0] = {Root} /\ \A n \in 1 .. NameMax : f[n] = g[n][f[n-1]]
  BY <1>5
<1>7. ASSUME NEW n \in 1 .. NameMax PROVE f[n] = More(f[n-1])
  <2>1. n - 1 \in 0 .. NameMax
    BY <1>1
  <2>2. f[n-1] \in SUBSET All
    BY <1>6, <2>1
  <2> HIDE DEF More, All
  <2>3. g[n][f[n-1]] = More(f[n-1])
    BY <2>2
  <2>4. QED
    BY <1>6, <2>3
<1>8. E(f)
  <2> HIDE DEF More, All, g
  <2>1. QED
    BY <1>1, <1>6, <1>7
<1>9. E(Shown)
  <2>1. Shown = CHOOSE h : E(h)
    BY DEF Shown
  <2> HIDE DEF E
  <2>2. QED
    BY <1>8, <2>1
<1>10. QED
  <2> DEFINE h == Shown
  <2> HIDE DEF More, h
  <2>0. E(h)
    BY <1>9 DEF h
  <2>1. /\ h[0] = {Root}
        /\ \A n \in 1 .. NameMax : h[n] = More(h[n-1])
    <3>1. 0 \in 0 .. NameMax /\ \A n \in 1 .. NameMax : n \in 0 .. NameMax /\ n # 0
      BY <1>1
    <3>2. \A n \in 0 .. NameMax : h[n] = IF n = 0 THEN {Root} ELSE More(h[n-1])
      BY <2>0
    <3> HIDE DEF E
    <3>3. QED
      BY <3>1, <3>2
  <2>2. QED
    BY <2>1 DEF More, h

LEMMA AllShown ==
  ASSUME TypeInv, TreeInv, NamesInv
  PROVE  LsShowsAll
<1> DEFINE G == {l \in 0 .. NameMax :
                   /\ Root \in Shown[l]
                   /\ \A i \in Active : Len(fs[i].name) <= l => fs[i].name \in Shown[l]}
<1>1. NameMax \in Nat
  BY RamFsAssumption
<1>2. ASSUME NEW i \in Active
      PROVE  fs[i].name \in PathNames /\ Len(fs[i].name) \in 0 .. NameMax
  <2>1. fs[i] \in Entries
    BY ElementIs DEF TypeInv, Active
  <2>2. fs[i].name \in PathNames /\ Len(fs[i].name) <= NameMax
    BY <2>1, PathsAre DEF Entries
  <2>3. Len(fs[i].name) \in Nat
    BY <2>2, LenIs DEF PathNames
  <2>4. QED
    BY <1>1, <2>2, <2>3
<1>3. ASSUME NEW i \in Active, Len(fs[i].name) <= 0 PROVE fs[i].name = Root
  <2>1. PICK n \in PathNames : n = fs[i].name
    BY <1>2
  <2>2. n \in Seq(Names \cup {""}) /\ Len(n) <= 0
    BY <1>3, <2>1 DEF PathNames
  <2>3. n = <<>>
    BY <2>2, DomainIs
  <2>4. QED
    BY <2>1, <2>3 DEF Root
<1>4. 0 \in G
  BY <1>1, <1>3, ShownIs
<1>5. ASSUME NEW l \in 1 .. NameMax, l - 1 \in G PROVE l \in G
  <2>1. /\ Root \in Shown[l-1]
        /\ \A i \in Active : Len(fs[i].name) <= l - 1 => fs[i].name \in Shown[l-1]
    BY <1>5
  <2>2. Shown[l] = Shown[l-1] \cup UNION {Listing(d) : d \in {p \in Shown[l-1] : Listable(p)}}
    BY ShownIs
  <2>3. ASSUME NEW i \in Active, Len(fs[i].name) <= l PROVE fs[i].name \in Shown[l]
    <3>0. Len(fs[i].name) \in Nat /\ l \in Nat
      BY <1>1, <1>2
    <3>1. CASE Len(fs[i].name) <= 1
      <4>1. fs[i].name \in Listing(Root)
        BY <3>1 DEF Listing, IsInDirectory
      <4>2. Root \in {p \in Shown[l-1] : Listable(p)}
        BY <2>1 DEF Listable
      <4>3. QED
        BY <2>2, <4>1, <4>2
    <3>2. CASE Len(fs[i].name) <= l - 1
      BY <2>1, <2>2, <3>2
    <3>3. CASE Len(fs[i].name) = l /\ l > 1
      <4> DEFINE D == Names \cup {""}
      <4>0. PICK n \in Seq(D) : n = fs[i].name
        BY <1>2 DEF PathNames
      <4> DEFINE d == Front(n)
      <4>1. Len(n) = l /\ Len(n) > 1 /\ Len(n) \in Nat
        BY <3>0, <3>3, <4>0
      <4> HIDE DEF D
      <4>2. /\ d \in Seq(D) /\ Len(d) = Len(n) - 1
            /\ \A k \in 1 .. Len(n) - 1 : d[k] = n[k]
        BY <4>1, FrontIs
      <4> HIDE DEF d
      <4>3. d[1] \in Names
        <5>1. 1 \in 1 .. Len(n) - 1
          BY <4>1
        <5>2. n[1] \in Names
          BY <4>0, <5>1 DEF NamesInv, FrontNamed
        <5>3. QED
          BY <4>2, <5>1, <5>2
      <4>4. d # <<"">>
        <5>1. "" \notin Names
          BY RamFsAssumption
        <5>2. <<"">>[1] = ""
          OBVIOUS
        <5>3. QED
          BY <4>3, <5>1, <5>2
      <4>5. PICK k \in Active : fs[k].name = d /\ fs[k].type = "DIR"
        <5>1. Parent(n) = d
          BY <4>4 DEF Parent, d
        <5>2. ~(Len(fs[i].name) <= 1)
          BY <4>0, <4>1
        <5>3. \E k \in Active : fs[k].name = Parent(fs[i].name) /\ fs[k].type = "DIR"
          BY <5>2, ParentsExistIs DEF TreeInv
        <5>4. QED
          BY <4>0, <5>1, <5>3
      <4>6. d \in Shown[l-1]
        <5>1. Len(fs[k].name) <= l - 1
          BY <3>0, <4>1, <4>2, <4>5
        <5>2. QED
          BY <2>1, <4>5, <5>1
      <4>7. Listable(d)
        BY <4>5, IsDirIs DEF Listable, TreeInv
      <4>8. n \in Listing(d)
        <5>1. Len(n) = Len(d) + 1 /\ Len(d) <= Len(n)
          BY <4>1, <4>2
        <5>2. IsPrefix(d, n)
          BY <4>2, <5>1, PrefixIs
        <5>3. d # Root
          BY <4>1, <4>2 DEF Root
        <5>4. QED
          BY <4>0, <5>1, <5>2, <5>3 DEF Listing, IsInDirectory
      <4>9. QED
        BY <2>2, <4>0, <4>6, <4>7, <4>8
    <3>4. QED
      BY <3>0, <2>3, <3>1, <3>2, <3>3
  <2>4. Root \in Shown[l]
    BY <2>1, <2>2
  <2>5. l \in 0 .. NameMax
    BY <1>1
  <2>6. QED
    BY <2>3, <2>4, <2>5
<1>6. NameMax \in G
  <2> HIDE DEF G
  <2>1. 0 .. NameMax \subseteq G
    BY <1>1, <1>4, <1>5, UpTo
  <2>2. QED
    BY <1>1, <2>1
<1>7. QED
  BY <1>2, <1>6 DEF LsShowsAll

\* Without mv, going down from the root with ls one meets every entry
\* (LsShowsAll), by induction on the depth of its name.
THEOREM NothingHidden ==
  ASSUME "mv" \notin Commands PROVE Spec => []LsShowsAll
<1>1. Init => NamesInv
  BY NamesInvInit
<1>2. TypeInv /\ NamesInv /\ [Next]_vars => NamesInv'
  BY NamesInvStep, WithoutMv
<1>3. TypeInv /\ TreeInv /\ NamesInv => LsShowsAll
  BY AllShown
<1>4. QED
  BY <1>1, <1>2, <1>3, TypeInvariant, TreeInvariant, PTL DEF Spec
-----------------------------------------------------------------------------
(* The table implements the tree                                           *)

NodeOf(i) == [type |-> fs[i].type, content |-> fs[i].content]

\* The node of a path is the only active entry of that name.
LEMMA TreeOfIs ==
  TypeInv /\ NamesUnique =>
    /\ TreeOf = [p \in DOMAIN TreeOf |-> TreeOf[p]]
    /\ DOMAIN TreeOf = {fs[i].name : i \in Active}
    /\ \A i \in Active : TreeOf[fs[i].name] = NodeOf(i)
<1> SUFFICES ASSUME TypeInv, NamesUnique, NEW i \in Active
             PROVE  TreeOf[fs[i].name] = NodeOf(i)
  BY DEF TreeOf
<1>1. Find(fs[i].name) = i
  BY FindIs, EntriesAre DEF TypeInv
<1>2. QED
  BY <1>1 DEF TreeOf, NodeOf

LEMMA TreeOfIsNext ==
  TypeInv' /\ NamesUnique' =>
    /\ TreeOf' = [p \in DOMAIN TreeOf' |-> TreeOf'[p]]
    /\ DOMAIN TreeOf' = {fs'[i].name : i \in Active'}
    /\ \A i \in Active' : TreeOf'[fs'[i].name] = NodeOf(i)'
<1>1. (TypeInv /\ NamesUnique =>
         /\ TreeOf = [p \in DOMAIN TreeOf |-> TreeOf[p]]
         /\ DOMAIN TreeOf = {fs[i].name : i \in Active}
         /\ \A i \in Active : TreeOf[fs[i].name] = NodeOf(i))'
  BY TreeOfIs, PTL
<1>2. QED
  BY <1>1

\* Without mv no name begins with an empty component.
LEMMA ParentIsFront ==
  ASSUME NEW n \in PathNames, Len(n) > 1, FrontNamed(n)
  PROVE  Parent(n) = Front(n) /\ n[1] \in Names
<1> DEFINE D == Names \cup {""}
<1>1. n \in Seq(D) /\ Len(n) \in Nat
  BY LenIs DEF PathNames
<1> HIDE DEF D
<1>2. 1 \in 1 .. Len(n) - 1
  BY <1>1
<1>3. n[1] \in Names /\ Front(n)[1] = n[1]
  BY <1>1, <1>2, FrontIs DEF FrontNamed
<1>4. "" \notin Names
  BY RamFsAssumption
<1>5. <<"">>[1] = ""
  OBVIOUS
<1>6. Front(n) # <<"">>
  BY <1>3, <1>4, <1>5
<1>7. QED
  BY <1>3, <1>6 DEF Parent

LEMMA AddImplements ==
  ASSUME TypeInv, NamesUnique, TypeInv', NamesUnique',
         NEW p \in Paths, FrontNamed(p), NEW type \in Types, NEW text \in Texts,
         Find(p) = NotFound, ParentExists(p), Add(p, type, text)
  PROVE  Tree!Next
<1> DEFINE n == [type |-> type, content |-> text]
<1>0. fs \in Seq(Named(Paths)) /\ p \in PathNames
  BY EntriesAre, PathsAre DEF TypeInv
<1>1. /\ Active' = Active \cup {Len(fs) + 1}
      /\ \A i \in Active : fs'[i] = fs[i]
      /\ fs'[Len(fs) + 1] = [name |-> p, type |-> type, content |-> text, active |-> TRUE]
  <2>1. Active' = Active \cup {Len(fs) + 1} /\ \A i \in Active : fs'[i] = fs[i]
    BY <1>0, AddIs
  <2> DEFINE e == [name |-> p, type |-> type, content |-> text, active |-> TRUE]
  <2>2. fs' = Append(fs, e)
    BY DEF Add
  <2> HIDE DEF e
  <2>3. fs'[Len(fs) + 1] = e
    BY <1>0, <2>2
  <2>4. QED
    BY <2>1, <2>3 DEF e
<1>2. p \notin DOMAIN TreeOf
  <2>1. \A i \in Active : fs[i].name # p
    BY <1>0, FindIs
  <2>2. QED
    BY <2>1, TreeOfIs
<1>3. Tree!InDir(p)
  <2>1. CASE Len(p) <= 1
    BY <2>1 DEF Tree!InDir
  <2>2. CASE ~(Len(p) <= 1)
    <3>1. Len(p) \in Nat
      BY <1>0, LenIs DEF PathNames
    <3>2. Parent(p) = Front(p)
      BY <1>0, <2>2, <3>1, ParentIsFront
    <3>3. PICK k \in Active : fs[k].name = Front(p) /\ fs[k].type = "DIR"
      BY <1>0, <2>2, <3>2, IsDirIs DEF ParentExists
    <3>4. Front(p) \in DOMAIN TreeOf /\ TreeOf[Front(p)] = NodeOf(k)
      BY <3>3, TreeOfIs
    <3>5. TreeOf[Front(p)].type = "DIR"
      BY <3>3, <3>4 DEF NodeOf
    <3>6. QED
      BY <3>4, <3>5 DEF Tree!InDir, Front, Tree!Front
  <2>3. QED
    BY <2>1, <2>2
<1>4. n \in Tree!Nodes
  BY DEF Tree!Nodes, Types
<1>5. TreeOf' = [q \in DOMAIN TreeOf \cup {p} |-> IF q = p THEN n ELSE TreeOf[q]]
  <2>1. DOMAIN TreeOf' = DOMAIN TreeOf \cup {p}
    BY <1>1, TreeOfIs, TreeOfIsNext
  <2>2. \A i \in Active : NodeOf(i)' = NodeOf(i)
    BY <1>1 DEF NodeOf
  <2>3. \A i \in Active : TreeOf'[fs[i].name] = TreeOf[fs[i].name]
    BY <1>1, <2>2, TreeOfIs, TreeOfIsNext
  <2>4. TreeOf'[p] = n
    BY <1>1, TreeOfIsNext DEF NodeOf
  <2>5. \A q \in DOMAIN TreeOf : TreeOf'[q] = TreeOf[q]
    BY <2>3, TreeOfIs
  <2>6. QED
    BY <1>2, <2>1, <2>4, <2>5, TreeOfIsNext
<1>6. Tree!Create(p, n)
  BY <1>2, <1>3, <1>5 DEF Tree!Create
<1>7. QED
  BY <1>4, <1>6 DEF Tree!Next

LEMMA OverwriteImplements ==
  ASSUME TypeInv, NamesUnique, TypeInv', NamesUnique',
         NEW k \in Active, fs[k].type = "REG", NEW text \in Texts,
         fs' = [fs EXCEPT ![k].content = text]
  PROVE  Tree!Next
<1> DEFINE p == fs[k].name
<1>0. fs \in Seq(Named(Paths))
  BY EntriesAre DEF TypeInv
<1>1. /\ Active' = Active
      /\ \A i \in Active : fs'[i].name = fs[i].name /\ fs'[i].type = fs[i].type
  BY <1>0, OverwriteIs
<1>2. /\ fs'[k].content = text
      /\ \A i \in Active : i # k => fs'[i] = fs[i]
  <2>1. k \in DOMAIN fs /\ fs[k] \in Named(Paths)
    BY <1>0, ElementIs DEF Active
  <2>2. QED
    BY <2>1 DEF Named, Active
<1>3. p \in DOMAIN TreeOf /\ TreeOf[p] = [type |-> "REG", content |-> fs[k].content]
  BY TreeOfIs DEF NodeOf
<1>4. DOMAIN TreeOf' = DOMAIN TreeOf
  BY <1>1, TreeOfIs, TreeOfIsNext
<1>5. TreeOf'[p] = [TreeOf[p] EXCEPT !.content = text]
  <2>1. TreeOf'[p] = [type |-> "REG", content |-> text]
    BY <1>1, <1>2, TreeOfIsNext DEF NodeOf
  <2>2. QED
    BY <1>3, <2>1
<1>6. \A q \in DOMAIN TreeOf : q # p => TreeOf'[q] = TreeOf[q]
  <2>1. ASSUME NEW i \in Active, fs[i].name # p PROVE TreeOf'[fs[i].name] = TreeOf[fs[i].name]
    <3>1. NodeOf(i)' = NodeOf(i)
      BY <1>2, <2>1 DEF NodeOf
    <3>2. QED
      BY <1>1, <3>1, TreeOfIs, TreeOfIsNext
  <2>2. QED
    BY <2>1, TreeOfIs
<1>7. TreeOf' = [TreeOf EXCEPT ![p].content = text]
  BY <1>3, <1>4, <1>5, <1>6, TreeOfIs, TreeOfIsNext
<1>8. Tree!Update(p, text)
  BY <1>3, <1>7 DEF Tree!Update
<1>9. QED
  BY <1>3, <1>8 DEF Tree!Next

LEMMA FilledImplements ==
  ASSUME TypeInv, NamesUnique, TypeInv', NamesUnique',
         NEW p \in Paths, FrontNamed(p), NEW text \in Texts,
         ~IsDir(p), ParentExists(p), Filled(p, text)
  PROVE  Tree!Next
<1>0. fs \in Seq(Named(Paths))
  BY EntriesAre DEF TypeInv
<1>1. CASE IsFile(p)
  <2>1. Find(p) \in Active /\ fs[Find(p)].type = "REG"
    BY <1>0, <1>1, FoundIs DEF IsFile
  <2>2. QED
    BY <1>1, <2>1, OverwriteImplements DEF Filled
<1>2. CASE ~IsFile(p)
  <2>1. Find(p) = NotFound
    BY <1>0, <1>2, FoundIs DEF IsFile, IsDir, Types
  <2>2. QED
    BY <1>2, <2>1, AddImplements DEF Filled, Types
<1>3. QED
  BY <1>1, <1>2

\* What is under an entry in the sense of rm is below it in the tree.
LEMMA UnderIsBelow ==
  ASSUME NEW n \in PathNames, FrontNamed(n), NEW p \in PathNames
  PROVE  Under(n, p) <=> Tree!Below(n, p)
<1>0. Len(n) \in Nat /\ Len(p) \in Nat
  BY LenIs DEF PathNames
<1>1. CASE p = Root
  <2>1. ~Tree!Below(n, p)
    BY <1>1 DEF Tree!Below, Root
  <2>2. ASSUME Under(n, p) PROVE FALSE
    <3>1. Slashed(p) = <<"">>
      BY <1>1 DEF Slashed
    <3>2. Len(<<"">>) = 1 /\ <<"">>[1] = "" /\ 1 \in 1 .. 1
      OBVIOUS
    <3>3. Len(n) > 1 /\ n[1] = ""
      <4>1. Len(n) > Len(Slashed(p)) /\ \A k \in 1 .. Len(Slashed(p)) : n[k] = Slashed(p)[k]
        BY <2>2, UnderIs
      <4>2. \A k \in 1 .. 1 : n[k] = <<"">>[k]
        BY <3>1, <3>2, <4>1
      <4>3. QED
        BY <3>1, <3>2, <4>1, <4>2
    <3>4. n[1] \in Names
      BY <3>3, ParentIsFront
    <3>5. QED
      BY <3>3, <3>4, RamFsAssumption
  <2>3. QED
    BY <2>1, <2>2
<1>2. CASE p # Root
  <2>1. Slashed(p) = p
    BY <1>2 DEF Slashed
  <2>2. Tree!Below(n, p) <=> n # p /\ IsPrefix(p, n)
    BY <1>2 DEF Tree!Below, IsPrefix, Tree!IsPrefix, Root
  <2>3. IsPrefix(p, n) <=> Len(p) <= Len(n) /\ \A k \in 1 .. Len(p) : p[k] = n[k]
    BY PrefixIs, ZenonT(40) DEF PathNames
  <2>4. ASSUME IsPrefix(p, n), Len(p) = Len(n) PROVE n = p
    BY <2>3, <2>4, SeqEq DEF PathNames
  <2>5. Len(n) > Len(p) => n # p
    BY <1>0
  <2>6. Under(n, p) <=> Len(n) > Len(p) /\ IsPrefix(p, n)
    BY <2>1 DEF Under
  <2>7. QED
    BY <1>0, <2>2, <2>3, <2>4, <2>5, <2>6
<1>3. QED
  BY <1>1, <1>2

\* Nothing is below a path that no directory has: the names above an entry are
\* directories, all the way up.
LEMMA NothingBelow ==
  ASSUME TypeInv, TreeInv, NamesInv, NEW p \in PathNames,
         \A l \in Active : fs[l].name = p => fs[l].type # "DIR", NEW j \in Active
  PROVE  ~Tree!Below(fs[j].name, p)
<1> DEFINE Bad == {i \in Active : Tree!Below(fs[i].name, p)}
           T == {Len(fs[i].name) : i \in Bad}
<1>1. \A i \in Active : /\ fs[i].name \in PathNames /\ Len(fs[i].name) \in Nat
                        /\ FrontNamed(fs[i].name)
  <2> SUFFICES ASSUME NEW i \in Active
               PROVE  fs[i].name \in PathNames /\ Len(fs[i].name) \in Nat
    BY DEF NamesInv
  <2>1. fs[i] \in Entries
    BY ElementIs DEF TypeInv, Active
  <2>2. fs[i].name \in PathNames
    BY <2>1, PathsAre DEF Entries
  <2>3. QED
    BY <2>2, LenIs DEF PathNames
<1>2. SUFFICES ASSUME T # {} PROVE FALSE
  OBVIOUS
<1>3. PICK i \in Bad : \A x \in Bad : Len(fs[i].name) <= Len(fs[x].name)
  <2>1. T \subseteq Nat
    BY <1>1
  <2>2. \E x \in T : \A y \in T : x <= y
    <3> HIDE DEF T
    <3>1. QED
      BY <1>2, <2>1, LeastNat
  <2>3. QED
    BY <2>2
<1>4. PICK n \in PathNames : n = fs[i].name
  BY <1>1, <1>3
<1>5. Len(n) \in Nat /\ FrontNamed(n) /\ Tree!Below(n, p) /\ p \in PathNames
  BY <1>1, <1>3, <1>4
<1>6. Under(n, p) /\ p # Root
  BY <1>5, UnderIsBelow DEF Tree!Below, Root
<1>7. Slashed(p) = p /\ Len(n) > Len(p) /\ \A x \in 1 .. Len(p) : n[x] = p[x]
  BY <1>5, <1>6, UnderIs DEF Slashed
<1>8. Len(p) \in Nat /\ Len(p) # 0
  <2>1. Len(Slashed(p)) # 0
    BY <1>5, SlashedIs
  <2>2. QED
    BY <1>1, <1>7, <2>1
<1>9. Len(n) > 1
  BY <1>5, <1>7, <1>8
<1> DEFINE d == Front(n)
<1>10. /\ d \in PathNames /\ Len(d) = Len(n) - 1
       /\ \A x \in 1 .. Len(n) - 1 : d[x] = n[x]
  BY <1>9, FrontIs DEF PathNames
<1>11. PICK l \in Active : fs[l].name = d /\ fs[l].type = "DIR"
  <2>1. Parent(n) = d
    BY <1>5, <1>9, ParentIsFront
  <2>2. ~(Len(fs[i].name) <= 1) /\ i \in Active
    BY <1>3, <1>4, <1>5, <1>9
  <2>3. \E l \in Active : fs[l].name = Parent(fs[i].name) /\ fs[l].type = "DIR"
    BY <2>2, ParentsExistIs DEF TreeInv
  <2>4. QED
    BY <1>4, <2>1, <2>3
<1> HIDE DEF d
<1>12. l \notin Bad
  <2>1. Len(fs[l].name) < Len(fs[i].name)
    BY <1>4, <1>5, <1>10, <1>11
  <2>2. l \in Bad => Len(fs[i].name) <= Len(fs[l].name)
    BY <1>3
  <2>3. QED
    BY <1>1, <1>3, <1>11, <2>1, <2>2
<1>13. d # p
  BY <1>11
<1>14. Len(p) <= Len(d) /\ \A x \in 1 .. Len(p) : d[x] = p[x]
  BY <1>5, <1>7, <1>8, <1>10
<1>15. Len(p) # Len(d)
  BY <1>5, <1>10, <1>13, <1>14, SeqEq DEF PathNames
<1>16. Under(d, p)
  <2>1. Len(d) > Len(p)
    BY <1>5, <1>8, <1>10, <1>14, <1>15
  <2>2. QED
    BY <1>5, <1>7, <1>10, <1>14, <2>1, UnderIs
<1>17. FrontNamed(d)
  BY <1>1, <1>11
<1>18. Tree!Below(d, p)
  BY <1>5, <1>10, <1>16, <1>17, UnderIsBelow
<1>19. QED
  BY <1>11, <1>12, <1>18

\* So nothing is below a file.
LEMMA NothingBelowFile ==
  ASSUME TypeInv, TreeInv, NamesInv, NEW k \in Active, fs[k].type = "REG",
         NEW j \in Active
  PROVE  ~Tree!Below(fs[j].name, fs[k].name)
<1>1. fs[k].name \in PathNames
  <2>1. fs[k] \in Entries
    BY ElementIs DEF TypeInv, Active
  <2>2. QED
    BY <2>1, PathsAre DEF Entries
<1>2. \A l \in Active : fs[l].name = fs[k].name => fs[l].type # "DIR"
  BY DEF TreeInv, NamesUnique
<1>3. QED
  BY <1>1, <1>2, NothingBelow

LEMMA RmImplements ==
  ASSUME TypeInv, TreeInv, NamesInv, TypeInv', NamesUnique', NEW p, NEW r, Rm(p, r)
  PROVE  Tree!Next
<1> DEFINE i == Find(p)
           Kept == {q \in DOMAIN TreeOf : q # p /\ ~Tree!Below(q, p)}
<1>0. fs \in Seq(Named(Paths)) /\ i # NotFound /\ NamesUnique
  BY EntriesAre DEF TypeInv, TreeInv, Rm
<1>1. i \in Active /\ fs[i].name = p /\ fs[i].type \in Types
  BY <1>0, FoundIs
<1>2. /\ Active' = {j \in Active : j # i /\ ~(fs[i].type = "DIR" /\ Under(fs[j].name, p))}
      /\ \A j \in Active : fs'[j] = [fs[j] EXCEPT !.active = fs'[j].active]
  <2>1. Active' = {j \in Active : j # i /\ ~(fs[i].type = "DIR" /\ Under(fs[j].name, p))}
    BY <1>0, RmIs
  <2>2. ASSUME NEW j \in Active PROVE fs'[j] = [fs[j] EXCEPT !.active = fs'[j].active]
    <3>1. fs[j] \in Named(Paths) /\ j \in DOMAIN fs
      BY <1>0, ElementIs DEF Active
    <3> DEFINE b == fs[j].active /\ j # i /\ ~(fs[i].type = "DIR" /\ Under(fs[j].name, p))
    <3>2. fs'[j] = [fs[j] EXCEPT !.active = b]
      BY <3>1 DEF Rm
    <3> HIDE DEF b
    <3>3. fs'[j].active = b
      BY <3>1, <3>2 DEF Named
    <3>4. QED
      BY <3>2, <3>3
  <2>3. QED
    BY <2>1, <2>2
<1>3. ASSUME NEW j \in Active
      PROVE  /\ fs[j].name \in PathNames /\ FrontNamed(fs[j].name)
             /\ fs'[j].name = fs[j].name /\ NodeOf(j)' = NodeOf(j)
  <2>1. fs[j] \in Named(Paths)
    BY <1>0, ElementIs DEF Active
  <2>2. fs[j].name \in PathNames
    BY <2>1, PathsAre DEF Named
  <2>3. fs'[j] = [fs[j] EXCEPT !.active = fs'[j].active]
    BY <1>2
  <2>4. fs'[j].name = fs[j].name /\ fs'[j].type = fs[j].type /\ fs'[j].content = fs[j].content
    BY <2>1, <2>3 DEF Named
  <2>5. QED
    BY <2>2, <2>4 DEF NamesInv, NodeOf
<1>4. p \in DOMAIN TreeOf
  BY <1>0, <1>1, TreeOfIs
<1>5. ASSUME NEW j \in Active PROVE j \in Active' <=> fs[j].name \in Kept
  <2>1. fs[j].name = p <=> j = i
    BY <1>0, <1>1 DEF NamesUnique
  <2>2. Under(fs[j].name, p) <=> Tree!Below(fs[j].name, p)
    BY <1>1, <1>3, UnderIsBelow
  <2>3. fs[i].type = "DIR" \/ ~Tree!Below(fs[j].name, p)
    BY <1>1, NothingBelowFile DEF Types
  <2>4. fs[j].name \in DOMAIN TreeOf
    BY <1>0, TreeOfIs
  <2> HIDE DEF i
  <2>5. QED
    BY <1>2, <2>1, <2>2, <2>3, <2>4
<1>6. Active' \subseteq Active
  BY <1>2
<1> HIDE DEF i, Kept
<1>7. DOMAIN TreeOf' = Kept
  <2>1. DOMAIN TreeOf = {fs[j].name : j \in Active} /\ Kept \subseteq DOMAIN TreeOf
    BY <1>0, TreeOfIs DEF Kept
  <2>2. DOMAIN TreeOf' = {fs'[j].name : j \in Active'}
    BY TreeOfIsNext
  <2>3. QED
    BY <1>3, <1>5, <1>6, <2>1, <2>2
<1>8. \A q \in Kept : TreeOf'[q] = TreeOf[q]
  <2>1. ASSUME NEW j \in Active' PROVE TreeOf'[fs[j].name] = TreeOf[fs[j].name]
    BY <1>0, <1>3, <1>6, <2>1, TreeOfIs, TreeOfIsNext
  <2>2. QED
    BY <1>3, <1>6, <1>7, <2>1, TreeOfIsNext
<1>9. TreeOf' = [q \in Kept |-> TreeOf[q]]
  BY <1>7, <1>8, TreeOfIsNext
<1>10. Tree!Delete(p)
  BY <1>4, <1>9 DEF Tree!Delete, Kept, Tree!Restrict
<1>11. QED
  BY <1>4, <1>10 DEF Tree!Next

LEMMA InitImplements == Init /\ TypeInv /\ NamesUnique => Tree!Init
<1> SUFFICES ASSUME TypeInv, NamesUnique PROVE Tree!Init
  OBVIOUS
<1>1. ASSUME NEW i \in Active
      PROVE  fs[i].name \in Paths /\ NodeOf(i) \in Tree!Nodes
  <2>1. fs[i] \in Entries
    BY ElementIs DEF TypeInv, Active
  <2>2. QED
    BY <2>1 DEF Entries, NodeOf, Tree!Nodes, Types
<1>2. DOMAIN TreeOf \subseteq Paths
  BY <1>1, TreeOfIs
<1>3. \A p \in DOMAIN TreeOf : TreeOf[p] \in Tree!Nodes
  BY <1>1, TreeOfIs
<1>4. TreeOf \in [DOMAIN TreeOf -> Tree!Nodes]
  BY <1>3, TreeOfIs
<1>5. QED
  BY <1>2, <1>4 DEF Tree!Init

LEMMA StepImplements ==
  ASSUME TypeInv, TreeInv, NamesInv, TypeInv', TreeInv', [Unmoving]_vars
  PROVE  [Tree!Next]_TreeOf
<1>0. /\ \A p \in Targets : p \in Seq(Names) /\ p \in Paths /\ FrontNamed(p)
      /\ fs \in Seq(Named(Paths)) /\ NamesUnique /\ NamesUnique'
  <2>1. \A p \in Targets : p \in Seq(Names) /\ p \in Paths
    BY TargetsAre, FoldersArePaths DEF TypeInv
  <2>2. ASSUME NEW p \in Seq(Names) PROVE FrontNamed(p)
    BY DEF FrontNamed
  <2>3. QED
    BY <2>1, <2>2, EntriesAre DEF TypeInv, TreeInv
<1>1. ASSUME NEW p \in Targets, Touch(p) \/ Mkdir(p) PROVE Tree!Next
  BY <1>0, <1>1, AddImplements, RamFsAssumption DEF Touch, Mkdir, Types
<1>2. ASSUME NEW p \in Targets, NEW text \in Texts, Write(p, text) PROVE Tree!Next
  BY <1>0, <1>2, FilledImplements DEF Write, Filled
<1>3. ASSUME UNCHANGED fs PROVE UNCHANGED TreeOf
  BY <1>3 DEF TreeOf, Active, Find
<1>4. ASSUME NEW p \in Targets, NEW q \in Targets, Cp(p, q) PROVE Tree!Next
  <2> DEFINE final == FinalDest(p, q)
  <2>1. /\ ~IsDir(final) /\ ParentExists(final)
        /\ \E text \in Texts : Filled(final, text)
    BY <1>0, <1>4, CpIs
  <2>2. final \in PathNames /\ FrontNamed(final)
    BY <1>0, FinalDestIs, FinalDestNamed
  <2>3. final \in Paths
    BY <1>4, <2>2, PathsAre DEF Cp
  <2> HIDE DEF final
  <2>4. QED
    BY <1>0, <2>1, <2>2, <2>3, FilledImplements
<1>5. ASSUME NEW p, NEW r, Rm(p, r) PROVE Tree!Next
  BY <1>0, <1>5, RmImplements
<1>6. QED
  BY <1>1, <1>2, <1>3, <1>4, <1>5 DEF Unmoving, Cd, vars

-----------------------------------------------------------------------------
(* Moves that keep the tree                                                *)

\* What mv makes of the name of entry j
NewName(p, q, j) ==
  IF j = Find(p) THEN FinalDest(p, q)
  ELSE IF fs[Find(p)].type = "DIR" /\ Under(fs[j].name, p)
  THEN Slashed(FinalDest(p, q)) \o Suffix(fs[j].name, p)
  ELSE fs[j].name

\* mv renames and does nothing else.
LEMMA MvIs ==
  ASSUME TypeInv, NEW p, NEW q, Mv(p, q)
  PROVE  /\ Find(p) \in Active /\ fs[Find(p)].name = p /\ fs[Find(p)].type \in Types
         /\ Active' = Active
         /\ \A j \in Active : /\ fs'[j].name = NewName(p, q, j) /\ fs'[j].type = fs[j].type
                              /\ NodeOf(j)' = NodeOf(j)
<1> DEFINE src == Find(p)
           Renamed(j) ==
             IF j = src THEN FinalDest(p, q)
             ELSE IF j \in Active /\ fs[src].type = "DIR" /\ Under(fs[j].name, p)
             THEN Slashed(FinalDest(p, q)) \o Suffix(fs[j].name, p)
             ELSE fs[j].name
<1>1. src # NotFound /\ fs' = [j \in DOMAIN fs |-> [fs[j] EXCEPT !.name = Renamed(j)]]
  BY DEF Mv
<1>2. \A j \in DOMAIN fs : fs[j] \in Entries
  BY ElementIs DEF TypeInv
<1>3. \A j \in Active : NewName(p, q, j) = Renamed(j)
  BY DEF NewName
<1> HIDE DEF Renamed
<1>4. \A j \in DOMAIN fs : /\ fs'[j].name = Renamed(j) /\ fs'[j].type = fs[j].type
                           /\ fs'[j].active = fs[j].active /\ NodeOf(j)' = NodeOf(j)
  BY <1>1, <1>2 DEF Entries, NodeOf
<1>5. Active' = Active /\ Active \subseteq DOMAIN fs
  BY <1>1, <1>4 DEF Active
<1>6. QED
  BY <1>1, <1>3, <1>4, <1>5, FoundIs, EntriesAre DEF TypeInv

\* What is known of the entries' names
LEMMA EntryNames ==
  ASSUME TypeInv, NamesInv, NEW j \in Active
  PROVE  /\ fs[j].name \in PathNames /\ FrontNamed(fs[j].name) /\ Len(fs[j].name) \in Nat
         /\ fs[j].type \in Types
<1>1. fs[j] \in Entries
  BY ElementIs DEF TypeInv, Active
<1>2. fs[j].name \in PathNames
  BY <1>1, PathsAre DEF Entries
<1>3. QED
  BY <1>1, <1>2, LenIs DEF NamesInv, PathNames, Entries

\* The name w is f and what n has behind p.
MovesTo(n, p, f, w) ==
  /\ Len(n) \in Nat /\ Len(p) \in Nat \ {0} /\ Len(f) \in Nat \ {0} /\ Len(n) > Len(p)
  /\ Len(w) = Len(f) + (Len(n) - Len(p))
  /\ \A k \in 1 .. Len(f) : w[k] = f[k]
  /\ \A k \in 1 .. Len(n) - Len(p) : w[Len(f) + k] = n[Len(p) + k]
  /\ \A k \in 1 .. Len(p) : n[k] = p[k]

\* A name under p gets such a name when p becomes f.
LEMMA MovedIs ==
  ASSUME NEW n \in PathNames, NEW p \in PathNames, NEW f \in PathNames,
         p # Root, f # Root, Under(n, p)
  PROVE  \E w \in PathNames : w = Slashed(f) \o Suffix(n, p) /\ MovesTo(n, p, f, w)
<1>1. Slashed(p) = p /\ Slashed(f) = f
  BY DEF Slashed
<1>2. Len(p) \in Nat \ {0} /\ Len(f) \in Nat \ {0}
  BY <1>1, SlashedIs
<1>3. Len(n) > Len(p) /\ \A k \in 1 .. Len(p) : n[k] = p[k]
  BY <1>1, UnderIs
<1>4. Len(n) \in Nat
  BY LenIs DEF PathNames
<1> DEFINE s == Suffix(n, p)
           m == Len(n) - Len(p)
<1>5. s \in PathNames /\ Len(s) = m /\ \A k \in 1 .. m : s[k] = n[Len(p) + k]
  BY <1>1, SuffixIs
<1> HIDE DEF s, m
<1>6. PICK w \in PathNames :
        /\ w = f \o s /\ Len(w) = Len(f) + Len(s)
        /\ \A k \in 1 .. Len(f) : w[k] = f[k]
        /\ \A k \in 1 .. Len(s) : w[Len(f) + k] = s[k]
  <2> DEFINE D == Names \cup {""}
  <2>1. f \in Seq(D) /\ s \in Seq(D) /\ PathNames = Seq(D)
    BY <1>5 DEF PathNames
  <2> HIDE DEF D
  <2>2. /\ f \o s \in Seq(D) /\ Len(f \o s) = Len(f) + Len(s)
        /\ \A k \in 1 .. Len(f) : (f \o s)[k] = f[k]
        /\ \A k \in 1 .. Len(s) : (f \o s)[Len(f) + k] = s[k]
    BY <2>1
  <2>3. QED
    BY <2>1, <2>2
<1>7. Len(w) = Len(f) + m /\ \A k \in 1 .. m : w[Len(f) + k] = n[Len(p) + k]
  BY <1>5, <1>6
<1>8. MovesTo(n, p, f, w)
  BY <1>2, <1>3, <1>4, <1>6, <1>7 DEF MovesTo, m
<1>9. QED
  BY <1>1, <1>6, <1>8 DEF s

\* ... of which no component but the last may be empty.
LEMMA MovesNamed ==
  ASSUME NEW n, FrontNamed(n), NEW p, NEW f, NEW w, MovesTo(n, p, f, w),
         \A k \in 1 .. Len(f) : f[k] \in Names
  PROVE  FrontNamed(w)
<1>1. SUFFICES ASSUME NEW k \in 1 .. Len(w) - 1 PROVE w[k] \in Names
  BY DEF FrontNamed
<1>2. CASE k \in 1 .. Len(f)
  BY <1>2 DEF MovesTo
<1>3. CASE k \notin 1 .. Len(f)
  <2>1. /\ k - Len(f) \in 1 .. Len(n) - Len(p) /\ k = Len(f) + (k - Len(f))
        /\ Len(p) + (k - Len(f)) \in 1 .. Len(n) - 1
    BY <1>3 DEF MovesTo
  <2>2. w[k] = n[Len(p) + (k - Len(f))]
    BY <2>1 DEF MovesTo
  <2>3. QED
    BY <2>1, <2>2 DEF FrontNamed
<1>4. QED
  BY <1>2, <1>3

\* Nothing is under "/" in the sense of mv, so what moves along goes from a directory
\* below it to one below it.
LEMMA MovesFar ==
  ASSUME TypeInv, TreeInv, NamesInv, NEW p \in Folders, NEW q \in Folders,
         Mv(p, q), Tame(p, q), NEW j \in Active, fs[Find(p)].type = "DIR",
         Under(fs[j].name, p)
  PROVE  /\ p # Root /\ FinalDest(p, q) # Root
         /\ \A k \in 1 .. Len(FinalDest(p, q)) : FinalDest(p, q)[k] \in Names
<1>1. p \in PathNames
  BY FoldersArePaths
<1>2. Tree!Below(fs[j].name, p)
  BY <1>1, EntryNames, UnderIsBelow
<1>3. p # Root
  BY <1>2 DEF Tree!Below, Root
<1>4. IsDir(p)
  BY DEF IsDir, Mv
<1>5. p \in Seq(Names) /\ q \in Seq(Names)
  BY DEF Folders
<1>6. Append(q, Last(p)) \in Seq(Names)
  BY <1>3, <1>5, LastIs, AppendIs DEF Root
<1>7. FinalDest(p, q) \in Seq(Names)
  BY <1>3, <1>5, <1>6 DEF FinalDest
<1>8. \A k \in 1 .. Len(FinalDest(p, q)) : FinalDest(p, q)[k] \in Names
  <2>1. \A s \in Seq(Names) : \A k \in 1 .. Len(s) : s[k] \in Names
    OBVIOUS
  <2>2. QED
    BY <1>7, <2>1
<1>9. QED
  BY <1>3, <1>4, <1>8 DEF Tame

\* The new names: that of the moved entry, those under it, which stand under the new
\* name, and the others, none of which is there.
LEMMA TameNames ==
  ASSUME TypeInv, TreeInv, NamesInv, NEW p \in Folders, NEW q \in Folders,
         Mv(p, q), Tame(p, q)
  PROVE  LET f == FinalDest(p, q) IN
         /\ f \in PathNames /\ FrontNamed(f) /\ p \in PathNames
         /\ \A j \in Active : fs[j].name # f /\ ~Under(fs[j].name, f)
<1> DEFINE f == FinalDest(p, q)
<1>1. f \in PathNames /\ FrontNamed(f) /\ p \in PathNames
  BY FoldersArePaths, FinalDestIs, FinalDestNamed
<1>2. Find(f) = NotFound
  BY DEF Tame
<1> HIDE DEF f
<1>3. \A j \in Active : fs[j].name # f
  <2>1. fs \in Seq(Named(Paths)) /\ NamesUnique
    BY EntriesAre DEF TypeInv, TreeInv
  <2>2. QED
    BY <1>2, <2>1, FindIs
<1>4. ASSUME NEW j \in Active PROVE ~Under(fs[j].name, f)
  <2>1. ~Tree!Below(fs[j].name, f)
    BY <1>1, <1>3, NothingBelow
  <2>2. QED
    BY <1>1, <2>1, EntryNames, UnderIsBelow
<1>5. QED
  BY <1>1, <1>3, <1>4 DEF f

\* No two entries get one name.
LEMMA TameUnique ==
  ASSUME TypeInv, TreeInv, NamesInv, NEW p \in Folders, NEW q \in Folders,
         Mv(p, q), Tame(p, q)
  PROVE  NamesUnique'
<1> DEFINE f == FinalDest(p, q)
           src == Find(p)
           Along(j) == fs[src].type = "DIR" /\ Under(fs[j].name, p)
<1>1. /\ src \in Active /\ fs[src].name = p /\ Active' = Active
      /\ \A j \in Active : fs'[j].name = NewName(p, q, j)
  BY MvIs
<1>2. /\ f \in PathNames /\ p \in PathNames
      /\ \A j \in Active : fs[j].name # f /\ ~Under(fs[j].name, f)
  BY TameNames
<1>3. \A j \in Active : fs[j].name \in PathNames
  BY EntryNames
<1>4. ASSUME NEW j \in Active, Along(j), j # src
      PROVE  /\ p # Root /\ f # Root /\ Under(fs[j].name, p)
             /\ fs'[j].name = Slashed(f) \o Suffix(fs[j].name, p)
  BY <1>1, <1>4, MovesFar DEF NewName
<1>5. ASSUME NEW j \in Active, ~Along(j), j # src PROVE fs'[j].name = fs[j].name
  BY <1>1, <1>5 DEF NewName
<1>6. fs'[src].name = f
  BY <1>1 DEF NewName
<1> HIDE DEF f, src, Along
<1>7. ASSUME NEW j \in Active, Along(j), j # src
      PROVE  fs'[j].name # f /\ Under(fs'[j].name, f)
  <2>1. PICK n \in PathNames : n = fs[j].name
    BY <1>3
  <2>2. PICK w \in PathNames : w = Slashed(f) \o Suffix(n, p) /\ MovesTo(n, p, f, w)
    BY <1>2, <1>4, <1>7, <2>1, MovedIs
  <2>3. Slashed(f) = f
    BY <1>4, <1>7 DEF Slashed
  <2>4. Len(w) > Len(f) /\ \A k \in 1 .. Len(f) : w[k] = f[k]
    BY <2>2 DEF MovesTo
  <2>5. w # f
    BY <2>2, <2>4 DEF MovesTo
  <2>6. Under(w, f)
    BY <1>2, <2>3, <2>4, UnderIs
  <2>7. QED
    BY <1>4, <1>7, <2>1, <2>2, <2>5, <2>6
<1>8. ASSUME NEW a \in Active, NEW b \in Active, Along(a), Along(b), a # src, b # src,
             fs'[a].name = fs'[b].name
      PROVE  fs[a].name = fs[b].name
  <2>1. PICK n \in PathNames : n = fs[a].name
    BY <1>3
  <2>2. PICK o \in PathNames : o = fs[b].name
    BY <1>3
  <2>3. PICK w \in PathNames : w = Slashed(f) \o Suffix(n, p) /\ MovesTo(n, p, f, w)
    BY <1>2, <1>4, <1>8, <2>1, MovedIs
  <2>4. PICK z \in PathNames : z = Slashed(f) \o Suffix(o, p) /\ MovesTo(o, p, f, z)
    BY <1>2, <1>4, <1>8, <2>2, MovedIs
  <2>5. w = z
    BY <1>4, <1>8, <2>1, <2>2, <2>3, <2>4
  <2>6. MovesTo(n, p, f, w) /\ MovesTo(o, p, f, w)
    BY <2>3, <2>4, <2>5
  <2>7. Len(n) = Len(o) /\ Len(n) \in Nat /\ Len(p) \in Nat
    BY <2>6 DEF MovesTo
  <2>8. ASSUME NEW k \in 1 .. Len(n) PROVE n[k] = o[k]
    <3>1. CASE k \in 1 .. Len(p)
      BY <2>6, <3>1 DEF MovesTo
    <3>2. CASE k \notin 1 .. Len(p)
      <4>1. k - Len(p) \in 1 .. Len(n) - Len(p) /\ k = Len(p) + (k - Len(p))
        BY <2>7, <3>2
      <4>2. n[k] = w[Len(f) + (k - Len(p))] /\ o[k] = w[Len(f) + (k - Len(p))]
        BY <2>6, <2>7, <4>1 DEF MovesTo
      <4>3. QED
        BY <4>2
    <3>3. QED
      BY <3>1, <3>2
  <2>9. n = o
    BY <2>7, <2>8, SeqEq DEF PathNames
  <2>10. QED
    BY <2>1, <2>2, <2>9
<1>9. ASSUME NEW a \in Active, NEW b \in Active, fs'[a].name = fs'[b].name PROVE a = b
  <2>0. fs[a].name = fs[b].name => a = b
    BY DEF TreeInv, NamesUnique
  <2>1. CASE a = src \/ b = src
    BY <1>2, <1>5, <1>6, <1>7, <1>9, <2>1
  <2>2. CASE a # src /\ b # src /\ Along(a) /\ Along(b)
    BY <1>8, <1>9, <2>0, <2>2
  <2>3. CASE a # src /\ b # src /\ ~Along(a) /\ ~Along(b)
    BY <1>5, <1>9, <2>0, <2>3
  <2>4. CASE a # src /\ b # src /\ (Along(a) # Along(b))
    BY <1>2, <1>5, <1>7, <1>9, <2>4 DEF Along
  <2>5. QED
    BY <2>1, <2>2, <2>3, <2>4 DEF Along
<1>10. QED
  BY <1>1, <1>9 DEF NamesUnique

\* Every entry is still inside a directory: what moves along finds its directory
\* moved, and no other directory is gone.
LEMMA TameParents ==
  ASSUME TypeInv, TreeInv, NamesInv, NEW p \in Folders, NEW q \in Folders,
         Mv(p, q), Tame(p, q), NEW j \in Active
  PROVE  Len(fs'[j].name) <= 1 \/
         \E k \in Active : fs'[k].name = Parent(fs'[j].name) /\ fs'[k].type = "DIR"
<1> DEFINE f == FinalDest(p, q)
           src == Find(p)
           Along(i) == fs[src].type = "DIR" /\ Under(fs[i].name, p)
<1>1. /\ src \in Active /\ fs[src].name = p /\ fs[src].type \in Types
      /\ \A i \in Active : fs'[i].name = NewName(p, q, i) /\ fs'[i].type = fs[i].type
  BY MvIs
<1>2. f \in PathNames /\ FrontNamed(f) /\ p \in PathNames
  BY TameNames
<1>3. \A i \in Active : /\ fs[i].name \in PathNames /\ FrontNamed(fs[i].name)
                        /\ Len(fs[i].name) \in Nat
  BY EntryNames
<1>4. ASSUME NEW i \in Active, Along(i), i # src
      PROVE  /\ p # Root /\ f # Root /\ Under(fs[i].name, p)
             /\ fs'[i].name = Slashed(f) \o Suffix(fs[i].name, p)
             /\ \A k \in 1 .. Len(f) : f[k] \in Names
  BY <1>1, <1>4, MovesFar DEF NewName
<1>5. ASSUME NEW i \in Active, ~Along(i), i # src PROVE fs'[i].name = fs[i].name
  BY <1>1, <1>5 DEF NewName
<1>6. fs'[src].name = f
  BY <1>1 DEF NewName
<1>7. ParentExists(f) /\ ~Under(f, p)
  BY DEF Tame
<1>8. ASSUME NEW n \in PathNames, Len(n) > 1, ParentExists(n)
      PROVE  \E k \in Active : fs[k].name = Parent(n) /\ fs[k].type = "DIR"
  <2>1. fs \in Seq(Named(Paths)) /\ NamesUnique /\ Len(n) \in Nat
    BY EntriesAre, LenIs DEF TypeInv, TreeInv, PathNames
  <2>2. QED
    BY <1>8, <2>1, IsDirIs DEF ParentExists
<1>9. ASSUME NEW n \in PathNames, Len(n) > 1, ~Under(n, p), NEW k \in Active,
             fs[k].name = Parent(n), fs[k].type = "DIR"
      PROVE  fs'[k].name = Parent(n) /\ fs'[k].type = "DIR"
  <2> DEFINE S == Names \cup {""}
  <2>1. n \in Seq(S) /\ p \in Seq(S) /\ "" \in S
    BY <1>2 DEF PathNames
  <2> HIDE DEF S
  <2>2. ~(Parent(n) = p \/ Under(Parent(n), p))
    BY <1>9, <2>1, ChildIsUnder
  <2>3. k # src /\ ~Along(k)
    BY <1>1, <1>9, <2>2
  <2>4. QED
    BY <1>1, <1>5, <1>9, <2>3
<1>10. \A i \in Active : ParentExists(fs[i].name)
  BY DEF TreeInv, ParentsExist
<1> HIDE DEF f, src, Along
<1>11. CASE j = src
  <2>1. Len(f) \in Nat
    BY <1>2, LenIs DEF PathNames
  <2>2. CASE Len(f) <= 1
    BY <1>6, <1>11, <2>2
  <2>3. CASE Len(f) > 1
    BY <1>2, <1>6, <1>7, <1>8, <1>9, <1>11, <2>3
  <2>4. QED
    BY <2>1, <2>2, <2>3
<1>12. CASE j # src /\ ~Along(j)
  <2>1. PICK n \in PathNames : n = fs[j].name
    BY <1>3
  <2>2. fs'[j].name = n
    BY <1>5, <1>12, <2>1
  <2>3. CASE Len(n) <= 1
    BY <2>2, <2>3
  <2>4. CASE Len(n) > 1
    <3>1. PICK k \in Active : fs[k].name = Parent(n) /\ fs[k].type = "DIR"
      BY <1>8, <1>10, <2>1, <2>4
    <3>2. CASE ~Under(n, p)
      BY <1>9, <2>2, <2>4, <3>1, <3>2
    <3>3. CASE Under(n, p)
      <4>1. fs[src].type # "DIR"
        BY <1>12, <2>1, <3>3 DEF Along
      <4>2. k # src /\ ~Along(k)
        BY <3>1, <4>1 DEF Along
      <4>3. fs'[k].name = Parent(n) /\ fs'[k].type = "DIR"
        BY <1>1, <1>5, <3>1, <4>2
      <4>4. QED
        BY <2>2, <4>3
    <3>4. QED
      BY <3>2, <3>3
  <2>5. QED
    BY <1>3, <2>1, <2>3, <2>4
<1>13. CASE j # src /\ Along(j)
  <2>1. PICK n \in PathNames : n = fs[j].name
    BY <1>3
  <2>2. /\ p # Root /\ f # Root /\ Under(n, p) /\ fs[src].type = "DIR"
        /\ \A k \in 1 .. Len(f) : f[k] \in Names
    BY <1>4, <1>13, <2>1 DEF Along
  <2>3. PICK w \in PathNames : w = Slashed(f) \o Suffix(n, p) /\ MovesTo(n, p, f, w)
    BY <1>2, <2>1, <2>2, MovedIs
  <2>4. fs'[j].name = w
    BY <1>4, <1>13, <2>1, <2>3
  <2>5. /\ Len(n) > 1 /\ Len(n) \in Nat /\ FrontNamed(n) /\ Len(p) \in Nat \ {0}
        /\ Len(f) \in Nat \ {0} /\ Len(w) > 1 /\ Len(w) \in Nat
    BY <1>3, <2>1, <2>3 DEF MovesTo
  <2>6. PICK k \in Active : fs[k].name = Parent(n) /\ fs[k].type = "DIR"
    BY <1>8, <1>10, <2>1, <2>5
  <2>7. Parent(n) = Front(n)
    BY <2>5, ParentIsFront
  <2>8. FrontNamed(w)
    BY <2>2, <2>3, <2>5, MovesNamed
  <2>9. Parent(w) = Front(w)
    BY <2>5, <2>8, ParentIsFront
  <2> DEFINE S == Names \cup {""}
  <2>10. n \in Seq(S) /\ w \in Seq(S) /\ PathNames = Seq(S) /\ p \in Seq(S) /\ f \in Seq(S)
    BY <1>2 DEF PathNames
  <2> HIDE DEF S
  <2>11. PICK g \in PathNames : /\ g = Front(n) /\ Len(g) = Len(n) - 1
                               /\ \A i \in 1 .. Len(n) - 1 : g[i] = n[i]
    BY <2>5, <2>10, FrontIs
  <2>12. PICK h \in PathNames : /\ h = Front(w) /\ Len(h) = Len(w) - 1
                               /\ \A i \in 1 .. Len(w) - 1 : h[i] = w[i]
    BY <2>5, <2>10, FrontIs
  <2>13. CASE Len(n) = Len(p) + 1
    <3>1. Len(g) = Len(p) /\ \A i \in 1 .. Len(g) : g[i] = p[i]
      BY <2>3, <2>5, <2>11, <2>13 DEF MovesTo
    <3>2. Len(h) = Len(f) /\ \A i \in 1 .. Len(h) : h[i] = f[i]
      BY <2>3, <2>5, <2>12, <2>13 DEF MovesTo
    <3>3. h = f
      BY <2>10, <3>2, SeqEq
    <3>4. QED
      BY <1>1, <1>6, <2>2, <2>4, <2>9, <2>12, <3>3
  <2>14. CASE Len(n) > Len(p) + 1
    <3>1. Under(g, p)
      <4>1. Len(g) > Len(p) /\ \A i \in 1 .. Len(p) : g[i] = p[i]
        BY <2>3, <2>5, <2>11, <2>14 DEF MovesTo
      <4>2. Slashed(p) = p
        BY <2>2 DEF Slashed
      <4>3. QED
        BY <1>2, <4>1, <4>2, UnderIs
    <3>2. k # src /\ Along(k)
      <4>1. g # p
        BY <1>2, <3>1, UnderLonger
      <4>2. QED
        BY <1>1, <2>2, <2>6, <2>7, <2>11, <3>1, <4>1 DEF Along
    <3>3. PICK z \in PathNames : z = Slashed(f) \o Suffix(g, p) /\ MovesTo(g, p, f, z)
      BY <1>2, <2>2, <3>1, MovedIs
    <3>4. fs'[k].name = z /\ fs'[k].type = "DIR"
      BY <1>1, <1>4, <2>6, <2>7, <2>11, <3>2, <3>3
    <3>5. Len(z) = Len(h) /\ Len(h) \in Nat
      BY <2>3, <2>5, <2>11, <2>12, <3>3 DEF MovesTo
    <3>6. ASSUME NEW i \in 1 .. Len(h) PROVE z[i] = h[i]
      <4>1. CASE i \in 1 .. Len(f)
        <5>1. z[i] = f[i] /\ w[i] = f[i]
          BY <2>3, <3>3, <4>1 DEF MovesTo
        <5>2. i \in 1 .. Len(w) - 1
          BY <2>12, <3>6
        <5>3. QED
          BY <2>12, <5>1, <5>2
      <4>2. CASE i \notin 1 .. Len(f)
        <5>1. i - Len(f) \in 1 .. Len(g) - Len(p) /\ i = Len(f) + (i - Len(f))
          BY <2>3, <2>5, <2>11, <2>12, <3>6, <4>2 DEF MovesTo
        <5>2. z[i] = g[Len(p) + (i - Len(f))]
          BY <3>3, <5>1 DEF MovesTo
        <5>3. Len(p) + (i - Len(f)) \in 1 .. Len(n) - 1
          BY <2>5, <2>11, <5>1
        <5>4. g[Len(p) + (i - Len(f))] = n[Len(p) + (i - Len(f))]
          BY <2>11, <5>3
        <5>5. i - Len(f) \in 1 .. Len(n) - Len(p)
          BY <2>5, <2>11, <5>1
        <5>6. w[i] = n[Len(p) + (i - Len(f))]
          BY <2>3, <5>1, <5>5 DEF MovesTo
        <5>7. h[i] = w[i]
          BY <2>12, <3>6
        <5>8. QED
          BY <5>2, <5>4, <5>6, <5>7
      <4>3. QED
        BY <4>1, <4>2
    <3>7. z = h
      BY <2>10, <3>5, <3>6, SeqEq
    <3>8. QED
      BY <2>4, <2>9, <2>12, <3>4, <3>7
  <2>15. QED
    BY <2>3, <2>5, <2>13, <2>14 DEF MovesTo
<1>14. QED
  BY <1>11, <1>12, <1>13

\* A tame move keeps the tree, and no component but the last of a name is empty.
LEMMA TameKeeps ==
  ASSUME TypeInv, TypeInv', TreeInv, NamesInv, NEW p \in Targets, NEW q \in Targets,
         Mv(p, q), Tame(p, q)
  PROVE  TreeInv' /\ NamesInv'
<1>0. p \in Folders /\ q \in Folders
  BY TargetsAre DEF TypeInv
<1>1. NamesUnique'
  BY <1>0, TameUnique
<1>2. Active' = Active /\ \A j \in Active : fs'[j].name = NewName(p, q, j)
  BY MvIs
<1>3. (fs \in Seq(Named(PathNames)))'
  <2>1. Paths \subseteq PathNames /\ fs' \in Seq(Named(Paths))
    BY PathsAre, EntriesAre DEF TypeInv
  <2>2. Named(Paths) \subseteq Named(PathNames)
    BY <2>1 DEF Named
  <2>3. QED
    BY <2>1, <2>2, SeqGrows
<1>4. ParentsExist'
  BY <1>0, <1>1, <1>2, <1>3, TameParents, ParentsExistIsNext
<1>5. ASSUME NEW j \in Active PROVE FrontNamed(NewName(p, q, j))
  <2> DEFINE f == FinalDest(p, q)
  <2>1. f \in PathNames /\ FrontNamed(f) /\ p \in PathNames
    BY <1>0, TameNames
  <2>2. fs[j].name \in PathNames /\ FrontNamed(fs[j].name)
    BY EntryNames
  <2>3. ASSUME fs[Find(p)].type = "DIR", Under(fs[j].name, p)
        PROVE  FrontNamed(Slashed(f) \o Suffix(fs[j].name, p))
    <3>1. p # Root /\ f # Root /\ \A k \in 1 .. Len(f) : f[k] \in Names
      BY <1>0, <2>3, MovesFar
    <3> HIDE DEF f
    <3>2. PICK w \in PathNames : /\ w = Slashed(f) \o Suffix(fs[j].name, p)
                                /\ MovesTo(fs[j].name, p, f, w)
      BY <2>1, <2>2, <2>3, <3>1, MovedIs
    <3>3. FrontNamed(w)
      BY <2>2, <3>1, <3>2, MovesNamed
    <3>4. QED
      BY <3>2, <3>3
  <2>4. QED
    BY <2>1, <2>2, <2>3 DEF NewName
<1>6. QED
  BY <1>1, <1>2, <1>3, <1>4, <1>5 DEF TreeInv, NamesInv

\* The invariants under which the table is a tree, and their step
TreeTable == TypeInv /\ TreeInv /\ NamesInv

LEMMA TreeTableInit == Init => TreeTable
BY TypeInvInit, TreeInit, NamesInvInit DEF TreeTable

LEMMA TreeTableStep == TreeTable /\ [TameNext]_vars => TreeTable'
<1> SUFFICES ASSUME TreeTable, [TameNext]_vars PROVE TreeTable'
  OBVIOUS
<1>1. TypeInv'
  BY TypeInvStep DEF TameNext, Next, TreeTable
<1>2. CASE [Unmoving]_vars
  BY <1>1, <1>2, TreeStep, NamesInvStep DEF TreeTable
<1>3. CASE ~[Unmoving]_vars
  <2>1. PICK p, q \in Targets : Mv(p, q) /\ Tame(p, q)
    BY <1>3 DEF TameNext
  <2>2. QED
    BY <1>1, <2>1, TameKeeps DEF TreeTable
<1>4. QED
  BY <1>2, <1>3

\* The shell's mv checks nothing of its destination.  As long as the user never moves
\* onto an existing name, to a place without a directory or into what is moved, and
\* never a directory to "/", names stay unique (NamesUnique), every entry is inside a
\* directory (ParentsExist) and ls shows all of them (LsShowsAll), whatever else is
\* typed: with these checks mv would keep the tree.
THEOREM TameMovesKeepTree == TameSpec => [](NamesUnique /\ ParentsExist /\ LsShowsAll)
<1>1. TreeTable => NamesUnique /\ ParentsExist /\ LsShowsAll
  BY AllShown DEF TreeInv, TreeTable
<1>2. QED
  BY <1>1, TreeTableInit, TreeTableStep, PTL DEF TameSpec

-----------------------------------------------------------------------------
(* The table implements the tree, moves included                           *)

\* A tame move moves a subtree, and changes nothing of the rest.
LEMMA MoveImplements ==
  ASSUME TypeInv, TreeInv, NamesInv, TypeInv', TreeInv',
         NEW p \in Folders, NEW q \in Folders, Mv(p, q), Tame(p, q)
  PROVE  Tree!Next
<1> DEFINE f == FinalDest(p, q)
           src == Find(p)
           Moved(r) == IF r = p \/ Tree!Below(r, p) THEN f \o SubSeq(r, Len(p) + 1, Len(r))
                       ELSE r
<1>1. /\ src \in Active /\ fs[src].name = p /\ fs[src].type \in Types /\ Active' = Active
      /\ \A j \in Active : fs'[j].name = NewName(p, q, j) /\ NodeOf(j)' = NodeOf(j)
  BY MvIs
<1>2. /\ f \in PathNames /\ FrontNamed(f) /\ p \in PathNames
      /\ \A j \in Active : fs[j].name # f
  BY TameNames
<1>3. NamesUnique /\ NamesUnique'
  BY DEF TreeInv
<1>4. f \in Paths
  <2>1. fs'[src].name = f
    BY <1>1 DEF NewName
  <2>2. src \in DOMAIN fs'
    BY <1>1 DEF Active
  <2>3. fs'[src] \in Entries
    BY <2>2, ElementIs DEF TypeInv
  <2>4. QED
    BY <2>1, <2>3 DEF Entries
<1>5. ASSUME NEW j \in Active PROVE fs'[j].name = Moved(fs[j].name)
  <2>1. fs[j].name \in PathNames /\ FrontNamed(fs[j].name)
    BY EntryNames
  <2>2. Under(fs[j].name, p) <=> Tree!Below(fs[j].name, p)
    BY <1>2, <2>1, UnderIsBelow
  <2>3. CASE j = src
    <3> DEFINE S == Names \cup {""}
    <3>1. SubSeq(p, Len(p) + 1, Len(p)) = <<>> /\ f \o <<>> = f
      <4>1. f \in Seq(S) /\ p \in Seq(S)
        BY <1>2 DEF PathNames
      <4> HIDE DEF f, S
      <4>2. Len(p) \in Nat /\ f \o <<>> = f
        BY <4>1
      <4>3. SubSeq(p, Len(p) + 1, Len(p)) = <<>>
        BY <4>1, <4>2
      <4>4. QED
        BY <4>2, <4>3
    <3>2. fs'[j].name = f
      BY <1>1, <2>3 DEF NewName
    <3> HIDE DEF f, src
    <3>3. QED
      BY <1>1, <2>3, <3>1, <3>2
  <2>4. CASE j # src /\ fs[src].type = "DIR" /\ Under(fs[j].name, p)
    <3>1. p # Root /\ f # Root
      BY <2>4, MovesFar
    <3>2. Slashed(p) = p /\ Slashed(f) = f
      BY <3>1 DEF Slashed
    <3>3. fs'[j].name = f \o SubSeq(fs[j].name, Len(p) + 1, Len(fs[j].name))
      BY <1>1, <2>4, <3>2 DEF NewName, Suffix
    <3>4. QED
      BY <2>2, <2>4, <3>3
  <2>5. CASE j # src /\ ~(fs[src].type = "DIR" /\ Under(fs[j].name, p))
    <3>1. fs'[j].name = fs[j].name
      BY <1>1, <2>5 DEF NewName
    <3>2. fs[j].name # p
      BY <1>1, <1>3, <2>5 DEF NamesUnique
    <3>3. fs[src].type = "REG" => ~Tree!Below(fs[j].name, p)
      BY <1>1, NothingBelowFile
    <3>4. ~Tree!Below(fs[j].name, p)
      BY <1>1, <2>2, <2>5, <3>3 DEF Types
    <3>5. QED
      BY <3>1, <3>2, <3>4
  <2>6. QED
    BY <2>3, <2>4, <2>5
<1>6. p \in DOMAIN TreeOf /\ f \notin DOMAIN TreeOf /\ TreeOf[p] = NodeOf(src)
  BY <1>1, <1>2, <1>3, TreeOfIs
<1>7. Tree!InDir(f)
  <2>1. Len(f) \in Nat /\ ParentExists(f) /\ fs \in Seq(Named(Paths))
    BY <1>2, LenIs, EntriesAre DEF PathNames, Tame, TypeInv
  <2>2. CASE Len(f) <= 1
    BY <2>2 DEF Tree!InDir
  <2>3. CASE ~(Len(f) <= 1)
    <3> HIDE DEF f
    <3>1. Parent(f) = Front(f)
      BY <1>2, <2>1, <2>3, ParentIsFront
    <3>2. PICK k \in Active : fs[k].name = Front(f) /\ fs[k].type = "DIR"
      BY <1>3, <2>1, <2>3, <3>1, IsDirIs DEF ParentExists
    <3>3. Front(f) \in DOMAIN TreeOf /\ TreeOf[Front(f)] = NodeOf(k)
      BY <1>3, <3>2, TreeOfIs
    <3>4. TreeOf[Front(f)].type = "DIR"
      BY <3>2, <3>3 DEF NodeOf
    <3>5. QED
      BY <3>3, <3>4 DEF Tree!InDir, Front, Tree!Front
  <2>4. QED
    BY <2>2, <2>3
<1>8. ~Tree!Below(f, p)
  BY <1>2, UnderIsBelow DEF Tame
<1>9. f = <<>> => TreeOf[p].type = "REG"
  <2>1. f = <<>> => ~IsDir(p)
    BY DEF Tame, Root
  <2>2. ~IsDir(p) => fs[src].type # "DIR"
    BY DEF IsDir, Mv
  <2>3. TreeOf[p].type = fs[src].type
    BY <1>6 DEF NodeOf
  <2>4. QED
    BY <1>1, <2>1, <2>2, <2>3 DEF Types
<1> HIDE DEF f, src, Moved
<1>10. DOMAIN TreeOf' = {Moved(r) : r \in DOMAIN TreeOf}
  <2>1. DOMAIN TreeOf = {fs[j].name : j \in Active}
    BY <1>3, TreeOfIs
  <2>2. DOMAIN TreeOf' = {fs'[j].name : j \in Active}
    BY <1>1, <1>3, TreeOfIsNext
  <2>3. QED
    BY <1>5, <2>1, <2>2
<1>11. ASSUME NEW s \in DOMAIN TreeOf'
       PROVE  TreeOf'[s] = TreeOf[CHOOSE r \in DOMAIN TreeOf : Moved(r) = s]
  <2>1. PICK j \in Active : s = fs'[j].name
    BY <1>1, <1>3, TreeOfIsNext
  <2> DEFINE r == CHOOSE x \in DOMAIN TreeOf : Moved(x) = s
  <2>2. r \in DOMAIN TreeOf /\ Moved(r) = s
    BY <1>10
  <2> HIDE DEF r
  <2>3. PICK k \in Active : r = fs[k].name
    BY <1>3, <2>2, TreeOfIs
  <2>4. fs'[k].name = fs'[j].name
    BY <1>5, <2>1, <2>2, <2>3
  <2>5. k = j
    BY <1>1, <1>3, <2>4 DEF NamesUnique
  <2>6. TreeOf[r] = NodeOf(j)
    BY <1>3, <2>3, <2>5, TreeOfIs
  <2>7. TreeOf'[s] = NodeOf(j)'
    BY <1>1, <1>3, <2>1, TreeOfIsNext
  <2>8. NodeOf(j)' = NodeOf(j)
    BY <1>1
  <2>9. QED
    BY <2>6, <2>7, <2>8 DEF r
<1>12. TreeOf' = [s \in {Moved(r) : r \in DOMAIN TreeOf} |->
                    TreeOf[CHOOSE r \in DOMAIN TreeOf : Moved(r) = s]]
  BY <1>3, <1>10, <1>11, TreeOfIsNext
<1>13. Tree!Move(p, f)
  BY <1>6, <1>7, <1>8, <1>9, <1>12 DEF Tree!Move, Moved
<1>14. QED
  BY <1>4, <1>6, <1>13 DEF Tree!Next

\* As long as every move is tame, the table is a tree of nodes (ImplementsFileTree):
\* every command creates, updates, deletes or moves as FileTree says, or changes
\* nothing of the tree.
THEOREM TableImplementsTree == TameSpec => ImplementsFileTree
<1>1. Init /\ TreeTable => Tree!Init
  BY InitImplements DEF TreeTable, TreeInv
<1>2. TreeTable /\ TreeTable' /\ [TameNext]_vars => [Tree!Next]_TreeOf
  <2> SUFFICES ASSUME TreeTable, TreeTable', [TameNext]_vars PROVE [Tree!Next]_TreeOf
    OBVIOUS
  <2>1. CASE [Unmoving]_vars
    BY <2>1, StepImplements DEF TreeTable
  <2>2. CASE ~[Unmoving]_vars
    <3>1. PICK p, q \in Targets : Mv(p, q) /\ Tame(p, q)
      BY <2>2 DEF TameNext
    <3>2. p \in Folders /\ q \in Folders
      BY TargetsAre DEF TreeTable, TypeInv
    <3>3. QED
      BY <3>1, <3>2, MoveImplements DEF TreeTable
  <2>3. QED
    BY <2>1, <2>2
<1>3. TameSpec => Tree!Init /\ [][Tree!Next]_TreeOf
  BY <1>1, <1>2, TreeTableInit, TreeTableStep, PTL DEF TameSpec
<1>4. QED
  BY <1>3 DEF ImplementsFileTree, Tree!Spec
=============================================================================
