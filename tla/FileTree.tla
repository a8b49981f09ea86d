------------------------------ MODULE FileTree ------------------------------
(***************************************************************************)
(* What the file commands of the shell promise: a tree of nodes, each with *)
(* a path of its own.  A node is created inside a directory, a file's text *)
(* is replaced, and a removal or a move takes a whole subtree.             *)
(***************************************************************************)
EXTENDS SequencesExt

CONSTANTS Paths, Texts

VARIABLE tree   \* a function from the paths in use to their nodes

Nodes == [type : {"REG", "DIR"}, content : Texts]

Init == DOMAIN tree \subseteq Paths /\ tree \in [DOMAIN tree -> Nodes]

Below(p, q) == q # <<>> /\ p # q /\ IsPrefix(q, p)

InDir(p) == Len(p) <= 1 \/ (Front(p) \in DOMAIN tree /\ tree[Front(p)].type = "DIR")

Create(p, n) ==
  /\ p \notin DOMAIN tree /\ InDir(p)
  /\ tree' = [q \in DOMAIN tree \cup {p} |-> IF q = p THEN n ELSE tree[q]]

Update(p, t) ==
  /\ p \in DOMAIN tree /\ tree[p].type = "REG"
  /\ tree' = [tree EXCEPT ![p].content = t]

Delete(p) ==
  /\ p \in DOMAIN tree
  /\ tree' = Restrict(tree, {q \in DOMAIN tree : q # p /\ ~Below(q, p)})

\* The subtree at p, and nothing else, moves to q, a free place outside of it; what is
\* below p comes to be below q at the same relative place.
Move(p, q) ==
  LET Moved(r) == IF r = p \/ Below(r, p) THEN q \o SubSeq(r, Len(p) + 1, Len(r)) ELSE r
  IN
  /\ p \in DOMAIN tree /\ q \notin DOMAIN tree
  /\ InDir(q) /\ ~Below(q, p)
  /\ q = <<>> => tree[p].type = "REG"
  /\ tree' = [s \in {Moved(r) : r \in DOMAIN tree} |->
                tree[CHOOSE r \in DOMAIN tree : Moved(r) = s]]

Next == \E p \in DOMAIN tree \cup Paths :
           \/ \E n \in Nodes : Create(p, n)
           \/ \E t \in Texts : Update(p, t)
           \/ Delete(p)
           \/ \E q \in Paths : Move(p, q)

Spec == Init /\ [][Next]_tree
=============================================================================
