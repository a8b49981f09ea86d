------------------------------ MODULE MCRamFs ------------------------------
(* A small instance of RamFs: a directory with a file in it, as init_fs     *)
(* makes them; every argument of at most two components.                    *)
EXTENDS RamFs

Parts == Names \cup {".."}

MCArgs ==
  [absolute : BOOLEAN, parts : {<<>>} \cup [1..1 -> Parts] \cup [1..2 -> Parts]]

Node(path, kind, text) ==
  [name |-> path, type |-> kind, content |-> text, active |-> TRUE]

MCInitFs == <<Node(<<"a">>, "DIR", ""), Node(<<"a", "b">>, "REG", "")>>

\* What the commands can tell apart: they look at no inactive entry, and as long as
\* names are unique (NamesUnique, of the same run) not at the order of the others.  A
\* state with two entries of one name is not taken for one without.
MCView == <<{fs[i] : i \in Active}, Cardinality(Active), fs_count, cwd>>
=============================================================================
