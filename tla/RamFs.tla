------------------------------- MODULE RamFs -------------------------------
(***************************************************************************)
(* The RAM file system of the shell (src/shell/shell.c): the table fs, the *)
(* working directory and the commands touch, write, mkdir, ls, cd, cat,    *)
(* cp, mv and rm.  The shell is one thread and nothing else uses fs, so a  *)
(* command is one step.                                                    *)
(*                                                                         *)
(* A path is the sequence of its components: "/" is <<>>, "/a/b" is        *)
(* <<"a", "b">>, and "//b", which mv can make, <<"", "b">>.  Arguments and *)
(* names are short enough for the buffers of the code.  A command that     *)
(* prints an error or only reads changes nothing and is no action.         *)
(***************************************************************************)
EXTENDS Integers, SequencesExt

CONSTANTS
  MAX_FILES,  \* slots of fs
  STACK,      \* folders the path resolver keeps (8)
  NameMax,    \* longest name in components (the code: name[64])
  Names,      \* file names
  Texts,      \* file contents, "" among them
  Args,       \* path arguments: records [absolute, parts]
  InitFs,     \* the entries init_fs makes
  Commands    \* the commands the user types

Types == {"REG", "DIR"}
Paths == UNION {[1..n -> Names \cup {""}] : n \in 0..NameMax}
Entries == [name : Paths, type : Types, content : Texts, active : BOOLEAN]

ASSUME RamFsAssumption ==
  /\ MAX_FILES \in Nat \ {0} /\ STACK \in Nat \ {0} /\ NameMax \in Nat
  /\ STACK <= NameMax  \* what the resolver yields fits into name
  /\ Names \cap {"", ".", ".."} = {} /\ "" \in Texts
  /\ InitFs \in Seq(Entries) /\ Len(InitFs) <= MAX_FILES
  /\ \A a \in Args : a.absolute \in BOOLEAN /\ a.parts \in Seq(Names \cup {".", ".."})

\* init_fs makes a tree: the file system starts as what the commands keep it.
ASSUME InitFsAssumption ==
  /\ \A i, j \in DOMAIN InitFs : InitFs[i].name = InitFs[j].name => i = j
  /\ \A i \in DOMAIN InitFs :
       /\ InitFs[i].active /\ "" \notin Range(InitFs[i].name)
       /\ \/ Len(InitFs[i].name) <= 1
          \/ \E j \in DOMAIN InitFs :
               InitFs[j].type = "DIR" /\ InitFs[j].name = Front(InitFs[i].name)

VARIABLES
  fs,   \* fs[0 .. fs_count - 1]; size is always strlen(content)
  cwd

vars == <<fs, cwd>>

Root == <<>>
fs_count == Len(fs)
Active == {i \in DOMAIN fs : fs[i].active}

Init == fs = InitFs /\ cwd = Root

-----------------------------------------------------------------------------
(* Paths                                                                   *)

\* Mutant: ".." at the root does not stay there.
PushPartLoose(stack, part) == IF part = "." THEN stack ELSE Append(stack, part)

PushPart(stack, part) ==
  CASE part = "."  -> stack
    [] part = ".." -> IF stack = <<>> THEN stack ELSE Front(stack)
    [] OTHER -> IF Len(stack) < STACK THEN Append(stack, part) ELSE stack

\* The stack of folders after the first n parts
Resolve(parts) ==
  LET stack[n \in 0 .. Len(parts)] ==
        IF n = 0 THEN <<>> ELSE PushPart(stack[n-1], parts[n])
  IN  stack[Len(parts)]

ToAbsolutePath(arg) ==
  Resolve((IF arg.absolute THEN <<>> ELSE cwd) \o arg.parts)

\* Every path the user can name now; an empty argument is not a path.
Targets == {ToAbsolutePath(arg) : arg \in {a \in Args : a.absolute \/ a.parts # <<>>}}

\* The string p followed by a slash, as components
Slashed(p) == IF p = Root THEN <<"">> ELSE p

\* Mutant: only what is directly inside.
UnderDirectly(p, dir) ==
  Len(p) = Len(Slashed(dir)) + 1 /\ IsPrefix(Slashed(dir), p)

\* p starts with the string dir followed by a slash
Under(p, dir) == Len(p) > Len(Slashed(dir)) /\ IsPrefix(Slashed(dir), p)

Suffix(p, dir) == SubSeq(p, Len(Slashed(dir)) + 1, Len(p))

IsInDirectory(p, dir) ==
  IF dir = Root THEN Len(p) <= 1 ELSE Len(p) = Len(dir) + 1 /\ IsPrefix(dir, p)

-----------------------------------------------------------------------------
(* The table                                                               *)

NotFound == 0

\* Mutant: the search stops one entry early.
FindShort(p) ==
  LET hits == {i \in Active : fs[i].name = p /\ i < fs_count}
  IN  IF hits = {} THEN NotFound ELSE Min(hits)

\* The search every command begins with: the first active entry of that name
Find(p) ==
  LET hits == {i \in Active : fs[i].name = p}
  IN  IF hits = {} THEN NotFound ELSE Min(hits)

IsDir(p) == Find(p) # NotFound /\ fs[Find(p)].type = "DIR"
IsFile(p) == Find(p) # NotFound /\ fs[Find(p)].type = "REG"

\* What is before the last slash; for "//b" that is "/".
Parent(p) == IF Front(p) = <<"">> THEN Root ELSE Front(p)

\* Mutant: the parent may be a file.
ParentIsAnything(p) == Len(p) <= 1 \/ Find(Parent(p)) # NotFound

ParentExists(p) == Len(p) <= 1 \/ IsDir(Parent(p))

\* A new entry at the end of the table, if there is room
Add(p, type, text) ==
  /\ fs_count < MAX_FILES
  /\ fs' = Append(fs, [name |-> p, type |-> type, content |-> text, active |-> TRUE])

\* Where cp and mv put src: inside dest if dest is a directory
FinalDest(src, dest) ==
  IF \E i \in Active : fs[i].name = dest /\ fs[i].type = "DIR"
    THEN IF src # Root THEN Append(dest, Last(src))
         ELSE IF dest = Root THEN Root ELSE Append(dest, "")
    ELSE dest

-----------------------------------------------------------------------------
(* The commands                                                            *)

Touch(p) ==
  /\ Find(p) = NotFound /\ ParentExists(p)
  /\ Add(p, "REG", "")
  /\ UNCHANGED cwd

Write(p, text) ==
  /\ ~IsDir(p) /\ ParentExists(p)
  /\ IF IsFile(p) THEN fs' = [fs EXCEPT ![Find(p)].content = text]
                  ELSE Add(p, "REG", text)
  /\ UNCHANGED cwd

Mkdir(p) ==
  /\ Find(p) = NotFound /\ ParentExists(p)
  /\ Add(p, "DIR", "")
  /\ UNCHANGED cwd

\* cd without an argument goes to the root.
Cd(p) ==
  /\ p = Root \/ IsDir(p)
  /\ cwd' = p
  /\ UNCHANGED fs

Cp(src, dest) ==
  LET final == FinalDest(src, dest) IN
  /\ Len(final) <= NameMax
  /\ IsFile(src)
  /\ ~IsDir(final) /\ ParentExists(final)
  /\ IF IsFile(final)
       THEN fs' = [fs EXCEPT ![Find(final)].content = fs[Find(src)].content]
       ELSE Add(final, "REG", fs[Find(src)].content)
  /\ UNCHANGED cwd

\* Mutant: what is under a directory keeps its name.
MvEntryOnly(src, dest) ==
  /\ Find(src) # NotFound
  /\ fs' = [fs EXCEPT ![Find(src)].name = FinalDest(src, dest)]
  /\ UNCHANGED cwd

\* The entry of src is renamed; if it is a directory, so is all under it.
Mv(src, dest) ==
  LET i == Find(src)
      final == FinalDest(src, dest)
      Renamed(j) ==
        IF j = i THEN final
        ELSE IF j \in Active /\ fs[i].type = "DIR" /\ Under(fs[j].name, src)
        THEN Slashed(final) \o Suffix(fs[j].name, src)
        ELSE fs[j].name
  IN
  /\ i # NotFound
  /\ \A j \in DOMAIN fs : Len(Renamed(j)) <= NameMax
  /\ fs' = [j \in DOMAIN fs |-> [fs[j] EXCEPT !.name = Renamed(j)]]
  /\ UNCHANGED cwd

\* Mutant: rm -rf of a directory leaves what is under it.
RmEntryOnly(p, recursive) ==
  /\ Find(p) # NotFound
  /\ recursive \/ IsFile(p)
  /\ fs' = [fs EXCEPT ![Find(p)].active = FALSE]
  /\ UNCHANGED cwd

\* rm, with -rf if recursive; the entry stays in its slot, inactive.
Rm(p, recursive) ==
  LET i == Find(p) IN
  /\ i # NotFound
  /\ recursive \/ IsFile(p)
  /\ fs' = [j \in DOMAIN fs |->
              [fs[j] EXCEPT !.active =
                 @ /\ j # i /\ ~(fs[i].type = "DIR" /\ Under(fs[j].name, p))]]
  /\ UNCHANGED cwd

-----------------------------------------------------------------------------
\* The commands that rename nothing
Unmoving ==
  \/ "touch" \in Commands /\ \E p \in Targets : Touch(p)
  \/ "write" \in Commands /\ \E p \in Targets, text \in Texts \ {""} : Write(p, text)
  \/ "mkdir" \in Commands /\ \E p \in Targets : Mkdir(p)
  \/ "cd" \in Commands /\ \E p \in Targets \cup {Root} : Cd(p)
  \/ "cp" \in Commands /\ \E p, q \in Targets : Cp(p, q)
  \* "rm" and "rm -rf " without a path mean the working directory.
  \/ "rm" \in Commands /\ \E p \in Targets \cup {cwd}, r \in BOOLEAN : Rm(p, r)

Next == Unmoving \/ ("mv" \in Commands /\ \E p, q \in Targets : Mv(p, q))

Spec == Init /\ [][Next]_vars

\* mv checks nothing of its destination.  A tame move is one to a free name inside a
\* directory and not into what is moved; a directory does not become "/".
Tame(src, dest) ==
  LET final == FinalDest(src, dest) IN
  /\ Find(final) = NotFound /\ ParentExists(final)
  /\ ~Under(final, src)
  /\ IsDir(src) => final # Root

\* Every command, but no other move: a user who looks before he moves
TameNext ==
  Unmoving \/ ("mv" \in Commands /\ \E p, q \in Targets : Tame(p, q) /\ Mv(p, q))

TameSpec == Init /\ [][TameNext]_vars

-----------------------------------------------------------------------------
(* Properties                                                              *)

\* Whatever the arguments and the working directory, what the resolver makes of
\* them is a path: no "." or ".." and no empty component is left in it.
Resolved == Targets \subseteq Seq(Names)

\* Every variable keeps its type; the working directory is a resolved path.
TypeOK ==
  /\ fs \in Seq(Entries) /\ fs_count <= MAX_FILES
  /\ cwd \in Paths /\ Len(cwd) <= STACK /\ Range(cwd) \subseteq Names
  /\ Resolved

\* What ls prints for dir, and the directories it accepts
Listing(dir) == {fs[i].name : i \in {j \in Active : IsInDirectory(fs[j].name, dir)}}
Listable(dir) == dir = Root \/ IsDir(dir)

\* The names that at most n rounds of ls, from the root down, show
Shown[n \in 0 .. NameMax] ==
  IF n = 0 THEN {Root}
  ELSE Shown[n-1] \cup UNION {Listing(d) : d \in {p \in Shown[n-1] : Listable(p)}}

\* Every entry of the table is in the tree that ls shows: creating, copying and
\* removing leave no node without its directory, nor does a tame move.
LsShowsAll == \A i \in Active : fs[i].name \in Shown[NameMax]

\* "Absolute path to node" (struct mock_inode): no two active entries have the
\* same name, the first of which would hide the second.
NamesUnique == \A i, j \in Active : fs[i].name = fs[j].name => i = j

\* "Verify parent directory exists and is of type DIR" (parent_exists): every
\* active entry below the root is inside an active directory.
ParentsExist == \A i \in Active : ParentExists(fs[i].name)

\* A directory that is renamed, itself or with one above it, takes everything
\* under it along to the same relative place: mv's loop over the names misses
\* none and touches nothing else of the tree below it.
Together ==
  \A i, j \in Active :
    /\ fs[i].type = "DIR" /\ fs'[i].name # fs[i].name
    /\ Under(fs[j].name, fs[i].name)
    => fs'[j].name = Slashed(fs'[i].name) \o Suffix(fs[j].name, fs[i].name)
MovesTogether == [][Together]_vars

\* The table as a tree: each path leads to the entry the commands find.
TreeOf == [p \in {fs[i].name : i \in Active} |->
             [type |-> fs[Find(p)].type, content |-> fs[Find(p)].content]]

\* The table is a tree of nodes (module FileTree), as long as every move is tame; such
\* a move takes a whole subtree along and changes nothing else.
Tree == INSTANCE FileTree WITH tree <- TreeOf
ImplementsFileTree == Tree!Spec
=============================================================================
