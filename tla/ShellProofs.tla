---------------------------- MODULE ShellProofs ----------------------------
(***************************************************************************)
(* Theorems about the shell's loop: whatever is typed, however a line      *)
(* wraps or the console scrolls and whatever the tasks write into row 0    *)
(* meanwhile, the line on the console is the line that a return runs; a    *)
(* line is split into its words; the rain leaves nothing behind; calc      *)
(* prints the value of every expression it is given.                       *)
(*                                                                         *)
(* ShellInv is inductive.  It says of the console that its cells and its   *)
(* cursor are those of a screen (ScreenOK), and of the prompt where it     *)
(* stands (LineOn): that is what makes a backspace over the end of a row   *)
(* and a scroll in the middle of a line keep it.  A column of the rain is  *)
(* never further down than where its end leaves the screen (RainOK).       *)
(*                                                                         *)
(* What kprint makes of a text is a recursive function, and so are the     *)
(* parser of calc, the text and the value of an expression, and the value  *)
(* of a numeral.  That such a function has a value, and only one, is shown *)
(* without the induction theorems, by the first place where it would not   *)
(* (LeastNat, UpTo, Defined).  The rules of the parser call each other:    *)
(* their place is the weight of a call (Weight), which falls as the parser *)
(* reads on.  RanOK, inductive by itself, says of the shell that it shows  *)
(* what the parser has computed; CalculatesTrees says of the parser that   *)
(* this is what the tree of the text means.                                *)
(***************************************************************************)
EXTENDS Arithmetic, WellFoundedInduction, FiniteSetTheorems, TLAPS

-----------------------------------------------------------------------------
(* The rain                                                                *)

Colours == {"none", "white", "light", "dark"}

\* A drop is on its way until its end has left the screen.
RainOK(c) ==
  /\ c \in [y_pos : Int, length : Nat, speed : Nat, count : Nat, cells : [Lines -> Colours]]
  /\ c.y_pos # -1 => c.y_pos \in Nat /\ c.length >= 4 /\ ~Left(c.y_pos, c.length)
  /\ Rains(c)

\* The drop is painted one line further down.
LEMMA PaintedIs ==
  ASSUME NEW cells \in [Lines -> Colours], NEW y \in Nat, NEW length \in Nat, length >= 4
  PROVE  /\ Painted(cells, y, length) \in [Lines -> Colours]
         /\ \A i \in Lines :
              Painted(cells, y, length)[i] =
                IF i = y - length THEN "none"
                ELSE IF i = y - 3 THEN IF cells[i] = "none" THEN "none" ELSE "dark"
                ELSE IF i = y - 1 THEN IF cells[i] = "none" THEN "none" ELSE "light"
                ELSE IF i = y THEN "white" ELSE cells[i]
<1>1. \A i \in Lines : i \in Int
  BY DEF Lines
<1> DEFINE head == Drawn(cells, y, "white")
           near == Coloured(head, y - 1, "light")
           far == Coloured(near, y - 3, "dark")
<1>2. /\ head \in [Lines -> Colours]
      /\ \A i \in Lines : head[i] = IF i = y THEN "white" ELSE cells[i]
  BY DEF Drawn, Colours
<1>3. /\ near \in [Lines -> Colours]
      /\ \A i \in Lines : near[i] = IF i = y - 1 /\ head[i] # "none" THEN "light" ELSE head[i]
  <2> HIDE DEF head
  <2>1. QED
    BY <1>2 DEF Coloured, Colours
<1>4. /\ far \in [Lines -> Colours]
      /\ \A i \in Lines : far[i] = IF i = y - 3 /\ near[i] # "none" THEN "dark" ELSE near[i]
  <2> HIDE DEF near
  <2>1. QED
    BY <1>3 DEF Coloured, Colours
<1>5. Painted(cells, y, length) = Drawn(far, y - length, "none")
  BY DEF Painted
<1> HIDE DEF head, near, far
<1>6. /\ Painted(cells, y, length) \in [Lines -> Colours]
      /\ \A i \in Lines : Painted(cells, y, length)[i] = IF i = y - length THEN "none" ELSE far[i]
  BY <1>4, <1>5 DEF Drawn, Colours
<1>7. QED
  BY <1>1, <1>2, <1>3, <1>4, <1>6

\* A dry column shows nothing.
LEMMA DryIs == RainOK(Dry)
<1>1. Dry \in [y_pos : Int, length : Nat, speed : Nat, count : Nat, cells : [Lines -> Colours]]
  BY DEF Dry, Colours
<1>2. Rains(Dry)
  BY DEF Rains, Dry
<1>3. QED
  BY <1>1, <1>2 DEF RainOK, Dry

\* The lines that are redrawn show nothing of the rain, and the others what they did.
LEMMA RedrawnIs ==
  ASSUME NEW c, RainOK(c), NEW lines PROVE RainOK(Redrawn(c, lines))
<1> DEFINE d == Redrawn(c, lines)
<1>1. /\ d \in [y_pos : Int, length : Nat, speed : Nat, count : Nat, cells : [Lines -> Colours]]
      /\ d.y_pos = c.y_pos /\ d.length = c.length
      /\ d.cells = [i \in Lines |-> IF i \in lines THEN "none" ELSE c.cells[i]]
  BY DEF RainOK, Redrawn, Colours
<1> HIDE DEF d
<1>2. Rains(d)
  BY <1>1 DEF RainOK, Rains
<1>3. RainOK(d)
  BY <1>1, <1>2 DEF RainOK
<1>4. QED
  BY <1>3 DEF d

\* A pass of run_matrix keeps a column as it should be.
LEMMA PassesIs ==
  ASSUME NEW c, RainOK(c), NEW d \in Passes(c) PROVE RainOK(d)
<1> DEFINE Column == [y_pos : Int, length : Nat, speed : Nat, count : Nat, cells : [Lines -> Colours]]
<1>1. c \in Column
  BY DEF RainOK
<1>2. CASE c.y_pos = -1
  <2>1. \A i \in Lines : c.cells[i] = "none"
    BY <1>2 DEF RainOK, Rains
  <2>2. CASE d = c
    BY <2>2
  <2>3. ASSUME NEW l \in Lengths, NEW s \in Speeds,
               d = Started(c, l, s)
        PROVE  RainOK(d)
    <3>1. l \in Nat /\ l >= 4 /\ s \in Nat /\ Height \in Nat /\ Height > 0
      BY MatrixAssumption
    <3>2. d = [y_pos |-> 0, length |-> l, speed |-> s, count |-> 0, cells |-> c.cells]
      BY <1>1, <2>3 DEF Started
    <3>3. d \in Column /\ d.y_pos = 0 /\ d.length = l /\ d.cells = c.cells
      BY <1>1, <3>1, <3>2
    <3>4. Rains(d)
      BY <2>1, <3>3 DEF Rains
    <3>5. QED
      BY <3>1, <3>3, <3>4 DEF RainOK, Left
  <2>4. d = c \/ \E l \in Lengths, s \in Speeds : d = Started(c, l, s)
    BY <1>2 DEF Passes
  <2>5. QED
    BY <2>2, <2>3, <2>4
<1>3. CASE c.y_pos # -1 /\ c.count + 1 < c.speed
  <2>1. d = [c EXCEPT !.count = c.count + 1]
    BY <1>3 DEF Passes
  <2>2. d \in Column /\ d.y_pos = c.y_pos /\ d.length = c.length /\ d.cells = c.cells
    BY <1>1, <2>1
  <2>3. QED
    BY <2>2 DEF RainOK, Rains
<1>4. CASE c.y_pos # -1 /\ ~(c.count + 1 < c.speed)
  <2> DEFINE y == c.y_pos
             length == c.length
             cells == c.cells
             painted == Painted(cells, y, length)
  <2>1. y \in Nat /\ length \in Nat /\ length >= 4 /\ cells \in [Lines -> Colours] /\ Height \in Nat
    BY <1>1, <1>4, MatrixAssumption DEF RainOK
  <2>2. d = [c EXCEPT !.count = 0, !.cells = painted,
                      !.y_pos = IF Left(y + 1, length) THEN -1 ELSE y + 1]
    BY <1>4 DEF Passes, Fallen
  <2>3. /\ \A i \in Lines : i \in Nat /\ i < Height
        /\ \A i \in Lines : cells[i] # "none" =>
             /\ i \in y - length .. y - 1
             /\ cells[i] = "white" <=> i = y - 1
             /\ i < y - 3 => cells[i] = "dark"
    BY <1>4, <2>1, SMTT(30) DEF RainOK, Rains, Lines
  <2>4. painted \in [Lines -> Colours]
    BY <2>1, PaintedIs
  <2>5. d \in Column /\ d.length = length /\ d.cells = painted
        /\ d.y_pos = IF Left(y + 1, length) THEN -1 ELSE y + 1
    <3> DEFINE next == IF Left(y + 1, length) THEN -1 ELSE y + 1
    <3>1. next \in Int
      BY <2>1
    <3> HIDE DEF next, painted
    <3>2. d = [y_pos |-> next, length |-> c.length, speed |-> c.speed, count |-> 0,
               cells |-> painted]
      BY <1>1, <2>2 DEF next
    <3>3. d \in Column /\ d.length = length /\ d.cells = painted /\ d.y_pos = next
      BY <1>1, <2>4, <3>1, <3>2
    <3>4. QED
      BY <3>3 DEF next
  <2> HIDE DEF y, length, cells
  <2>6. ASSUME NEW i \in Lines, painted[i] # "none"
        PROVE  /\ i \in y + 1 - length .. y
               /\ painted[i] = "white" <=> i = y
               /\ i < y - 2 => painted[i] = "dark"
    <3>1. painted[i] =
                IF i = y - length THEN "none"
                ELSE IF i = y - 3 THEN IF cells[i] = "none" THEN "none" ELSE "dark"
                ELSE IF i = y - 1 THEN IF cells[i] = "none" THEN "none" ELSE "light"
                ELSE IF i = y THEN "white" ELSE cells[i]
      BY <2>1, PaintedIs
    <3> HIDE DEF painted
    <3>2. i \in Nat
      BY <2>3
    <3>3. QED
      BY <2>1, <2>3, <2>6, <3>1, <3>2
  <2> HIDE DEF painted
  <2>7. Rains(d)
    <3>1. CASE Left(y + 1, length)
      <4>1. \A i \in Lines : painted[i] = "none"
        BY <2>1, <2>3, <2>6, <3>1 DEF Left
      <4>2. QED
        BY <2>5, <4>1 DEF Rains
    <3>2. CASE ~Left(y + 1, length)
      <4>1. d.y_pos = y + 1 /\ d.y_pos # -1
        BY <2>1, <2>5, <3>2
      <4>2. QED
        BY <2>1, <2>3, <2>5, <2>6, <4>1 DEF Rains
    <3>3. QED
      BY <3>1, <3>2
  <2>8. QED
    BY <2>1, <2>5, <2>7 DEF RainOK
<1>5. QED
  BY <1>2, <1>3, <1>4

-----------------------------------------------------------------------------
(* The words of a line                                                     *)

\* Every set of numbers that is not empty has a least one.
LEMMA LeastNat ==
  ASSUME NEW T, T \subseteq Nat, T # {}
  PROVE  \E x \in T : \A y \in T : x <= y
<1> DEFINE R == {ss \in Nat \X Nat : ss[1] < ss[2]}
<1>1. IsWellFoundedOn(R, Nat)
  BY NatLessThanWellFounded DEF OpToRel
<1>2. \A x, y \in Nat : <<x, y>> \in R <=> x < y
  OBVIOUS
<1> HIDE DEF R
<1>3. \E x \in T : \A y \in T : ~(<<y, x>> \in R)
  BY <1>1, WFMin
<1>4. PICK x \in T : \A y \in T : ~(<<y, x>> \in R)
  BY <1>3
<1>5. ASSUME NEW y \in T PROVE x <= y
  <2>1. x \in Nat /\ y \in Nat
    OBVIOUS
  <2>2. ~(y < x)
    BY <2>1, <1>4, <1>2
  <2>3. QED
    BY <2>1, <2>2
<1>6. QED
  BY <1>4, <1>5

\* A scan over a line stops at the first character it looks for, or at the end.
LEMMA FirstFromIs ==
  ASSUME NEW W, NEW s \in Seq(W), NEW p \in 1 .. Len(s) + 1, NEW blank \in BOOLEAN
  PROVE  /\ FirstFrom(s, p, blank) \in p .. Len(s) + 1
         /\ \A i \in p .. FirstFrom(s, p, blank) - 1 : ~((s[i] = Blank) = blank)
         /\ FirstFrom(s, p, blank) <= Len(s) => (s[FirstFrom(s, p, blank)] = Blank) = blank
<1> DEFINE Hit(i) == (s[i] = Blank) = blank
           found == {i \in p .. Len(s) : Hit(i)}
           least == CHOOSE i \in found : \A j \in found : i <= j
<1>1. FirstFrom(s, p, blank) = IF found = {} THEN Len(s) + 1 ELSE least
  BY DEF FirstFrom
<1>2. Len(s) \in Nat /\ p \in Nat /\ p <= Len(s) + 1
  OBVIOUS
<1> HIDE DEF Hit
<1>3. CASE found = {}
  <2>1. \A i \in p .. Len(s) : ~Hit(i)
    BY <1>3
  <2>2. FirstFrom(s, p, blank) = Len(s) + 1
    BY <1>1, <1>3
  <2>3. QED
    BY <1>2, <2>1, <2>2 DEF Hit
<1>4. CASE found # {}
  <2>1. found \subseteq Nat
    BY <1>2
  <2>2. \E i \in found : \A j \in found : i <= j
    <3> HIDE DEF found
    <3>1. QED
      BY <1>4, <2>1, LeastNat
  <2>3. least \in found /\ \A j \in found : least <= j
    <3> HIDE DEF found
    <3>1. QED
      BY <2>2
  <2>4. FirstFrom(s, p, blank) = least
    BY <1>1, <1>4
  <2> HIDE DEF least
  <2>5. least \in p .. Len(s) /\ Hit(least)
    BY <2>3
  <2>6. \A i \in p .. least - 1 : ~Hit(i)
    BY <1>2, <2>3, <2>5
  <2>7. QED
    BY <1>2, <2>4, <2>5, <2>6 DEF Hit
<1>5. QED
  BY <1>3, <1>4

\* A word that is cut is a word.
LEMMA KeptIs ==
  ASSUME NEW W, NEW word \in Seq(W), NEW size \in Nat
  PROVE  Kept(word, size) \in Seq(W)
<1>1. Len(word) \in Nat
  OBVIOUS
<1>2. PICK n \in 0 .. Len(word) : Kept(word, size) = SubSeq(word, 1, n)
  <2>1. CASE Len(word) < size
    BY <1>1, <2>1 DEF Kept
  <2>2. CASE ~(Len(word) < size)
    BY <1>1, <2>2 DEF Kept
  <2>3. QED
    BY <2>1, <2>2
<1>3. SubSeq(word, 1, n) \in Seq(W)
  BY <1>1
<1>4. QED
  BY <1>2, <1>3

\* Splitting a line gives its words, and the second is a line again.
LEMMA SplitIs ==
  ASSUME NEW W, NEW line \in Seq(W), NEW size \in Nat
  PROVE  /\ WordsOf(line, Split(line, size), size)
         /\ Split(line, size)[2] \in Seq(W)
<1> DEFINE first == FirstFrom(line, 1, FALSE)
           next == FirstFrom(line, first, TRUE)
           rest == FirstFrom(line, next, FALSE)
           end == Len(line)
<1>1. end \in Nat /\ 1 \in 1 .. end + 1
  OBVIOUS
<1>2. /\ first \in 1 .. end + 1
      /\ \A i \in 1 .. first - 1 : line[i] = Blank
      /\ first <= end => line[first] # Blank
  BY <1>1, FirstFromIs
<1>3. /\ next \in first .. end + 1
      /\ \A i \in first .. next - 1 : line[i] # Blank
      /\ next <= end => line[next] = Blank
  <2> HIDE DEF first
  <2>1. first \in 1 .. Len(line) + 1 /\ TRUE \in BOOLEAN
    BY <1>2
  <2>2. QED
    BY <2>1, FirstFromIs
<1>4. /\ rest \in next .. end + 1
      /\ \A i \in next .. rest - 1 : line[i] = Blank
      /\ rest <= end => line[rest] # Blank
  <2> HIDE DEF first, next
  <2>1. next \in 1 .. Len(line) + 1 /\ FALSE \in BOOLEAN
    BY <1>1, <1>2, <1>3
  <2>2. QED
    BY <2>1, FirstFromIs
<1>5. /\ Split(line, size)[1] = Kept(SubSeq(line, first, next - 1), size)
      /\ Split(line, size)[2] = Kept(SubSeq(line, rest, Len(line)), size)
  BY DEF Split
<1> DEFINE words == Split(line, size)
<1> HIDE DEF first, next, rest, words
<1>6. PICK i \in 0 .. end, j \in 0 .. end, k \in 0 .. end :
        first = i + 1 /\ next = j + 1 /\ rest = k + 1
  <2>1. first - 1 \in 0 .. end /\ next - 1 \in 0 .. end /\ rest - 1 \in 0 .. end
    BY <1>1, <1>2, <1>3, <1>4
  <2>2. first = (first - 1) + 1 /\ next = (next - 1) + 1 /\ rest = (rest - 1) + 1
    BY <1>1, <1>2, <1>3, <1>4
  <2>3. QED
    BY <2>1, <2>2
<1>7. i <= j /\ j <= k /\ i \in Nat /\ j \in Nat /\ k \in Nat
  BY <1>1, <1>2, <1>3, <1>4, <1>6
<1>8. WordsOf(line, words, size)
  <2>1. /\ \A n \in 0 + 1 .. i : line[n] = Blank
        /\ i = end \/ line[i + 1] # Blank
    BY <1>1, <1>2, <1>6, <1>7
  <2>2. \A n \in i + 1 .. j : line[n] # Blank
    BY <1>1, <1>3, <1>6, <1>7
  <2>3. /\ \A n \in j + 1 .. k : line[n] = Blank
        /\ k = end \/ (line[k + 1] # Blank /\ k > j)
    <3>1. \A n \in j + 1 .. k : line[n] = Blank
      BY <1>1, <1>4, <1>6, <1>7
    <3>2. ASSUME k # end PROVE line[k + 1] # Blank /\ k > j
      <4>1. line[k + 1] # Blank /\ j + 1 <= end
        BY <1>1, <1>4, <1>6, <1>7, <3>2
      <4>2. line[j + 1] = Blank
        BY <1>3, <1>6, <4>1
      <4>3. k # j
        BY <4>1, <4>2
      <4>4. QED
        BY <1>7, <4>1, <4>3
    <3>3. QED
      BY <3>1, <3>2
  <2>4. words[1] = Kept(SubSeq(line, i + 1, j), size)
    <3>1. next - 1 = j
      BY <1>6, <1>7
    <3>2. QED
      BY <1>5, <1>6, <3>1 DEF words
  <2>5. words[2] = Kept(SubSeq(line, k + 1, end), size)
    BY <1>5, <1>6 DEF words
  <2>6. i \in 0 .. end /\ j \in i .. end /\ k \in j .. end
    BY <1>7
  <2>7. QED
    BY <2>1, <2>2, <2>3, <2>4, <2>5, <2>6 DEF WordsOf
<1>9. words[2] \in Seq(W)
  <2>1. rest \in 1 .. end + 1
    BY <1>1, <1>6
  <2>2. SubSeq(line, rest, Len(line)) \in Seq(W)
    BY <1>1, <2>1
  <2>3. QED
    BY <1>5, <2>2, KeptIs DEF words
<1>10. QED
  BY <1>8, <1>9 DEF words

\* The first word is a line, too.
LEMMA FirstWordIs ==
  ASSUME NEW W, NEW line \in Seq(W), NEW size \in Nat
  PROVE  Split(line, size)[1] \in Seq(W)
<1> DEFINE first == FirstFrom(line, 1, FALSE)
           next == FirstFrom(line, first, TRUE)
<1>1. 1 \in 1 .. Len(line) + 1 /\ Len(line) \in Nat
  OBVIOUS
<1>2. first \in 1 .. Len(line) + 1
  BY <1>1, FirstFromIs
<1>3. Split(line, size)[1] = Kept(SubSeq(line, first, next - 1), size)
  BY DEF Split
<1> HIDE DEF first
<1>4. next \in first .. Len(line) + 1
  <2>1. TRUE \in BOOLEAN
    OBVIOUS
  <2>2. QED
    BY <1>2, <2>1, FirstFromIs
<1> HIDE DEF next
<1>5. PICK j \in 0 .. Len(line) : j = next - 1 /\ first >= 1 /\ first <= j + 1 /\ first \in Nat
  BY <1>1, <1>2, <1>4
<1>6. SubSeq(line, first, j) \in Seq(W)
  BY <1>1, <1>5
<1>7. QED
  BY <1>3, <1>5, <1>6, KeptIs

\* Nothing has been split yet.
LEMMA NothingIs ==
  /\ WordsOf(NothingRun.line, NothingRun.words, WordSize)
  /\ WordsOf(NothingRun.words[2], NothingRun.args, NameSize)
<1> DEFINE empty == <<>>
<1>1. empty \in Seq({}) /\ Len(empty) = 0
  OBVIOUS
<1>2. ASSUME NEW size \in Nat PROVE Kept(SubSeq(empty, 1, 0), size) = empty
  <2>1. SubSeq(empty, 1, 0) = empty
    OBVIOUS
  <2>2. QED
    BY <1>1, <2>1, <1>2 DEF Kept
<1>3. ASSUME NEW words, words[1] = empty, words[2] = empty, NEW size \in Nat
      PROVE  WordsOf(empty, words, size)
  <2> HIDE DEF empty
  <2>1. /\ 0 \in 0 .. 0
        /\ \A n \in 0 + 1 .. 0 : FALSE
        /\ Len(empty) = 0
    BY <1>1
  <2>2. words[1] = Kept(SubSeq(empty, 0 + 1, 0), size) /\ words[2] = Kept(SubSeq(empty, 0 + 1, 0), size)
    BY <1>2, <1>3
  <2>3. QED
    BY <2>1, <2>2 DEF WordsOf
<1>4. /\ NothingRun.line = empty
      /\ NothingRun.words[1] = empty /\ NothingRun.words[2] = empty
      /\ NothingRun.args[1] = empty /\ NothingRun.args[2] = empty
  BY DEF NothingRun
<1> HIDE DEF empty
<1>5. WordSize \in Nat /\ NameSize \in Nat
  BY ShellAssumption
<1>6. QED
  BY <1>3, <1>4, <1>5

-----------------------------------------------------------------------------
(* The console: offsets, rows and columns                                  *)

\* The cells of the screen, by their offset, and the screens whose cells are in a set
Size == Rows * Cols
Cell(s, i) == s.cells[i \div Cols][i % Cols]
Grids(V) == [0 .. Rows - 1 -> [0 .. Cols - 1 -> V]]
Screens(V) == [cells : Grids(V), at : 0 .. Size - 1]

\* The numbers of the console
LEMMA SizeIs ==
  /\ Rows \in Nat /\ Rows > 0 /\ Cols \in Nat /\ Cols > 1
  /\ Size \in Nat /\ Size >= Cols /\ Size > BufferSize + Cols + 1 /\ BufferSize \in Nat
<1>1. Rows \in Nat /\ Rows >= 1 /\ Cols \in Nat /\ Cols > 1 /\ BufferSize \in Nat
  BY ShellAssumption
<1>2. Rows * Cols \in Nat /\ Rows * Cols >= 1 * Cols
  BY <1>1
<1>3. QED
  BY <1>1, <1>2, ShellAssumption DEF Size

\* An offset is a row and a column.
LEMMA DivMod ==
  ASSUME NEW C \in Nat \ {0}, NEW p \in Nat
  PROVE  /\ p \div C \in Nat /\ p % C \in 0 .. C - 1
         /\ p = C * (p \div C) + (p % C)
         /\ (p + C) \div C = p \div C + 1 /\ (p + C) % C = p % C
OBVIOUS

\* The row of an offset is on the console.
LEMMA RowInside ==
  ASSUME NEW R \in Nat, NEW C \in Nat \ {0}, NEW p \in Nat, p < R * C
  PROVE  p \div C < R /\ (p \div C + 1) * C <= R * C
<1> DEFINE q == p \div C
<1>1. q \in Nat /\ C * q <= p
  BY DivMod
<1> HIDE DEF q
<1>2. q < R
  <2>1. SUFFICES ASSUME q >= R PROVE FALSE
    BY <1>1
  <2>2. C * q >= C * R
    BY <1>1, <2>1
  <2>3. QED
    BY <1>1, <2>2
<1>3. q + 1 \in Nat /\ q + 1 <= R
  BY <1>1, <1>2
<1>4. (q + 1) * C <= R * C
  BY <1>3
<1>5. QED
  BY <1>2, <1>4 DEF q

\* Every offset of the console is in one of its rows and columns.
LEMMA Place ==
  ASSUME NEW p \in 0 .. Size - 1
  PROVE  p \div Cols \in 0 .. Rows - 1 /\ p % Cols \in 0 .. Cols - 1
<1>1. p \in Nat /\ p < Rows * Cols /\ Rows \in Nat /\ Cols \in Nat \ {0}
  BY SizeIs DEF Size
<1>2. p \div Cols < Rows /\ p \div Cols \in Nat /\ p % Cols \in 0 .. Cols - 1
  BY <1>1, RowInside, DivMod
<1>3. QED
  BY <1>1, <1>2

\* Two offsets are not in the same place.
LEMMA SamePlace ==
  ASSUME NEW p \in Nat, NEW q \in Nat, p \div Cols = q \div Cols, p % Cols = q % Cols
  PROVE  p = q
<1>1. Cols \in Nat \ {0}
  BY SizeIs
<1>2. p = Cols * (p \div Cols) + (p % Cols) /\ q = Cols * (q \div Cols) + (q % Cols)
  BY <1>1, DivMod
<1>3. QED
  BY <1>2

\* A cell is written.
LEMMA WithCellIs ==
  ASSUME NEW V, NEW cells \in Grids(V), NEW at, NEW s, s = [cells |-> cells, at |-> at],
         NEW i \in 0 .. Size - 1, NEW ch \in V
  PROVE  \E new \in Grids(V) :
            /\ WithCell(s, i, ch) = [cells |-> new, at |-> at]
            /\ \A j \in 0 .. Size - 1 :
                 new[j \div Cols][j % Cols] = IF j = i THEN ch ELSE cells[j \div Cols][j % Cols]
<1> DEFINE r == i \div Cols
           c == i % Cols
           new == [cells EXCEPT ![r][c] = ch]
<1>1. r \in 0 .. Rows - 1 /\ c \in 0 .. Cols - 1
  BY Place
<1>2. new \in Grids(V)
  <2> HIDE DEF r, c
  <2>1. QED
    BY <1>1 DEF Grids
<1>3. WithCell(s, i, ch) = [cells |-> new, at |-> at]
  BY DEF WithCell
<1>4. ASSUME NEW j \in 0 .. Size - 1
      PROVE  new[j \div Cols][j % Cols] = IF j = i THEN ch ELSE cells[j \div Cols][j % Cols]
  <2> DEFINE q == j \div Cols
             d == j % Cols
  <2>1. q \in 0 .. Rows - 1 /\ d \in 0 .. Cols - 1
    BY Place
  <2>2. j = i <=> q = r /\ d = c
    <3>1. i \in Nat /\ j \in Nat
      BY SizeIs
    <3>2. QED
      BY <3>1, SamePlace
  <2> HIDE DEF q, d, r, c
  <2>3. new[q][d] = IF q = r /\ d = c THEN ch ELSE cells[q][d]
    BY <1>1, <2>1 DEF Grids
  <2>4. QED
    BY <2>2, <2>3 DEF q, d
<1>5. QED
  BY <1>2, <1>3, <1>4

\* The screen scrolls when the cursor is on it no more.
LEMMA ScrolledUpIs ==
  ASSUME NEW V, Blank \in V, NEW cells \in Grids(V), NEW at \in 0 .. Size,
         NEW s, s = [cells |-> cells, at |-> at]
  PROVE  \E new \in Grids(V) :
            IF at < Size
              THEN ScrolledUp(s) = [cells |-> cells, at |-> at]
              ELSE /\ ScrolledUp(s) = [cells |-> new, at |-> at - Cols]
                   /\ \A j \in 0 .. Size - Cols - 1 :
                        new[j \div Cols][j % Cols] = cells[(j + Cols) \div Cols][(j + Cols) % Cols]
<1>1. CASE at < Size
  BY <1>1 DEF ScrolledUp, Size
<1>2. CASE ~(at < Size)
  <2> DEFINE new == [r \in 0 .. Rows - 1 |-> IF r + 1 < Rows THEN cells[r + 1] ELSE AllBlank[0]]
  <2>1. Rows \in Nat /\ Rows > 0 /\ Cols \in Nat \ {0} /\ Size \in Nat
    BY SizeIs
  <2>2. AllBlank[0] \in [0 .. Cols - 1 -> V]
    BY <2>1 DEF AllBlank
  <2>3. new \in Grids(V)
    <3>1. ASSUME NEW r \in 0 .. Rows - 1, r + 1 < Rows PROVE cells[r + 1] \in [0 .. Cols - 1 -> V]
      BY <2>1, <3>1 DEF Grids
    <3>2. QED
      BY <2>2, <3>1 DEF Grids
  <2>4. ScrolledUp(s) = [cells |-> new, at |-> at - Cols]
    BY <1>2 DEF ScrolledUp, Size
  <2>5. ASSUME NEW j \in 0 .. Size - Cols - 1
        PROVE  new[j \div Cols][j % Cols] = cells[(j + Cols) \div Cols][(j + Cols) % Cols]
    <3>1. j \in Nat /\ j + Cols \in 0 .. Size - 1 /\ j \in 0 .. Size - 1
      BY <2>1
    <3>2. /\ (j + Cols) \div Cols = j \div Cols + 1 /\ (j + Cols) % Cols = j % Cols
          /\ j \div Cols \in Nat
      BY <2>1, <3>1, DivMod
    <3>3. (j + Cols) \div Cols \in 0 .. Rows - 1 /\ j \div Cols \in 0 .. Rows - 1
      BY <3>1, Place
    <3>4. (j \div Cols) + 1 < Rows
      BY <2>1, <3>2, <3>3
    <3>5. new[j \div Cols] = cells[(j \div Cols) + 1]
      BY <3>3, <3>4
    <3>6. QED
      BY <3>2, <3>5
  <2> HIDE DEF new
  <2>6. QED
    BY <1>2, <2>3, <2>4, <2>5
<1>3. QED
  BY <1>1, <1>2

-----------------------------------------------------------------------------
(* A character on the console                                              *)

\* A screen is a grid of cells and the offset of a cell.
LEMMA ScreenIs ==
  ASSUME NEW V, NEW s \in Screens(V)
  PROVE  /\ s.cells \in Grids(V) /\ s.at \in 0 .. Size - 1 /\ s.at \in Nat
         /\ s = [cells |-> s.cells, at |-> s.at]
         /\ s.at < Size
BY SizeIs DEF Screens

\* A character is printed: it stands before the cursor, and all that stood before it
\* still does, up to the row that scrolls away.
LEMMA PutChar ==
  ASSUME NEW V, Blank \in V, NEW s \in Screens(V), NEW ch \in V, ch # NL, ch # BS
  PROVE  /\ Put(s, ch) \in Screens(V)
         /\ s.at + 1 < Size =>
              /\ Put(s, ch).at = s.at + 1
              /\ \A i \in 0 .. Size - 1 : Cell(Put(s, ch), i) = IF i = s.at THEN ch ELSE Cell(s, i)
         /\ s.at + 1 >= Size =>
              /\ Put(s, ch).at = Size - Cols
              /\ \A i \in 0 .. Size - Cols - 1 :
                   Cell(Put(s, ch), i) = IF i + Cols = s.at THEN ch ELSE Cell(s, i + Cols)
<1> DEFINE at == s.at
           cells == s.cells
<1>1. cells \in Grids(V) /\ at \in 0 .. Size - 1 /\ at \in Nat /\ s = [cells |-> cells, at |-> at]
  BY ScreenIs
<1>2. Size \in Nat /\ Cols \in Nat /\ Cols > 1 /\ Size >= Cols
  BY SizeIs
<1> HIDE DEF at, cells
<1>3. PICK grid \in Grids(V) :
        /\ WithCell(s, at, ch) = [cells |-> grid, at |-> at]
        /\ \A j \in 0 .. Size - 1 :
             grid[j \div Cols][j % Cols] = IF j = at THEN ch ELSE cells[j \div Cols][j % Cols]
  BY <1>1, WithCellIs, SMTT(30)
<1>4. Put(s, ch) = ScrolledUp([cells |-> grid, at |-> at + 1])
  <2>1. Put(s, ch) = ScrolledUp([WithCell(s, at, ch) EXCEPT !.at = at + 1])
    <3>1. Put(s, ch) = ScrolledUp([WithCell(s, s.at, ch) EXCEPT !.at = WithCell(s, s.at, ch).at + 1])
      BY DEF Put
    <3>2. WithCell(s, s.at, ch).at = at
      BY <1>3 DEF at
    <3>3. QED
      BY <3>1, <3>2 DEF at
  <2>2. [WithCell(s, at, ch) EXCEPT !.at = at + 1] = [cells |-> grid, at |-> at + 1]
    BY <1>3
  <2>3. QED
    BY <2>1, <2>2
<1>5. PICK next \in 0 .. Size : next = at + 1
  BY <1>1, <1>2
<1>6. PICK new \in Grids(V) :
        IF next < Size
          THEN Put(s, ch) = [cells |-> grid, at |-> next]
          ELSE /\ Put(s, ch) = [cells |-> new, at |-> next - Cols]
               /\ \A j \in 0 .. Size - Cols - 1 :
                    new[j \div Cols][j % Cols] = grid[(j + Cols) \div Cols][(j + Cols) % Cols]
  <2>1. PICK t : t = [cells |-> grid, at |-> next]
    OBVIOUS
  <2>2. Put(s, ch) = ScrolledUp(t)
    BY <1>4, <1>5, <2>1
  <2>3. QED
    BY <2>1, <2>2, ScrolledUpIs
<1>7. CASE next < Size
  <2>1. Put(s, ch) = [cells |-> grid, at |-> next]
    BY <1>6, <1>7
  <2>2. next \in 0 .. Size - 1
    BY <1>2, <1>7
  <2>3. Put(s, ch) \in Screens(V) /\ Put(s, ch).at = next /\ Put(s, ch).cells = grid
    BY <2>1, <2>2 DEF Screens
  <2>4. \A i \in 0 .. Size - 1 : Cell(Put(s, ch), i) = IF i = at THEN ch ELSE Cell(s, i)
    BY <1>3, <2>3 DEF Cell, cells
  <2>5. at + 1 < Size /\ ~(at + 1 >= Size)
    BY <1>1, <1>2, <1>5, <1>7
  <2>6. QED
    BY <1>5, <2>3, <2>4, <2>5 DEF at
<1>8. CASE ~(next < Size)
  <2>1. Put(s, ch) = [cells |-> new, at |-> next - Cols]
    BY <1>6, <1>8
  <2>2. next = Size /\ Size - Cols \in 0 .. Size - 1
    BY <1>2, <1>8
  <2>3. Put(s, ch) \in Screens(V) /\ Put(s, ch).at = Size - Cols /\ Put(s, ch).cells = new
    BY <2>1, <2>2 DEF Screens
  <2>4. ASSUME NEW i \in 0 .. Size - Cols - 1
        PROVE  Cell(Put(s, ch), i) = IF i + Cols = at THEN ch ELSE Cell(s, i + Cols)
    <3>1. i + Cols \in 0 .. Size - 1
      BY <1>2
    <3>2. new[i \div Cols][i % Cols] = grid[(i + Cols) \div Cols][(i + Cols) % Cols]
      BY <1>6, <1>8
    <3>3. grid[(i + Cols) \div Cols][(i + Cols) % Cols]
            = IF i + Cols = at THEN ch ELSE cells[(i + Cols) \div Cols][(i + Cols) % Cols]
      BY <1>3, <3>1
    <3>4. QED
      BY <2>3, <3>2, <3>3 DEF Cell, cells
  <2>5. ~(at + 1 < Size)
    BY <1>1, <1>2, <1>5, <2>2
  <2>6. QED
    BY <2>3, <2>4, <2>5 DEF at
<1>9. QED
  BY <1>7, <1>8

\* A backspace blanks the cell before the cursor and goes there.
LEMMA PutBack ==
  ASSUME NEW V, Blank \in V, NEW s \in Screens(V)
  PROVE  /\ Put(s, BS) \in Screens(V)
         /\ s.at > 0 =>
              /\ Put(s, BS).at = s.at - 1
              /\ \A i \in 0 .. Size - 1 : i # s.at - 1 => Cell(Put(s, BS), i) = Cell(s, i)
<1> DEFINE at == s.at
           cells == s.cells
<1>1. cells \in Grids(V) /\ at \in 0 .. Size - 1 /\ at \in Nat /\ s = [cells |-> cells, at |-> at]
  BY ScreenIs
<1>2. Size \in Nat /\ Cols \in Nat /\ Cols > 1 /\ Size >= Cols
  BY SizeIs
<1>3. Put(s, BS) = ScrolledUp(IF s.at > 0 THEN [WithCell(s, s.at - 1, Blank) EXCEPT
                                                  !.at = WithCell(s, s.at - 1, Blank).at - 1]
                              ELSE s)
  BY DEF Put, BS, NL
<1> HIDE DEF at, cells
<1>4. CASE at > 0
  <2>1. at - 1 \in 0 .. Size - 1 /\ at - 1 \in Nat
    BY <1>1, <1>2, <1>4
  <2>2. PICK grid \in Grids(V) :
          /\ WithCell(s, at - 1, Blank) = [cells |-> grid, at |-> at]
          /\ \A j \in 0 .. Size - 1 :
               grid[j \div Cols][j % Cols] = IF j = at - 1 THEN Blank ELSE cells[j \div Cols][j % Cols]
    BY <1>1, <2>1, WithCellIs, SMTT(30)
  <2>3. WithCell(s, at - 1, Blank).at = at
    BY <2>2
  <2>4. Put(s, BS) = ScrolledUp([WithCell(s, at - 1, Blank) EXCEPT !.at = at - 1])
    BY <1>3, <1>4, <2>3 DEF at
  <2>5. [WithCell(s, at - 1, Blank) EXCEPT !.at = at - 1] = [cells |-> grid, at |-> at - 1]
    BY <2>2
  <2>6. at - 1 < Size /\ at - 1 \in 0 .. Size
    BY <1>2, <2>1
  <2>7. Put(s, BS) = [cells |-> grid, at |-> at - 1]
    BY <2>4, <2>5, <2>6, ScrolledUpIs
  <2>8. Put(s, BS) \in Screens(V) /\ Put(s, BS).at = at - 1 /\ Put(s, BS).cells = grid
    BY <2>1, <2>7 DEF Screens
  <2>9. \A i \in 0 .. Size - 1 : i # at - 1 => Cell(Put(s, BS), i) = Cell(s, i)
    BY <2>2, <2>8 DEF Cell, cells
  <2>10. QED
    BY <2>8, <2>9 DEF at
<1>5. CASE ~(at > 0)
  <2>1. Put(s, BS) = ScrolledUp(s)
    BY <1>3, <1>5 DEF at
  <2>2. at < Size /\ at \in 0 .. Size
    BY <1>1, <1>2
  <2>3. Put(s, BS) = s
    BY <1>1, <2>1, <2>2, ScrolledUpIs
  <2>4. QED
    BY <1>5, <2>3 DEF at
<1>6. QED
  BY <1>4, <1>5

\* A line ends: the cursor is at the start of a row.
LEMMA PutLine ==
  ASSUME NEW V, Blank \in V, NEW s \in Screens(V)
  PROVE  /\ Put(s, NL) \in Screens(V)
         /\ \E q \in Nat : Put(s, NL).at = q * Cols /\ q * Cols + Cols <= Size
<1> DEFINE at == s.at
           cells == s.cells
           q == at \div Cols
           below == (q + 1) * Cols
<1>1. cells \in Grids(V) /\ at \in 0 .. Size - 1 /\ at \in Nat /\ s = [cells |-> cells, at |-> at]
      /\ at < Size
  BY ScreenIs
<1>2. Size \in Nat /\ Cols \in Nat \ {0} /\ Size >= Cols /\ Rows \in Nat
  BY SizeIs
<1>3. Put(s, NL) = ScrolledUp([s EXCEPT !.at = below])
  BY DEF Put, BS, NL
<1> HIDE DEF at, cells
<1>4. q \in Nat /\ q < Rows /\ below \in Nat /\ below <= Size
  <2>1. at \div Cols \in Nat
    BY <1>1, <1>2, DivMod
  <2>2. at \div Cols < Rows /\ (at \div Cols + 1) * Cols <= Rows * Cols
    BY <1>1, <1>2, RowInside DEF Size
  <2>3. (at \div Cols + 1) * Cols \in Nat
    BY <1>2, <2>1
  <2>4. QED
    BY <2>1, <2>2, <2>3 DEF Size
<1>5. below = q * Cols + Cols
  BY <1>2, <1>4
<1>6. [s EXCEPT !.at = below] = [cells |-> cells, at |-> below]
  BY <1>1
<1> HIDE DEF q, below
<1>7. PICK new \in Grids(V) :
        IF below < Size THEN Put(s, NL) = [cells |-> cells, at |-> below]
                        ELSE Put(s, NL) = [cells |-> new, at |-> below - Cols]
  <2>1. below \in 0 .. Size
    BY <1>4
  <2>2. QED
    BY <1>1, <1>3, <1>6, <2>1, ScrolledUpIs
<1>8. CASE below < Size
  <2>1. Put(s, NL) \in Screens(V) /\ Put(s, NL).at = below
    BY <1>1, <1>2, <1>4, <1>7, <1>8 DEF Screens
  <2>2. q + 1 \in Nat /\ below = (q + 1) * Cols
    BY <1>4 DEF below
  <2>3. q + 1 < Rows
    <3>1. CASE q + 1 >= Rows
      <4>1. (q + 1) * Cols >= Rows * Cols
        BY <1>2, <2>2, <3>1
      <4>2. QED
        BY <1>2, <1>8, <2>2, <4>1 DEF Size
    <3>2. QED
      BY <1>2, <2>2, <3>1
  <2>4. (q + 1) * Cols + Cols <= Size
    <3>1. (q + 1 + 1) * Cols <= Rows * Cols
      BY <1>2, <2>2, <2>3
    <3>2. (q + 1 + 1) * Cols = (q + 1) * Cols + Cols
      BY <1>2, <2>2
    <3>3. QED
      BY <3>1, <3>2 DEF Size
  <2>5. QED
    BY <2>1, <2>2, <2>4
<1>9. CASE ~(below < Size)
  <2>1. below = Size /\ below - Cols = q * Cols /\ q * Cols \in Nat
    BY <1>2, <1>4, <1>5, <1>9
  <2>2. Put(s, NL) = [cells |-> new, at |-> q * Cols]
    BY <1>7, <1>9, <2>1
  <2>3. q * Cols \in 0 .. Size - 1
    BY <1>2, <1>5, <2>1
  <2>4. Put(s, NL) \in Screens(V) /\ Put(s, NL).at = q * Cols
    BY <2>2, <2>3 DEF Screens
  <2>5. QED
    BY <1>4, <1>5, <2>1, <2>4
<1>10. QED
  BY <1>8, <1>9

\* Whatever is printed, the screen stays one.
LEMMA PutStays ==
  ASSUME NEW V, Blank \in V, NEW s \in Screens(V), NEW ch \in V
  PROVE  Put(s, ch) \in Screens(V)
BY PutChar, PutBack, PutLine

-----------------------------------------------------------------------------
(* A text on the console, and the prompt                                   *)

\* Induction up to n: a set that holds 0, and with every number before n its
\* successor, holds 0 .. n.
LEMMA UpTo ==
  ASSUME NEW n \in Nat, NEW G, 0 \in G,
         \A i \in 1 .. n : i - 1 \in G => i \in G
  PROVE  0 .. n \subseteq G
<1> DEFINE T == {i \in 0 .. n : i \notin G}
<1>1. SUFFICES ASSUME T # {} PROVE FALSE
  OBVIOUS
<1>2. PICK x \in T : \A y \in T : x <= y
  <2>1. T \subseteq Nat
    OBVIOUS
  <2> HIDE DEF T
  <2>2. QED
    BY <1>1, <2>1, LeastNat
<1>3. x \in 1 .. n /\ x - 1 \in 0 .. n
  BY <1>2
<1>4. x - 1 \in G
  BY <1>2, <1>3
<1>5. QED
  BY <1>3, <1>4

\* The recursion that prints a text has a solution: a screen after each character.
LEMMA PrintedIs ==
  ASSUME NEW V, Blank \in V, NEW s \in Screens(V), NEW text \in Seq(V)
  PROVE  \E f \in [0 .. Len(text) -> Screens(V)] :
            /\ f[0] = s /\ \A i \in 1 .. Len(text) : f[i] = Put(f[i - 1], text[i])
            /\ Printed(s, text) = f[Len(text)]
<1> DEFINE n == Len(text)
           Sol(f, k) == f[0] = s /\ \A i \in 1 .. k : f[i] = Put(f[i - 1], text[i])
           G == {k \in 0 .. n : \E f \in [0 .. k -> Screens(V)] : Sol(f, k)}
           E(f) == f = [i \in 0 .. n |-> IF i = 0 THEN s ELSE Put(f[i - 1], text[i])]
<1>1. n \in Nat /\ \A i \in 1 .. n : text[i] \in V
  OBVIOUS
<1>2. 0 \in G
  <2> DEFINE h == [i \in 0 .. 0 |-> s]
  <2>1. h \in [0 .. 0 -> Screens(V)] /\ h[0] = s /\ 0 \in 0 .. n
    BY <1>1
  <2>2. \A i \in 1 .. 0 : FALSE
    OBVIOUS
  <2> HIDE DEF h, n
  <2>3. Sol(h, 0)
    BY <2>1, <2>2
  <2>4. QED
    BY <2>1, <2>3
<1>3. ASSUME NEW k \in 1 .. n, k - 1 \in G PROVE k \in G
  <2>1. PICK f \in [0 .. k - 1 -> Screens(V)] : Sol(f, k - 1)
    BY <1>3
  <2> DEFINE h == [i \in 0 .. k |-> IF i = k THEN Put(f[k - 1], text[k]) ELSE f[i]]
  <2> HIDE DEF n
  <2>2. Put(f[k - 1], text[k]) \in Screens(V)
    <3>1. f[k - 1] \in Screens(V) /\ text[k] \in V
      BY <1>1
    <3>2. QED
      BY <3>1, PutStays
  <2>3. h \in [0 .. k -> Screens(V)]
    BY <1>1, <2>2
  <2>4. Sol(h, k)
    BY <1>1, <2>1
  <2>5. k \in 0 .. n
    BY <1>1
  <2> HIDE DEF h, Sol
  <2>6. QED
    BY <2>3, <2>4, <2>5
<1>4. PICK f \in [0 .. n -> Screens(V)] : Sol(f, n)
  <2> HIDE DEF G, n
  <2>1. 0 .. n \subseteq G
    BY <1>1, <1>2, <1>3, UpTo
  <2>2. n \in G
    BY <1>1, <2>1
  <2>3. QED
    BY <2>2 DEF G
<1>5. E(f)
  <2> HIDE DEF n
  <2>1. QED
    BY <1>1, <1>4
<1> DEFINE done == CHOOSE g : E(g)
<1>6. Printed(s, text) = done[n]
  BY DEF Printed
<1>7. E(done)
  <2> HIDE DEF E
  <2>1. QED
    BY <1>5
<1> HIDE DEF done
<1>8. Sol(done, n)
  <2> HIDE DEF n
  <2>1. \A i \in 1 .. n : i \in 0 .. n /\ i # 0
    BY <1>1
  <2>2. 0 \in 0 .. n
    BY <1>1
  <2>3. QED
    BY <1>7, <2>1, <2>2
<1>9. \A k \in 0 .. n : done[k] = f[k]
  <2> DEFINE Q == {k \in 0 .. n : done[k] = f[k]}
  <2> HIDE DEF n
  <2>1. 0 \in Q
    BY <1>1, <1>4, <1>8
  <2>2. \A i \in 1 .. n : i - 1 \in Q => i \in Q
    BY <1>1, <1>4, <1>8
  <2> HIDE DEF Q
  <2>3. 0 .. n \subseteq Q
    BY <1>1, <2>1, <2>2, UpTo
  <2>4. QED
    BY <2>3 DEF Q
<1>10. n \in 0 .. n
  BY <1>1
<1>11. Printed(s, text) = f[n]
  BY <1>6, <1>9, <1>10
<1> HIDE DEF n
<1>12. QED
  BY <1>4, <1>11 DEF n

\* A screen, whatever its characters are
ScreenOK(s) == \E V : Blank \in V /\ s \in Screens(V)

\* A screen may have more characters.
LEMMA WiderScreens ==
  ASSUME NEW V, NEW W, NEW s \in Screens(V) PROVE s \in Screens(V \cup W)
<1>1. s.cells \in Grids(V \cup W)
  BY DEF Screens, Grids
<1>2. QED
  BY <1>1, ScreenIs DEF Screens

\* clear_screen leaves a screen.
LEMMA ClearedIs == ScreenOK(Cleared)
<1>1. AllBlank \in Grids({Blank})
  BY DEF AllBlank, Grids
<1>2. 0 \in 0 .. Size - 1
  BY SizeIs
<1>3. QED
  BY <1>1, <1>2 DEF Cleared, Screens, ScreenOK

\* kprint leaves a screen.
LEMMA PrintedOK ==
  ASSUME NEW s, ScreenOK(s), NEW W, NEW text \in Seq(W)
  PROVE  ScreenOK(Printed(s, text))
<1>1. PICK V : Blank \in V /\ s \in Screens(V)
  BY DEF ScreenOK
<1> DEFINE U == V \cup W
<1>2. Blank \in U /\ s \in Screens(U) /\ text \in Seq(U)
  <2>1. s \in Screens(U)
    BY <1>1, WiderScreens
  <2>2. text \in Seq(U)
    OBVIOUS
  <2>3. QED
    BY <1>1, <2>1, <2>2
<1> HIDE DEF U
<1>3. Len(text) \in 0 .. Len(text)
  OBVIOUS
<1>4. Printed(s, text) \in Screens(U)
  BY <1>2, <1>3, PrintedIs
<1>5. QED
  BY <1>2, <1>4 DEF ScreenOK

\* A column and a row make an offset.
LEMMA RowStart ==
  ASSUME NEW C \in Nat \ {0}, NEW q \in Nat, NEW d \in 0 .. C - 1
  PROVE  (q * C + d) \div C = q
<1> DEFINE p == q * C + d
           e == p \div C
<1>1. p \in Nat
  <2>1. q * C \in Nat
    OBVIOUS
  <2>2. QED
    BY <2>1
<1>2. e \in Nat /\ p % C \in 0 .. C - 1 /\ p = C * e + (p % C)
  BY <1>1, DivMod
<1>3. C * e < q * C + C /\ q * C < C * e + C
  <2>1. q * C \in Nat /\ C * e \in Nat
    BY <1>2
  <2>2. PICK m \in 0 .. C - 1 : q * C + d = C * e + m
    BY <1>2
  <2>3. QED
    BY <2>1, <2>2
<1> HIDE DEF e
<1>4. e < q + 1
  <2>1. SUFFICES ASSUME e >= q + 1 PROVE FALSE
    BY <1>2
  <2>2. C * e >= C * (q + 1)
    BY <1>2, <2>1
  <2>3. C * (q + 1) = q * C + C
    OBVIOUS
  <2>4. QED
    BY <1>2, <1>3, <2>2, <2>3
<1>5. q < e + 1
  <2>1. SUFFICES ASSUME q >= e + 1 PROVE FALSE
    BY <1>2
  <2>2. C * q >= C * (e + 1)
    BY <1>2, <2>1
  <2>3. C * (e + 1) = C * e + C /\ C * q = q * C
    BY <1>2
  <2>4. QED
    BY <1>2, <1>3, <2>2, <2>3
<1>6. QED
  BY <1>2, <1>4, <1>5 DEF e

\* The prompt stands before the cursor.
LEMMA PromptedIs ==
  ASSUME NEW s, ScreenOK(s)
  PROVE  /\ ScreenOK(Prompted(s))
         /\ Prompted(s).at >= 1 /\ Cell(Prompted(s), Prompted(s).at - 1) = "$"
<1>1. PICK V : {Blank, NL, "$", Old} \subseteq V /\ s \in Screens(V)
  <2>1. PICK V : Blank \in V /\ s \in Screens(V)
    BY DEF ScreenOK
  <2>2. s \in Screens(V \cup {Blank, NL, "$", Old})
    BY <2>1, WiderScreens
  <2>3. QED
    BY <2>2
<1>2. Blank \in V /\ NL \in V /\ "$" \in V /\ Old \in V /\ "$" # NL /\ "$" # BS
  BY <1>1 DEF NL, BS
<1> DEFINE u == Put(s, NL)
           t == Put(u, "$")
<1>3. Cols \in Nat \ {0} /\ Cols > 1 /\ Size \in Nat
  BY SizeIs
<1>4. PICK q \in Nat : u \in Screens(V) /\ u.at = q * Cols /\ q * Cols + Cols <= Size
  BY <1>1, <1>2, PutLine
<1> HIDE DEF u
<1>5. q * Cols \in Nat /\ q * Cols + 1 < Size /\ q * Cols \in 0 .. Size - 1
  <2>1. q * Cols \in Nat
    BY <1>3
  <2>2. QED
    BY <1>3, <1>4, <2>1
<1>6. t \in Screens(V) /\ t.at = q * Cols + 1 /\ Cell(t, q * Cols) = "$"
  BY <1>2, <1>4, <1>5, PutChar
<1>7. Printed(s, Prompt) = t
  <2> DEFINE prompt == Prompt
  <2>1. prompt \in Seq(V) /\ Len(prompt) = 2 /\ prompt[1] = NL /\ prompt[2] = "$"
    BY <1>2 DEF Prompt
  <2> HIDE DEF prompt
  <2>2. PICK f : /\ f[0] = s /\ \A i \in 1 .. Len(prompt) : f[i] = Put(f[i - 1], prompt[i])
                 /\ Printed(s, prompt) = f[Len(prompt)]
    BY <1>1, <1>2, <2>1, PrintedIs
  <2>3. f[1] = u
    <3>1. f[1] = Put(f[1 - 1], prompt[1])
      BY <2>1, <2>2
    <3>2. QED
      BY <2>1, <2>2, <3>1 DEF u
  <2>4. f[2] = t
    <3>1. f[2] = Put(f[2 - 1], prompt[2])
      BY <2>1, <2>2
    <3>2. QED
      BY <2>1, <2>3, <3>1
  <2>5. QED
    BY <2>1, <2>2, <2>4 DEF prompt
<1> HIDE DEF t
<1> DEFINE new == [r \in 0 .. Rows - 1 |->
                     IF r < t.at \div Cols THEN [c \in 0 .. Cols - 1 |-> Old] ELSE t.cells[r]]
<1>8. t.cells \in Grids(V) /\ t = [cells |-> t.cells, at |-> t.at]
  BY <1>6, ScreenIs
<1>9. Prompted(s) = [cells |-> new, at |-> t.at]
  <2>1. Prompted(s) = [t EXCEPT !.cells = new]
    BY <1>7 DEF Prompted
  <2> HIDE DEF new
  <2>2. QED
    BY <1>8, <2>1
<1>10. new \in Grids(V)
  BY <1>2, <1>8 DEF Grids
<1>11. Prompted(s) \in Screens(V) /\ Prompted(s).at = q * Cols + 1 /\ Prompted(s).cells = new
  <2> HIDE DEF new
  <2>1. t.at \in 0 .. Size - 1
    BY <1>6, ScreenIs
  <2>2. QED
    BY <1>6, <1>9, <1>10, <2>1 DEF Screens
<1>12. new[(q * Cols) \div Cols] = t.cells[(q * Cols) \div Cols]
  <2>1. (q * Cols) \div Cols \in 0 .. Rows - 1
    BY <1>5, Place
  <2>2. (q * Cols + 0) \div Cols = q /\ (q * Cols + 1) \div Cols = q
    BY <1>3, RowStart
  <2>3. q * Cols + 0 = q * Cols
    BY <1>5
  <2>4. t.at \div Cols = (q * Cols) \div Cols
    BY <1>6, <2>2, <2>3
  <2>5. ~((q * Cols) \div Cols < t.at \div Cols)
    BY <2>1, <2>4
  <2>6. QED
    BY <2>1, <2>5
<1>13. Cell(Prompted(s), q * Cols) = "$"
  BY <1>6, <1>11, <1>12 DEF Cell
<1>14. Prompted(s).at - 1 = q * Cols /\ Prompted(s).at >= 1
  BY <1>5, <1>11
<1>15. QED
  BY <1>2, <1>11, <1>13, <1>14 DEF ScreenOK

-----------------------------------------------------------------------------
(* The line that is edited                                                 *)

\* A cell shows a character, unless the tasks may have written into it.
Shows(s, p, ch) == p \in PokeCols \/ Cell(s, p) = ch

\* A line and the prompt stand before the cursor.
LineOn(s, line) ==
  /\ s.at > Len(line)
  /\ Shows(s, s.at - Len(line) - 1, "$")
  /\ \A j \in 1 .. Len(line) : Shows(s, s.at - Len(line) - 1 + j, line[j])

\* After a text and a prompt the line is empty.
LEMMA FreshLine ==
  ASSUME NEW s, ScreenOK(s), NEW W, NEW text \in Seq(W)
  PROVE  /\ ScreenOK(Prompted(Printed(s, text)))
         /\ LineOn(Prompted(Printed(s, text)), <<>>)
<1>1. PICK t : t = Printed(s, text)
  OBVIOUS
<1>2. ScreenOK(t)
  BY <1>1, PrintedOK
<1>3. PICK u : u = Prompted(t)
  OBVIOUS
<1>4. ScreenOK(u) /\ u.at >= 1 /\ Cell(u, u.at - 1) = "$"
  BY <1>2, <1>3, PromptedIs
<1>5. u.at \in Nat
  BY <1>4, ScreenIs DEF ScreenOK
<1>6. Len(<<>>) = 0 /\ \A j \in 1 .. 0 : FALSE
  OBVIOUS
<1>7. LineOn(u, <<>>)
  <2>1. u.at - 0 - 1 = u.at - 1 /\ u.at > 0
    BY <1>4, <1>5
  <2> DEFINE none == <<>>
  <2>2. Len(none) = 0
    BY <1>6
  <2> HIDE DEF none
  <2>3. LineOn(u, none)
    BY <1>4, <1>6, <2>1, <2>2 DEF LineOn, Shows
  <2>4. QED
    BY <2>3 DEF none
<1>8. QED
  BY <1>1, <1>3, <1>4, <1>7

\* A character is typed.
LEMMA TypeOn ==
  ASSUME NEW s, ScreenOK(s), NEW W, NEW line \in Seq(W), LineOn(s, line),
         Len(line) < BufferSize, NEW ch \in W, ch # NL, ch # BS
  PROVE  ScreenOK(Put(s, ch)) /\ LineOn(Put(s, ch), Append(line, ch))
<1>1. PICK V : Blank \in V /\ ch \in V /\ s \in Screens(V)
  <2>1. PICK V : Blank \in V /\ s \in Screens(V)
    BY DEF ScreenOK
  <2>2. s \in Screens(V \cup {ch})
    BY <2>1, WiderScreens
  <2>3. QED
    BY <2>1, <2>2
<1> DEFINE n == Len(line)
           at == s.at
           more == Append(line, ch)
<1>2. n \in Nat /\ Len(more) = n + 1 /\ more[n + 1] = ch /\ \A j \in 1 .. n : more[j] = line[j]
  OBVIOUS
<1>3. at \in 0 .. Size - 1 /\ at \in Nat /\ at > n
  BY <1>1, ScreenIs DEF LineOn
<1>4. /\ Size \in Nat /\ Cols \in Nat /\ Cols > 1 /\ Size >= Cols /\ BufferSize \in Nat
      /\ Size > BufferSize + Cols + 1
  BY SizeIs
<1>5. /\ Shows(s, at - n - 1, "$")
      /\ \A j \in 1 .. n : Shows(s, at - n - 1 + j, line[j])
  BY DEF LineOn
<1>6. PICK t : t = Put(s, ch)
  OBVIOUS
<1>7. /\ t \in Screens(V)
      /\ at + 1 < Size =>
           /\ t.at = at + 1
           /\ \A i \in 0 .. Size - 1 : Cell(t, i) = IF i = at THEN ch ELSE Cell(s, i)
      /\ at + 1 >= Size =>
           /\ t.at = Size - Cols
           /\ \A i \in 0 .. Size - Cols - 1 :
                Cell(t, i) = IF i + Cols = at THEN ch ELSE Cell(s, i + Cols)
  BY <1>1, <1>6, PutChar
<1>8. PokeCols \subseteq 0 .. Cols - 1
  BY ShellAssumption
<1> HIDE DEF n, at, more
<1>9. CASE at + 1 < Size
  <2>1. t.at = at + 1 /\ t.at > n + 1 /\ t.at - (n + 1) - 1 = at - n - 1
    BY <1>2, <1>3, <1>7, <1>9
  <2>2. Shows(t, at - n - 1, "$")
    <3>1. at - n - 1 \in 0 .. Size - 1 /\ at - n - 1 # at
      BY <1>2, <1>3, <1>4
    <3>2. QED
      BY <1>5, <1>7, <1>9, <3>1 DEF Shows
  <2>3. ASSUME NEW j \in 1 .. n + 1 PROVE Shows(t, at - n - 1 + j, more[j])
    <3>1. CASE j = n + 1
      <4>1. at - n - 1 + j = at /\ at \in 0 .. Size - 1
        BY <1>2, <1>3, <3>1
      <4>2. QED
        BY <1>2, <1>7, <1>9, <3>1, <4>1 DEF Shows
    <3>2. CASE j # n + 1
      <4>1. j \in 1 .. n /\ at - n - 1 + j \in 0 .. Size - 1 /\ at - n - 1 + j # at
        BY <1>2, <1>3, <1>4, <3>2
      <4>2. QED
        BY <1>2, <1>5, <1>7, <1>9, <4>1 DEF Shows
    <3>3. QED
      BY <3>1, <3>2
  <2>4. QED
    BY <1>1, <1>2, <1>6, <1>7, <2>1, <2>2, <2>3 DEF LineOn, ScreenOK, more
<1>10. CASE at + 1 >= Size
  <2> DEFINE start == Size - Cols - n - 2
  <2>1. at = Size - 1 /\ n + 1 <= BufferSize
    BY <1>2, <1>3, <1>4, <1>10 DEF n
  <2>2. /\ t.at = Size - Cols /\ t.at > n + 1 /\ t.at - (n + 1) - 1 = start
        /\ start >= 0 /\ start \in Int /\ start + Cols = at - n - 1
      <3>1. t.at = Size - Cols
      BY <1>7, <1>10
    <3>2. PICK z, y, x : z = Size /\ y = Cols /\ x = at
      OBVIOUS
    <3>3. /\ z - y > n + 1 /\ (z - y) - (n + 1) - 1 = z - y - n - 2
          /\ z - y - n - 2 >= 0 /\ z - y - n - 2 \in Int
          /\ (z - y - n - 2) + y = x - n - 1
      BY <1>2, <1>4, <2>1, <3>2
    <3>4. QED
      BY <3>1, <3>2, <3>3
  <2> HIDE DEF start
  <2>3. Shows(t, start, "$")
    <3>1. start \in 0 .. Size - Cols - 1 /\ start + Cols # at /\ start + Cols \notin PokeCols
      <4>1. start + n + 2 = Size - Cols
        BY <1>2, <1>4 DEF start
      <4>2. start \in 0 .. Size - Cols - 1
        BY <1>2, <1>4, <2>2, <4>1
      <4>3. start + Cols # at
        BY <1>2, <1>3, <2>2
      <4>4. start + Cols \notin PokeCols
        BY <1>4, <1>8, <4>2
      <4>5. QED
        BY <4>2, <4>3, <4>4
    <3>2. QED
      BY <1>5, <1>7, <1>10, <2>2, <3>1 DEF Shows
  <2>4. ASSUME NEW j \in 1 .. n + 1 PROVE Shows(t, start + j, more[j])
    <3>1. /\ start + j \in 0 .. Size - Cols - 1 /\ start + j + Cols \notin PokeCols
          /\ start + j + Cols = at - n - 1 + j
      <4>1. start + n + 2 = Size - Cols
        BY <1>2, <1>4 DEF start
      <4>2. start + j + Cols = at - n - 1 + j
        BY <1>2, <1>3, <1>4, <2>2
      <4>3. start + j \in 0 .. Size - Cols - 1
        BY <1>2, <1>4, <2>2, <4>1
      <4>4. QED
        BY <1>4, <1>8, <4>2, <4>3
    <3>2. CASE j = n + 1
      <4>1. start + j + Cols = at
        BY <1>2, <1>3, <3>1, <3>2
      <4>2. QED
        BY <1>2, <1>7, <1>10, <3>1, <3>2, <4>1 DEF Shows
    <3>3. CASE j # n + 1
      <4>1. j \in 1 .. n /\ start + j + Cols # at
        BY <1>2, <1>3, <3>1, <3>3
      <4>2. Cell(t, start + j) = Cell(s, at - n - 1 + j)
        BY <1>7, <1>10, <3>1, <4>1
      <4>3. Cell(s, at - n - 1 + j) = line[j]
        BY <1>5, <3>1, <4>1 DEF Shows
      <4>4. QED
        BY <1>2, <4>1, <4>2, <4>3 DEF Shows
    <3>4. QED
      BY <3>2, <3>3
  <2>5. QED
    BY <1>1, <1>2, <1>6, <1>7, <2>2, <2>3, <2>4 DEF LineOn, ScreenOK, more
<1>11. QED
  BY <1>3, <1>4, <1>9, <1>10

\* The last character is taken back.
LEMMA BackOn ==
  ASSUME NEW s, ScreenOK(s), NEW W, NEW line \in Seq(W), LineOn(s, line), line # <<>>
  PROVE  ScreenOK(Put(s, BS)) /\ LineOn(Put(s, BS), SubSeq(line, 1, Len(line) - 1))
<1>1. PICK V : Blank \in V /\ s \in Screens(V)
  BY DEF ScreenOK
<1> DEFINE n == Len(line)
           at == s.at
           less == SubSeq(line, 1, n - 1)
<1>2. n \in Nat /\ n >= 1 /\ Len(less) = n - 1 /\ \A j \in 1 .. n - 1 : less[j] = line[j]
  <2>1. n \in Nat /\ n >= 1
    OBVIOUS
  <2>2. PICK m \in Nat : m = n - 1
    BY <2>1
  <2>3. Len(SubSeq(line, 1, m)) = m /\ \A j \in 1 .. m : SubSeq(line, 1, m)[j] = line[j]
    BY <2>1, <2>2
  <2>4. QED
    BY <2>1, <2>2, <2>3
<1>3. at \in 0 .. Size - 1 /\ at \in Nat /\ at > n
  BY <1>1, ScreenIs DEF LineOn
<1>4. Size \in Nat
  BY SizeIs
<1>5. /\ Shows(s, at - n - 1, "$")
      /\ \A j \in 1 .. n : Shows(s, at - n - 1 + j, line[j])
  BY DEF LineOn
<1>6. PICK t : t = Put(s, BS)
  OBVIOUS
<1>7. /\ t \in Screens(V) /\ t.at = at - 1
      /\ \A i \in 0 .. Size - 1 : i # at - 1 => Cell(t, i) = Cell(s, i)
  BY <1>1, <1>2, <1>3, <1>6, PutBack
<1> HIDE DEF n, at, less
<1>8. t.at > n - 1 /\ t.at - (n - 1) - 1 = at - n - 1
  BY <1>2, <1>3, <1>7
<1>9. Shows(t, at - n - 1, "$")
  <2>1. at - n - 1 \in 0 .. Size - 1 /\ at - n - 1 # at - 1
    BY <1>2, <1>3, <1>4
  <2>2. QED
    BY <1>5, <1>7, <2>1 DEF Shows
<1>10. ASSUME NEW j \in 1 .. n - 1 PROVE Shows(t, at - n - 1 + j, less[j])
  <2>1. j \in 1 .. n /\ at - n - 1 + j \in 0 .. Size - 1 /\ at - n - 1 + j # at - 1
    BY <1>2, <1>3, <1>4
  <2>2. QED
    BY <1>2, <1>5, <1>7, <2>1 DEF Shows
<1>11. LineOn(t, less)
  BY <1>2, <1>8, <1>9, <1>10 DEF LineOn
<1>12. QED
  BY <1>1, <1>6, <1>7, <1>11 DEF ScreenOK, less, n

\* A task writes into the first row.
LEMMA PokeOn ==
  ASSUME NEW s, ScreenOK(s), NEW c \in PokeCols, NEW mark
  PROVE  /\ ScreenOK([s EXCEPT !.cells[0][c] = mark])
         /\ \A line : Len(line) \in Nat /\ LineOn(s, line)
              => LineOn([s EXCEPT !.cells[0][c] = mark], line)
<1>1. PICK V : Blank \in V /\ mark \in V /\ s \in Screens(V)
  <2>1. PICK V : Blank \in V /\ s \in Screens(V)
    BY DEF ScreenOK
  <2>2. s \in Screens(V \cup {mark})
    BY <2>1, WiderScreens
  <2>3. QED
    BY <2>1, <2>2
<1>2. Cols \in Nat \ {0} /\ Size \in Nat /\ Size >= Cols
  BY SizeIs
<1>3. c \in 0 .. Cols - 1 /\ c \in Nat /\ c \in 0 .. Size - 1
  BY <1>2, ShellAssumption
<1>4. c \div Cols = 0 /\ c % Cols = c
  <2>1. (0 * Cols + c) \div Cols = 0
    BY <1>2, <1>3, RowStart
  <2>2. 0 * Cols + c = c
    BY <1>2, <1>3
  <2>3. c \div Cols = 0
    BY <2>1, <2>2
  <2>4. c = Cols * (c \div Cols) + (c % Cols) /\ c % Cols \in Nat
    BY <1>2, <1>3, DivMod
  <2>5. Cols * 0 = 0
    BY <1>2
  <2>6. QED
    BY <1>3, <2>3, <2>4, <2>5
<1>5. [s EXCEPT !.cells[0][c] = mark] = WithCell(s, c, mark)
  BY <1>4 DEF WithCell
<1> DEFINE cells == s.cells
           at == s.at
<1>6. cells \in Grids(V) /\ at \in 0 .. Size - 1 /\ s = [cells |-> cells, at |-> at]
  BY <1>1, ScreenIs
<1> HIDE DEF cells, at
<1>7. PICK new \in Grids(V) :
        /\ WithCell(s, c, mark) = [cells |-> new, at |-> at]
        /\ \A j \in 0 .. Size - 1 :
             new[j \div Cols][j % Cols] = IF j = c THEN mark ELSE cells[j \div Cols][j % Cols]
  BY <1>1, <1>3, <1>6, WithCellIs
<1>8. PICK t : t = WithCell(s, c, mark)
  OBVIOUS
<1>9. t \in Screens(V) /\ t.at = at /\ t.cells = new
  BY <1>6, <1>7, <1>8 DEF Screens
<1>10. \A p \in 0 .. Size - 1 : \A ch : Shows(s, p, ch) => Shows(t, p, ch)
  BY <1>7, <1>9 DEF Shows, Cell, cells
<1>11. ASSUME NEW line, LineOn(s, line), Len(line) \in Nat PROVE LineOn(t, line)
  <2> DEFINE n == Len(line)
  <2>1. n \in Nat /\ at > n /\ at - n - 1 \in 0 .. Size - 1
        /\ \A j \in 1 .. n : at - n - 1 + j \in 0 .. Size - 1
    BY <1>2, <1>6, <1>11 DEF LineOn, at
  <2>2. QED
    BY <1>9, <1>10, <1>11, <2>1 DEF LineOn, at
<1>12. QED
  BY <1>1, <1>5, <1>8, <1>9, <1>11 DEF ScreenOK

-----------------------------------------------------------------------------
(* The calculator: its parser has a value for every text                   *)

\* The characters that stand for themselves: SMT knows that strings differ, and
\* what is in a set that is listed.
LEMMA MarksDiffer ==
  /\ "end" \notin Digits /\ " " \notin Digits /\ "end" # " "
  /\ {"(", ")", "+", "-", "*", "/"} \cap (Digits \cup {" ", "end"}) = {}
  /\ \A i \in 1 .. 10 : Numerals[i] \in Digits
<1>1. /\ Numerals[1] = "0" /\ Numerals[2] = "1" /\ Numerals[3] = "2" /\ Numerals[4] = "3"
      /\ Numerals[5] = "4" /\ Numerals[6] = "5" /\ Numerals[7] = "6" /\ Numerals[8] = "7"
      /\ Numerals[9] = "8" /\ Numerals[10] = "9"
  BY DEF Numerals
<1>2. \A i \in 1 .. 10 : i = 1 \/ i = 2 \/ i = 3 \/ i = 4 \/ i = 5
                         \/ i = 6 \/ i = 7 \/ i = 8 \/ i = 9 \/ i = 10
  OBVIOUS
<1>3. Digits = {"0", "1", "2", "3", "4", "5", "6", "7", "8", "9"}
  BY <1>1, <1>2 DEF Digits
<1>4. \A i \in 1 .. 10 : Numerals[i] \in Digits
  BY DEF Digits
<1>5. QED
  BY <1>3, <1>4

\* A scan stops inside the text or right behind it.
LEMMA PastIs ==
  ASSUME NEW W, NEW s \in Seq(W), NEW p \in 1 .. Len(s) + 1, NEW chars, "end" \notin chars
  PROVE  /\ Past(s, p, chars) \in p .. Len(s) + 1
         /\ At(s, Past(s, p, chars)) \notin chars
         /\ \A i \in p .. Past(s, p, chars) - 1 : s[i] \in chars
<1> DEFINE stops == {q \in p .. Len(s) + 1 : At(s, q) \notin chars}
           P(q) == At(s, q) \notin chars /\ \A i \in p .. q - 1 : s[i] \in chars
<1>0. Len(s) \in Nat
  OBVIOUS
<1>1. Len(s) + 1 \in stops /\ stops \subseteq Nat
  BY <1>0 DEF At
<1>2. \A q \in stops : q \in p .. Len(s) + 1 /\ At(s, q) \notin chars
  OBVIOUS
<1>3. \A q \in p .. Len(s) + 1 : q \notin stops => At(s, q) \in chars
  OBVIOUS
<1> HIDE DEF stops
<1>4. PICK q \in stops : \A r \in stops : q <= r
  BY <1>1, LeastNat
<1>5. \A i \in p .. q - 1 : s[i] \in chars
  <2>1. ASSUME NEW i \in p .. q - 1 PROVE s[i] \in chars
    <3>1. i \in p .. Len(s) + 1 /\ i < q /\ i \in Nat /\ q \in Nat /\ i <= Len(s)
      BY <1>0, <1>2
    <3>2. i \notin stops
      BY <1>4, <3>1
    <3>3. QED
      BY <1>3, <3>1, <3>2 DEF At
  <2>2. QED
    BY <2>1
<1>6. \E r \in p .. Len(s) + 1 : P(r)
  BY <1>2, <1>5
<1>7. Past(s, p, chars) = CHOOSE r \in p .. Len(s) + 1 : P(r)
  BY DEF Past
<1>8. QED
  BY <1>6, <1>7

\* ... and there is no other place where it could.
LEMMA PastAt ==
  ASSUME NEW W, NEW s \in Seq(W), NEW p \in 1 .. Len(s) + 1, NEW chars, "end" \notin chars,
         NEW q \in p .. Len(s) + 1, At(s, q) \notin chars, \A i \in p .. q - 1 : s[i] \in chars
  PROVE  Past(s, p, chars) = q
<1> DEFINE r == Past(s, p, chars)
<1>1. /\ r \in p .. Len(s) + 1 /\ At(s, r) \notin chars
      /\ \A i \in p .. r - 1 : s[i] \in chars
  BY PastIs
<1> HIDE DEF r
<1>2. ASSUME r < q PROVE FALSE
  BY <1>1, <1>2 DEF At
<1>3. ASSUME q < r PROVE FALSE
  BY <1>1, <1>3 DEF At
<1>4. q \in Int /\ r \in Int
  BY <1>1
<1>5. QED
  BY <1>2, <1>3, <1>4 DEF r

\* Zenon writes numbers out: where it may be asked, the bound of IntHalf is left away.
LEMMA HalfIs == IntHalf \in Nat /\ IntHalf >= 10
BY CalcAssumption, SMT

\* Int32 gives an int.
LEMMA IntIs ==
  ASSUME NEW n \in Int
  PROVE  Int32(n) \in Int /\ Int32(n) \in -IntHalf .. IntHalf - 1
<1> DEFINE H == IntHalf
           m == (n + H) % (2 * H)
<1>1. H \in Nat /\ H > 0
  BY HalfIs
<1>2. Int32(n) = m - H
  BY DEF Int32
<1> HIDE DEF H
<1>3. m \in 0 .. 2 * H - 1
  BY <1>1
<1> HIDE DEF m
<1>4. QED
  BY <1>1, <1>2, <1>3 DEF H

\* The values of digits
LEMMA ValueIs ==
  ASSUME NEW d \in Digits PROVE Value(d) \in 0 .. 9
<1>1. \E i \in 1 .. 10 : Numerals[i] = d
  BY DEF Digits
<1>2. (CHOOSE i \in 1 .. 10 : Numerals[i] = d) \in 1 .. 10
  BY <1>1
<1>3. QED
  BY <1>2 DEF Value

\* A function whose value at i follows from its values before i exists.
Follows(S, m, n, g) ==
  \A i \in m .. n : \A f, h \in [m .. n -> S] :
    (\A j \in m .. i - 1 : f[j] = h[j]) => g[i][f] = g[i][h]

\* The function g[i][f] is the value at i that follows from those of f.
Defines(S, m, n, g) == \E f \in [m .. n -> S] : \A i \in m .. n : f[i] = g[i][f]

\* By the first place from which the values before do not give one.
LEMMA Defined ==
  ASSUME NEW S, S # {}, NEW m \in Nat, NEW n \in Nat, m <= n + 1,
         NEW g \in [m .. n -> [[m .. n -> S] -> S]], Follows(S, m, n, g)
  PROVE  Defines(S, m, n, g)
<1> DEFINE Upto(k) == \E f \in [m .. n -> S] : \A i \in m .. m + k - 1 : f[i] = g[i][f]
           length == n + 1 - m
           G == {k \in 0 .. length : Upto(k)}
<1>1. length \in Nat
  OBVIOUS
<1>2. 0 \in G
  <2>1. PICK x \in S : TRUE
    OBVIOUS
  <2> DEFINE f == [i \in m .. n |-> x]
  <2>2. f \in [m .. n -> S] /\ \A i \in m .. m + 0 - 1 : f[i] = g[i][f]
    OBVIOUS
  <2>3. QED
    BY <1>1, <2>2
<1>3. ASSUME NEW k \in 1 .. length, k - 1 \in G PROVE k \in G
  <2>1. PICK f \in [m .. n -> S] : \A i \in m .. m + (k - 1) - 1 : f[i] = g[i][f]
    BY <1>3
  <2> DEFINE new == m + k - 1
             h == [f EXCEPT ![new] = g[new][f]]
  <2>2. new \in m .. n /\ new - 1 = m + (k - 1) - 1
    BY <1>1
  <2>3. g[new] \in [[m .. n -> S] -> S]
    BY <2>2
  <2>4. g[new][f] \in S
    BY <2>3
  <2> HIDE DEF new
  <2>5. h \in [m .. n -> S] /\ h[new] = g[new][f] /\ \A j \in m .. n : j # new => h[j] = f[j]
    BY <2>2, <2>4
  <2> HIDE DEF h
  <2>6. ASSUME NEW i \in m .. new PROVE h[i] = g[i][h]
    <3>1. i \in m .. n /\ \A j \in m .. i - 1 : j \in m .. n /\ j # new
      BY <2>2
    <3>2. \A j \in m .. i - 1 : f[j] = h[j]
      BY <2>5, <3>1
    <3>3. g[i][f] = g[i][h]
      BY <2>5, <3>1, <3>2 DEF Follows
    <3>4. CASE i = new
      BY <2>5, <3>3, <3>4
    <3>5. CASE i # new
      <4>1. i \in m .. m + (k - 1) - 1 /\ h[i] = f[i]
        BY <2>2, <2>5, <3>1, <3>5
      <4>2. QED
        BY <2>1, <3>3, <4>1
    <3>6. QED
      BY <3>4, <3>5
  <2>7. Upto(k)
    BY <2>5, <2>6 DEF new
  <2>8. QED
    BY <1>1, <2>7
<1>4. length \in G
  <2> HIDE DEF G, length
  <2>1. 0 .. length \subseteq G
    BY <1>1, <1>2, <1>3, UpTo
  <2>2. QED
    BY <1>1, <2>1
<1>5. PICK f \in [m .. n -> S] : \A i \in m .. m + length - 1 : f[i] = g[i][f]
  BY <1>4
<1>6. m + length - 1 = n
  OBVIOUS
<1>7. QED
  BY <1>5, <1>6 DEF Defines

\* ... and its values are of a kind if each is that follows values of this kind.
LEMMA Inside ==
  ASSUME NEW S, NEW m \in Nat, NEW n \in Nat, NEW f, f = [i \in m .. n |-> f[i]],
         \A i \in m .. n : (\A j \in m .. i - 1 : f[j] \in S) => f[i] \in S
  PROVE  f \in [m .. n -> S]
<1> DEFINE bad == {i \in m .. n : f[i] \notin S}
<1>1. \A i \in bad : i \in Nat /\ i \in m .. n /\ f[i] \notin S
  OBVIOUS
<1>2. bad = {}
  <2>1. SUFFICES ASSUME bad # {} PROVE FALSE
    OBVIOUS
  <2>2. bad \subseteq Nat
    BY <1>1
  <2>3. PICK i \in bad : \A j \in bad : i <= j
    <3> HIDE DEF bad
    <3>1. QED
      BY <2>1, <2>2, LeastNat
  <2>4. \A j \in m .. i - 1 : j \in m .. n /\ j \notin bad
    BY <1>1, <2>3
  <2>5. \A j \in m .. i - 1 : f[j] \in S
    BY <2>4
  <2>6. QED
    BY <1>1, <2>5
<1>3. \A i \in m .. n : f[i] \in S
  BY <1>2
<1>4. [i \in m .. n |-> f[i]] \in [m .. n -> S]
  BY <1>3
<1>5. QED
  BY <1>4

\* What Number computes digit by digit
IsNumber(s, p, q) ==
  \E f \in [p - 1 .. q - 1 -> Int] :
    /\ f[p - 1] = 0
    /\ \A i \in p .. q - 1 : f[i] = Int32(f[i - 1] * 10 + Value(s[i]))
    /\ Number(s, p) = Result(f[q - 1], q, FALSE)

\* cl_prim reads the digits of a number one by one, as an int.
LEMMA NumberIs ==
  ASSUME NEW W, NEW s \in Seq(W), NEW p \in 1 .. Len(s) + 1, NEW q, q = Past(s, p, Digits)
  PROVE  IsNumber(s, p, q)
<1> DEFINE m == p - 1
           n == q - 1
           E(v) == v = [i \in m .. n |-> IF i < p THEN 0 ELSE Int32(v[i - 1] * 10 + Value(s[i]))]
           g == [i \in m .. n |-> [v \in [m .. n -> Int] |->
                  IF i < p THEN 0 ELSE Int32(v[i - 1] * 10 + Value(s[i]))]]
<1>1. q \in p .. Len(s) + 1 /\ \A i \in p .. q - 1 : s[i] \in Digits
  BY PastIs, MarksDiffer
<1>2. m \in Nat /\ n \in Nat /\ m <= n + 1 /\ m <= n /\ m + 1 = p
  BY <1>1
<1>3. ASSUME NEW i \in m .. n, NEW v \in [m .. n -> Int]
      PROVE  (IF i < p THEN 0 ELSE Int32(v[i - 1] * 10 + Value(s[i]))) \in Int
  <2>1. CASE i < p
    BY <2>1
  <2>2. CASE ~(i < p)
    <3>1. i - 1 \in m .. n /\ i \in p .. q - 1
      BY <1>2, <2>2
    <3>2. v[i - 1] \in Int /\ Value(s[i]) \in Int
      <4>1. s[i] \in Digits
        BY <1>1, <3>1
      <4>2. Value(s[i]) \in 0 .. 9
        BY <4>1, ValueIs
      <4>3. QED
        BY <3>1, <4>2
    <3>3. v[i - 1] * 10 + Value(s[i]) \in Int
      BY <3>2
    <3>4. QED
      BY <2>2, <3>3, IntIs
  <2>3. QED
    BY <2>1, <2>2
<1>4. g \in [m .. n -> [[m .. n -> Int] -> Int]]
  BY <1>3
<1>5. Follows(Int, m, n, g)
  <2>1. ASSUME NEW i \in m .. n, NEW v \in [m .. n -> Int], NEW w \in [m .. n -> Int],
               \A j \in m .. i - 1 : v[j] = w[j]
        PROVE  g[i][v] = g[i][w]
    <3>1. i < p \/ v[i - 1] = w[i - 1]
      BY <1>2, <2>1
    <3>2. QED
      BY <3>1
  <2>2. QED
    BY <2>1 DEF Follows
<1> HIDE DEF m, n
<1>6. \E v \in [m .. n -> Int] : \A i \in m .. n : v[i] = g[i][v]
  <2> HIDE DEF g
  <2>1. \E z : z \in Int
    BY <1>2
  <2>2. Defines(Int, m, n, g)
    BY <1>2, <1>4, <1>5, <2>1, Defined
  <2>3. QED
    BY <2>2 DEF Defines
<1>7. PICK v \in [m .. n -> Int] : \A i \in m .. n : v[i] = g[i][v]
  BY <1>6
<1>8. \A i \in m .. n : v[i] = IF i < p THEN 0 ELSE Int32(v[i - 1] * 10 + Value(s[i]))
  BY <1>7
<1>9. E(v)
  BY <1>8
<1> DEFINE f == CHOOSE u : E(u)
<1>10. E(f)
  BY <1>9
<1>11. Number(s, p) = Result(f[n], q, FALSE)
  BY DEF Number, m, n
<1> HIDE DEF f
<1>12. \A i \in m .. n : f[i] = IF i < p THEN 0 ELSE Int32(f[i - 1] * 10 + Value(s[i]))
  BY <1>10
<1>13. DOMAIN f = m .. n
  BY <1>10
<1>14. f = [i \in m .. n |-> f[i]]
  BY <1>10
<1>15. f[m] = 0
  BY <1>2, <1>12
<1>16. f \in [m .. n -> Int]
  <2>1. ASSUME NEW i \in m .. n, \A j \in m .. i - 1 : f[j] \in Int PROVE f[i] \in Int
    <3>1. CASE i < p
      BY <1>12, <3>1
    <3>2. CASE ~(i < p)
      <4>1. i \in p .. q - 1 /\ i - 1 \in m .. i - 1
        BY <1>2, <3>2 DEF m, n
      <4>2. s[i] \in Digits /\ f[i - 1] \in Int
        BY <1>1, <2>1, <4>1
      <4>3. Value(s[i]) \in 0 .. 9
        BY <4>2, ValueIs
      <4>4. f[i - 1] * 10 + Value(s[i]) \in Int
        <5>1. PICK x \in Int, y \in 0 .. 9 : x = f[i - 1] /\ y = Value(s[i])
          BY <4>2, <4>3, Zenon
        <5>2. x * 10 + y \in Int
          OBVIOUS
        <5>3. QED
          BY <5>1, <5>2, Zenon
      <4>5. f[i] = Int32(f[i - 1] * 10 + Value(s[i]))
        BY <1>12, <3>2
      <4>6. QED
        BY <4>4, <4>5, IntIs
    <3>3. QED
      BY <3>1, <3>2
  <2>2. QED
    BY <1>2, <1>14, <2>1, Inside
<1>17. \A i \in p .. q - 1 : i \in m .. n /\ ~(i < p)
  BY <1>2 DEF m, n
<1>18. \A i \in p .. q - 1 : f[i] = Int32(f[i - 1] * 10 + Value(s[i]))
  BY <1>12, <1>17
<1>19. QED
  BY <1>11, <1>15, <1>16, <1>18 DEF m, n, IsNumber

\* The calls of the parser for a text, and all functions from calls to results
Calls(s) == Rules \X Parsed(s)
Parsers(s) == [Calls(s) -> Parsed(s)]

\* What a rule returns for a text and a place in it
LEMMA ResultIs ==
  ASSUME NEW s, NEW v \in Int, NEW p \in 1 .. Len(s) + 1, NEW trap \in BOOLEAN
  PROVE  Result(v, p, trap) \in Parsed(s) /\ Result(v, p, trap).p = p
<1>1. Int32(v) \in Int
  BY IntIs
<1>2. QED
  BY <1>1 DEF Result, Parsed

\* A call begins with nothing on its left.
LEMMA FromIs ==
  ASSUME NEW s, NEW p \in 1 .. Len(s) + 1 PROVE From(p) \in Parsed(s) /\ From(p).p = p
<1>1. 0 \in Int /\ FALSE \in BOOLEAN
  OBVIOUS
<1>2. Result(0, p, FALSE) \in Parsed(s) /\ Result(0, p, FALSE).p = p
  BY <1>1, ResultIs, Zenon
<1>3. QED
  BY <1>2 DEF From

\* A quotient is a number.
LEMMA TruncatedIs ==
  ASSUME NEW n \in Int, NEW d \in Int, d # 0 PROVE Truncated(n, d) \in Int
<1> DEFINE a == IF n < 0 THEN -n ELSE n
           b == IF d < 0 THEN -d ELSE d
<1>1. a \in Nat /\ b \in Nat /\ b > 0
  OBVIOUS
<1> HIDE DEF a, b
<1>2. a \div b \in Int
  BY <1>1
<1>3. Truncated(n, d) = IF (n < 0) = (d < 0) THEN a \div b ELSE -(a \div b)
  BY DEF Truncated, a, b
<1>4. QED
  BY <1>2, <1>3

\* An operator makes a number of two.
LEMMA AppliedIs ==
  ASSUME NEW op \in {"+", "-", "*", "/"}, NEW v \in Int, NEW r \in Int
  PROVE  Applied(op, v, r) \in Int
<1>1. CASE op = "+"
  BY <1>1 DEF Applied
<1>2. CASE op = "-"
  BY <1>2 DEF Applied
<1>3. CASE op = "*"
  BY <1>3 DEF Applied
<1>4. CASE op = "/"
  <2>1. Applied(op, v, r) = IF r = 0 THEN 0 ELSE Truncated(v, r)
    BY <1>4 DEF Applied
  <2>2. QED
    BY <2>1, TruncatedIs
<1>5. QED
  BY <1>1, <1>2, <1>3, <1>4

\* An operator makes a result of two, and leaves the place to the right one.
LEMMA CombinedIs ==
  ASSUME NEW s, NEW op \in {"+", "-", "*", "/"}, NEW l \in Parsed(s), NEW r \in Parsed(s)
  PROVE  Combined(op, l, r) \in Parsed(s) /\ Combined(op, l, r).p = r.p
<1>1. l.v \in Int /\ r.v \in Int /\ r.p \in 1 .. Len(s) + 1
  BY DEF Parsed
<1>2. PICK v \in Int : v = Applied(op, l.v, r.v)
  BY <1>1, AppliedIs
<1>3. PICK trap \in BOOLEAN : trap = (l.trap \/ r.trap \/ Overflows(op, l.v, r.v))
  OBVIOUS
<1>4. Combined(op, l, r) = Result(v, r.p, trap)
  BY <1>2, <1>3, Zenon DEF Combined
<1>5. QED
  BY <1>1, <1>4, ResultIs

\* Blanks are passed.
LEMMA SkipIs ==
  ASSUME NEW W, NEW s \in Seq(W), NEW p \in 1 .. Len(s) + 1
  PROVE  /\ Skip(s, p) \in p .. Len(s) + 1
         /\ At(s, Skip(s, p)) # "end" => Skip(s, p) \in p .. Len(s) /\ At(s, Skip(s, p)) = s[Skip(s, p)]
<1> DEFINE q == Skip(s, p)
<1>1. q \in p .. Len(s) + 1
  <2>1. "end" \notin {" "}
    OBVIOUS
  <2>2. QED
    BY <2>1, PastIs DEF Skip
<1> HIDE DEF q
<1>2. At(s, q) # "end" => q \in p .. Len(s) /\ At(s, q) = s[q]
  BY <1>1 DEF At
<1>3. QED
  BY <1>1, <1>2 DEF q

\* A primary: a group is read by the rule for expressions, from behind its bracket.
IsGroup(f, s, p, q) ==
  /\ q \in p .. Len(s) /\ From(q + 1) \in Parsed(s) /\ From(q + 1).p = q + 1
  /\ <<"cl_eval", From(q + 1)>> \in Calls(s)
  /\ \E inner \in Parsed(s), close \in 1 .. Len(s) + 1 :
       /\ inner = f[<<"cl_eval", From(q + 1)>>]
       /\ close = Skip(s, inner.p) /\ close >= inner.p
       /\ cl_prim(f, s, p) = [v |-> inner.v, trap |-> inner.trap,
                              p |-> IF At(s, close) = ")" THEN close + 1 ELSE close]
       /\ cl_prim(f, s, p) \in Parsed(s)
       /\ cl_prim(f, s, p).p >= inner.p

\* cl_prim at an opening parenthesis returns what cl_eval makes of what is behind it.
LEMMA GroupIs ==
  ASSUME NEW W, NEW s \in Seq(W), NEW f \in Parsers(s), NEW p \in 1 .. Len(s) + 1,
         NEW q, q = Skip(s, p), At(s, q) = "("
  PROVE  IsGroup(f, s, p, q)
<1>1. q \in p .. Len(s)
  BY SkipIs
<1>2. q + 1 \in 1 .. Len(s) + 1
  BY <1>1
<1>3. From(q + 1) \in Parsed(s) /\ From(q + 1).p = q + 1
  BY <1>2, FromIs
<1>4. <<"cl_eval", From(q + 1)>> \in Calls(s)
  BY <1>3 DEF Calls, Rules
<1>5. PICK inner \in Parsed(s) : inner = f[<<"cl_eval", From(q + 1)>>]
  BY <1>4 DEF Parsers
<1>6. inner.p \in 1 .. Len(s) + 1 /\ inner.v \in Int /\ inner.trap \in BOOLEAN
  BY DEF Parsed
<1>7. PICK close \in inner.p .. Len(s) + 1 :
        close = Skip(s, inner.p) /\ (At(s, close) # "end" => close <= Len(s))
  <2>1. PICK k \in 1 .. Len(s) + 1 : k = inner.p
    BY <1>6
  <2>2. Skip(s, k) \in k .. Len(s) + 1 /\ (At(s, Skip(s, k)) # "end" => Skip(s, k) <= Len(s))
    BY SkipIs
  <2>3. QED
    BY <2>1, <2>2
<1>8. close \in 1 .. Len(s) + 1 /\ close >= inner.p /\ Len(s) \in Nat
  BY <1>6
<1> DEFINE end == IF At(s, close) = ")" THEN close + 1 ELSE close
<1>9. cl_prim(f, s, p) = [inner EXCEPT !.p = end]
  BY <1>5, <1>7, Zenon DEF cl_prim
<1>10. end \in 1 .. Len(s) + 1 /\ end >= inner.p
  BY <1>6, <1>7, <1>8
<1> HIDE DEF end
<1>11. [inner EXCEPT !.p = end] = [v |-> inner.v, trap |-> inner.trap, p |-> end]
  BY DEF Parsed
<1>12. [v |-> inner.v, trap |-> inner.trap, p |-> end] \in Parsed(s)
  BY <1>6, <1>10 DEF Parsed
<1>13. QED
  <2>1. /\ cl_prim(f, s, p) = [v |-> inner.v, trap |-> inner.trap, p |-> end]
        /\ cl_prim(f, s, p) \in Parsed(s) /\ cl_prim(f, s, p).p >= inner.p
    BY <1>9, <1>10, <1>11, <1>12
  <2>2. QED
    BY <1>1, <1>3, <1>4, <1>5, <1>7, <1>8, <2>1 DEF end, IsGroup

\* What else stands there is read as a number with a sign.
IsSigned(f, s, p, q) ==
  /\ q \in p .. Len(s) + 1
  /\ \E from \in q .. Len(s) + 1, v \in Int, end \in 1 .. Len(s) + 1 :
       /\ from = IF At(s, q) \in {"-", "+"} THEN q + 1 ELSE q
       /\ Number(s, Skip(s, from)) = Result(v, end, FALSE) /\ end >= from
       /\ cl_prim(f, s, p) = [v |-> Int32(IF At(s, q) = "-" THEN -Int32(v) ELSE Int32(v)),
                              p |-> end, trap |-> FALSE]
       /\ cl_prim(f, s, p) \in Parsed(s)

\* cl_prim elsewhere returns a number with its sign.
LEMMA SignedIs ==
  ASSUME NEW W, NEW s \in Seq(W), NEW f, NEW p \in 1 .. Len(s) + 1,
         NEW q, q = Skip(s, p), At(s, q) # "("
  PROVE  IsSigned(f, s, p, q)
<1>1. q \in p .. Len(s) + 1 /\ (At(s, q) # "end" => q <= Len(s)) /\ Len(s) \in Nat
  BY SkipIs
<1>2. PICK from \in q .. Len(s) + 1 : from = IF At(s, q) \in {"-", "+"} THEN q + 1 ELSE q
  BY <1>1
<1>3. from \in 1 .. Len(s) + 1
  BY <1>1
<1>4. PICK k \in from .. Len(s) + 1 : k = Skip(s, from)
  BY <1>3, SkipIs
<1>5. k \in 1 .. Len(s) + 1
  BY <1>3
<1>6. PICK end \in k .. Len(s) + 1 : end = Past(s, k, Digits)
  BY <1>5, PastIs, MarksDiffer
<1>7. end \in 1 .. Len(s) + 1 /\ end >= from /\ end - 1 \in k - 1 .. end - 1
  BY <1>3, <1>5
<1>8. PICK d \in [k - 1 .. end - 1 -> Int] : Number(s, k) = Result(d[end - 1], end, FALSE)
  <2>1. IsNumber(s, k, end)
    BY <1>5, <1>6, NumberIs
  <2>2. QED
    BY <2>1 DEF IsNumber
<1>9. PICK v \in Int : v = d[end - 1]
  BY <1>7
<1> DEFINE n == [v |-> Int32(v), p |-> end, trap |-> FALSE]
<1>10. Number(s, Skip(s, from)) = n
  BY <1>4, <1>8, <1>9 DEF Result
<1>11. cl_prim(f, s, p) = [n EXCEPT !.v = Int32(IF At(s, q) = "-" THEN -n.v ELSE n.v)]
  BY <1>2, <1>10, Zenon DEF cl_prim
<1> DEFINE m == IF At(s, q) = "-" THEN -Int32(v) ELSE Int32(v)
<1>12. m \in Int
  <2>1. Int32(v) \in Int
    BY IntIs
  <2>2. QED
    BY <2>1
<1>13. cl_prim(f, s, p) = [n EXCEPT !.v = Int32(m)]
  BY <1>11
<1> HIDE DEF m
<1>14. cl_prim(f, s, p) = [v |-> Int32(m), p |-> end, trap |-> FALSE]
  BY <1>13
<1>15. cl_prim(f, s, p) \in Parsed(s)
  <2>1. Int32(m) \in Int
    BY <1>12, IntIs
  <2>2. QED
    BY <1>7, <1>14, <2>1 DEF Parsed
<1>16. QED
  BY <1>1, <1>2, <1>4, <1>7, <1>8, <1>9, <1>14, <1>15 DEF m, IsSigned

\* The loops of cl_term and cl_eval differ in their operators and operands only.
Looped(f, s, l, ops, operand, again) ==
  LET q == Skip(s, l.p)
  IN  IF At(s, q) \in ops
        THEN f[<<again, Combined(s[q], l, f[<<operand, From(q + 1)>>])>>]
        ELSE [l EXCEPT !.p = q]

\* The operators of the two loops
Factoring == {"*", "/"}
Summing == {"+", "-"}

\* The loops of cl_term and cl_eval are the same but for their operators.
LEMMA LoopsAre ==
  ASSUME NEW s, NEW f, NEW l
  PROVE  /\ cl_term(f, s, l) = Looped(f, s, l, Factoring, "cl_prim", "factors")
         /\ cl_eval(f, s, l) = Looped(f, s, l, Summing, "cl_term", "summands")
BY Zenon DEF Looped, cl_term, cl_eval, Factoring, Summing

\* What a loop does at one of its operators
GoesOn(f, s, l, ops, operand, again, q) ==
  /\ q \in l.p .. Len(s) /\ From(q + 1) \in Parsed(s) /\ From(q + 1).p = q + 1
  /\ \E r, c \in Parsed(s) :
       /\ r = f[<<operand, From(q + 1)>>] /\ c = Combined(s[q], l, r) /\ c.p = r.p
       /\ Looped(f, s, l, ops, operand, again) = f[<<again, c>>]

\* A loop that is at one of its operators reads the operand and goes on behind it.
LEMMA LoopGoesOn ==
  ASSUME NEW W, NEW s \in Seq(W), NEW f \in Parsers(s), NEW l \in Parsed(s),
         NEW ops \in SUBSET {"+", "-", "*", "/"}, NEW operand \in Rules, NEW again \in Rules,
         NEW q, q = Skip(s, l.p), At(s, q) \in ops
  PROVE  GoesOn(f, s, l, ops, operand, again, q)
<1>1. PICK p \in 1 .. Len(s) + 1 : p = l.p
  BY DEF Parsed
<1>2. Skip(s, p) = q
  BY <1>1
<1>3. At(s, q) # "end"
  OBVIOUS
<1>4. q \in p .. Len(s) /\ At(s, q) = s[q]
  BY <1>2, <1>3, SkipIs
<1>5. q + 1 \in 1 .. Len(s) + 1
  BY <1>4
<1>6. From(q + 1) \in Parsed(s) /\ From(q + 1).p = q + 1
  BY <1>5, FromIs
<1>7. <<operand, From(q + 1)>> \in Calls(s)
  BY <1>6 DEF Calls
<1>8. PICK r \in Parsed(s) : r = f[<<operand, From(q + 1)>>]
  BY <1>7 DEF Parsers
<1>9. PICK c \in Parsed(s) : c = Combined(s[q], l, r) /\ c.p = r.p
  <2>1. s[q] \in {"+", "-", "*", "/"}
    BY <1>4
  <2>2. QED
    BY <2>1, CombinedIs
<1>10. Looped(f, s, l, ops, operand, again) = f[<<again, c>>]
  BY <1>8, <1>9, Zenon DEF Looped
<1>11. QED
  BY <1>1, <1>4, <1>6, <1>8, <1>9, <1>10 DEF GoesOn

\* A loop that is at no operator of its own returns what it has.
LEMMA LoopEnds ==
  ASSUME NEW W, NEW s \in Seq(W), NEW f, NEW l \in Parsed(s), NEW ops, NEW operand, NEW again,
         NEW q, q = Skip(s, l.p), At(s, q) \notin ops
  PROVE  /\ q \in l.p .. Len(s) + 1
         /\ Looped(f, s, l, ops, operand, again) = [v |-> l.v, p |-> q, trap |-> l.trap]
         /\ Looped(f, s, l, ops, operand, again) \in Parsed(s)
<1>1. PICK p \in 1 .. Len(s) + 1 : p = l.p
  BY DEF Parsed
<1>2. q \in p .. Len(s) + 1
  <2>1. Skip(s, p) \in p .. Len(s) + 1
    BY SkipIs
  <2>2. QED
    BY <1>1, <2>1
<1>3. Looped(f, s, l, ops, operand, again) = [l EXCEPT !.p = q]
  BY Zenon DEF Looped
<1>4. [l EXCEPT !.p = q] = [v |-> l.v, p |-> q, trap |-> l.trap]
  BY DEF Parsed
<1>5. [v |-> l.v, p |-> q, trap |-> l.trap] \in Parsed(s)
  BY <1>1, <1>2 DEF Parsed
<1>6. QED
  BY <1>1, <1>2, <1>3, <1>4, <1>5

\* A rule calls itself and the others for less: for fewer characters, or for the
\* same ones by a rule that comes before it.
Rank(rule) == CASE rule = "cl_prim" -> 0 [] rule = "factors" -> 1 [] rule = "summands" -> 2
                [] rule = "cl_term" -> 3 [] rule = "cl_eval" -> 4
Weight(s, rule, l) == 5 * (Len(s) + 1 - l.p) + Rank(rule)

\* The weight of a call and its two parts, as one fact
Weighs(s, rule, l) ==
  /\ Weight(s, rule, l) \in 0 .. 5 * Len(s) + 4
  /\ Rank(rule) \in 0 .. 4 /\ Weight(s, rule, l) = 5 * (Len(s) + 1 - l.p) + Rank(rule)
  /\ l.p \in 1 .. Len(s) + 1 /\ Len(s) \in Nat

\* A weight is a number that the length of the text bounds.
LEMMA WeightIs ==
  ASSUME NEW W, NEW s \in Seq(W), NEW rule \in Rules, NEW l \in Parsed(s)
  PROVE  Weighs(s, rule, l)
<1>1. Rank(rule) \in 0 .. 4
  BY DEF Rank, Rules
<1>2. l.p \in 1 .. Len(s) + 1 /\ Len(s) \in Nat
  BY DEF Parsed
<1>3. Len(s) + 1 - l.p \in 0 .. Len(s)
  BY <1>2
<1>4. PICK n \in 0 .. Len(s), k \in 0 .. 4 : n = Len(s) + 1 - l.p /\ k = Rank(rule)
  BY <1>1, <1>3
<1>5. 5 * n + k \in 0 .. 5 * Len(s) + 4
  BY <1>2
<1>6. Weight(s, rule, l) = 5 * n + k
  BY <1>4 DEF Weight
<1>7. QED
  BY <1>1, <1>2, <1>4, <1>5, <1>6 DEF Weighs

\* A call further on weighs less, and so does a rule that comes before.
LEMMA Lighter ==
  ASSUME NEW W, NEW s \in Seq(W), NEW rule \in Rules, NEW l \in Parsed(s),
         NEW again \in Rules, NEW k \in Parsed(s),
         k.p > l.p \/ (k.p >= l.p /\ Rank(again) < Rank(rule))
  PROVE  Weight(s, again, k) < Weight(s, rule, l)
<1>1. Rank(again) \in 0 .. 4 /\ Rank(rule) \in 0 .. 4
  BY DEF Rank, Rules
<1>2. k.p \in Int /\ l.p \in Int /\ Len(s) \in Nat
  BY DEF Parsed
<1>3. PICK i \in Int, j \in Int : i = Len(s) + 1 - k.p /\ j = Len(s) + 1 - l.p
  BY <1>2
<1>4. PICK a \in 0 .. 4, b \in 0 .. 4 : a = Rank(again) /\ b = Rank(rule)
  BY <1>1
<1>5. i < j \/ (i <= j /\ a < b)
  <2>1. k.p > l.p => i < j
    BY <1>2, <1>3
  <2>2. k.p >= l.p => i <= j
    BY <1>2, <1>3
  <2>3. Rank(again) < Rank(rule) => a < b
    BY <1>4
  <2>4. QED
    BY <2>1, <2>2, <2>3
<1>6. 5 * i + a < 5 * j + b
  BY <1>5
<1>7. Weight(s, again, k) = 5 * i + a
  BY <1>3, <1>4 DEF Weight
<1>8. Weight(s, rule, l) = 5 * j + b
  BY <1>3, <1>4 DEF Weight
<1>9. QED
  BY <1>6, <1>7, <1>8

\* The ranks of the rules, for the steps that need a single one.
LEMMA RanksAre ==
  /\ Rank("cl_prim") = 0 /\ Rank("factors") = 1 /\ Rank("summands") = 2
  /\ Rank("cl_term") = 3 /\ Rank("cl_eval") = 4
  /\ Rules = {"cl_prim", "cl_term", "factors", "cl_eval", "summands"}
BY DEF Rank, Rules

\* What each rule is.
LEMMA RuledAs ==
  ASSUME NEW f, NEW s, NEW l, NEW rule
  PROVE  /\ rule = "cl_prim" => Ruled(f, s, rule, l) = cl_prim(f, s, l.p)
         /\ rule = "cl_term" => Ruled(f, s, rule, l) = f[<<"factors", f[<<"cl_prim", l>>]>>]
         /\ rule = "factors" =>
              Ruled(f, s, rule, l) = Looped(f, s, l, Factoring, "cl_prim", "factors")
         /\ rule = "cl_eval" => Ruled(f, s, rule, l) = f[<<"summands", f[<<"cl_term", l>>]>>]
         /\ rule = "summands" =>
              Ruled(f, s, rule, l) = Looped(f, s, l, Summing, "cl_term", "summands")
BY LoopsAre DEF Ruled

\* Two parsers agree on what weighs less than w, and pass over nothing backwards.
Agree(f, g, s, w) ==
  \A r \in Rules, k \in Parsed(s) : Weight(s, r, k) < w =>
    f[<<r, k>>] = g[<<r, k>>] /\ f[<<r, k>>].p >= k.p

\* What they make of a call of this weight, a and b, is then the same.
Good(f, g, s, l, w, a, b) ==
  a \in Parsed(s) /\ (Agree(f, g, s, w) => a = b /\ a.p >= l.p)

\* A call returns a result.
LEMMA CallIs ==
  ASSUME NEW s, NEW f \in Parsers(s), NEW rule \in Rules, NEW l \in Parsed(s)
  PROVE  f[<<rule, l>>] \in Parsed(s)
BY DEF Parsers, Calls

\* Two parsers that agree below a weight agree on a call of less.
LEMMA LighterCall ==
  ASSUME NEW W, NEW s \in Seq(W), NEW f \in Parsers(s), NEW g, NEW w \in Nat,
         Agree(f, g, s, w), NEW rule \in Rules, NEW l \in Parsed(s), Weight(s, rule, l) < w
  PROVE  f[<<rule, l>>] = g[<<rule, l>>] /\ f[<<rule, l>>].p >= l.p /\ f[<<rule, l>>] \in Parsed(s)
BY CallIs DEF Agree

\* A loop needs its operand, which weighs less, and itself from behind it.
LEMMA LoopIs ==
  ASSUME NEW W, NEW s \in Seq(W), NEW f \in Parsers(s), NEW g,
         NEW l \in Parsed(s), NEW ops \in SUBSET {"+", "-", "*", "/"},
         NEW operand \in Rules, NEW again \in Rules, NEW w \in Nat, w = Weight(s, again, l)
  PROVE  Good(f, g, s, l, w, Looped(f, s, l, ops, operand, again),
              Looped(g, s, l, ops, operand, again))
<1>1. PICK q : q = Skip(s, l.p)
  OBVIOUS
<1>2. CASE At(s, q) \in ops
  <2>1. GoesOn(f, s, l, ops, operand, again, q)
    BY <1>1, <1>2, LoopGoesOn
  <2>2. PICK r \in Parsed(s), c \in Parsed(s) :
          /\ r = f[<<operand, From(q + 1)>>] /\ c = Combined(s[q], l, r) /\ c.p = r.p
          /\ Looped(f, s, l, ops, operand, again) = f[<<again, c>>]
    BY <2>1 DEF GoesOn
  <2>3. Looped(g, s, l, ops, operand, again) =
          g[<<again, Combined(s[q], l, g[<<operand, From(q + 1)>>])>>]
    BY <1>1, <1>2, Zenon DEF Looped
  <2>4. PICK k \in Parsed(s) : k = From(q + 1) /\ k.p = q + 1 /\ q \in l.p .. Len(s)
    BY <2>1 DEF GoesOn
  <2>5. ASSUME Agree(f, g, s, w)
        PROVE  f[<<again, c>>] = Looped(g, s, l, ops, operand, again) /\ f[<<again, c>>].p >= l.p
    <3>1. l.p \in Int /\ k.p \in Int /\ r.p \in Int /\ c.p \in Int
      BY DEF Parsed
    <3>2. k.p > l.p
      BY <2>4, <3>1
    <3>3. Weight(s, operand, k) < w
      BY <3>2, Lighter
    <3>4. f[<<operand, k>>] = g[<<operand, k>>] /\ f[<<operand, k>>].p >= k.p
      BY <2>5, <3>3, LighterCall
    <3>5. r = g[<<operand, k>>] /\ r.p >= k.p
      BY <2>2, <2>4, <3>4
    <3>6. c.p > l.p
      BY <2>2, <3>1, <3>2, <3>5
    <3>7. Weight(s, again, c) < w
      BY <3>6, Lighter
    <3>8. f[<<again, c>>] = g[<<again, c>>] /\ f[<<again, c>>].p >= c.p /\ f[<<again, c>>] \in Parsed(s)
      BY <2>5, <3>7, LighterCall
    <3>9. \A m \in Parsed(s) : m.p \in Int
      BY DEF Parsed
    <3>10. Looped(g, s, l, ops, operand, again) = g[<<again, c>>]
      BY <2>2, <2>3, <2>4, <3>5, Zenon
    <3>11. f[<<again, c>>] = Looped(g, s, l, ops, operand, again)
      BY <3>8, <3>10, Zenon
    <3>12. f[<<again, c>>].p >= l.p
      <4>1. PICK m \in Parsed(s) : m = f[<<again, c>>]
        BY <3>8
      <4>2. m.p \in Int /\ m.p >= c.p
        BY <3>8, <3>9, <4>1
      <4>3. QED
        BY <3>1, <3>6, <4>1, <4>2
    <3>13. QED
      BY <3>11, <3>12
  <2>6. f[<<again, c>>] \in Parsed(s)
    BY CallIs
  <2>7. QED
    BY <2>2, <2>5, <2>6 DEF Good
<1>3. CASE At(s, q) \notin ops
  <2>1. /\ q \in l.p .. Len(s) + 1
        /\ Looped(f, s, l, ops, operand, again) = [v |-> l.v, p |-> q, trap |-> l.trap]
        /\ Looped(f, s, l, ops, operand, again) \in Parsed(s)
    BY <1>1, <1>3, LoopEnds
  <2>2. Looped(g, s, l, ops, operand, again) = [v |-> l.v, p |-> q, trap |-> l.trap]
    BY <1>1, <1>3, LoopEnds
  <2>3. [v |-> l.v, p |-> q, trap |-> l.trap].p = q
    OBVIOUS
  <2>4. QED
    BY <2>1, <2>2, <2>3 DEF Good
<1>4. QED
  BY <1>2, <1>3

\* cl_prim calls cl_eval behind the parenthesis only.
LEMMA PrimIs ==
  ASSUME NEW W, NEW s \in Seq(W), NEW f \in Parsers(s), NEW g,
         NEW l \in Parsed(s), NEW w \in Nat, w = Weight(s, "cl_prim", l)
  PROVE  Good(f, g, s, l, w, cl_prim(f, s, l.p), cl_prim(g, s, l.p))
<1>1. PICK p \in 1 .. Len(s) + 1 : p = l.p
  BY DEF Parsed
<1>2. PICK q : q = Skip(s, p)
  OBVIOUS
<1>3. CASE At(s, q) = "("
  <2>1. IsGroup(f, s, p, q)
    BY <1>2, <1>3, GroupIs
  <2>2. PICK k \in Parsed(s) : k = From(q + 1) /\ k.p = q + 1 /\ q \in p .. Len(s)
    BY <2>1 DEF IsGroup
  <2>3. PICK inner \in Parsed(s), close \in 1 .. Len(s) + 1 :
          /\ inner = f[<<"cl_eval", k>>] /\ close = Skip(s, inner.p)
          /\ cl_prim(f, s, p) = [v |-> inner.v, trap |-> inner.trap,
                                 p |-> IF At(s, close) = ")" THEN close + 1 ELSE close]
          /\ cl_prim(f, s, p) \in Parsed(s) /\ cl_prim(f, s, p).p >= inner.p
    BY <2>1, <2>2 DEF IsGroup
  <2>4. g[<<"cl_eval", k>>] = inner => cl_prim(f, s, p) = cl_prim(g, s, p)
    BY <1>2, <1>3, <2>2, <2>3, Zenon DEF cl_prim
  <2>5. ASSUME Agree(f, g, s, w)
        PROVE  cl_prim(f, s, p) = cl_prim(g, s, p) /\ cl_prim(f, s, p).p >= p
    <3>1. "cl_eval" \in Rules /\ "cl_prim" \in Rules
      BY RanksAre
    <3>2. k.p > l.p
      BY <1>1, <2>2
    <3>3. Weight(s, "cl_eval", k) < w
      BY <3>1, <3>2, Lighter
    <3>6. f[<<"cl_eval", k>>] = g[<<"cl_eval", k>>] /\ f[<<"cl_eval", k>>].p >= k.p
      BY <2>5, <3>1, <3>3, LighterCall
    <3>7. g[<<"cl_eval", k>>] = inner
      BY <2>3, <3>6
    <3>8. inner.p \in Int /\ cl_prim(f, s, p).p \in Int
      BY <2>3 DEF Parsed
    <3>9. cl_prim(f, s, p).p >= p
      BY <2>2, <2>3, <3>6, <3>8
    <3>10. QED
      BY <2>4, <3>7, <3>9
  <2>6. QED
    BY <1>1, <2>3, <2>5 DEF Good
<1>4. CASE At(s, q) # "("
  <2>1. IsSigned(f, s, p, q)
    BY <1>2, <1>4, SignedIs
  <2>2. PICK from \in q .. Len(s) + 1, v \in Int, end \in 1 .. Len(s) + 1 :
          /\ from = IF At(s, q) \in {"-", "+"} THEN q + 1 ELSE q
          /\ Number(s, Skip(s, from)) = Result(v, end, FALSE) /\ end >= from
          /\ cl_prim(f, s, p) = [v |-> Int32(IF At(s, q) = "-" THEN -Int32(v) ELSE Int32(v)),
                                 p |-> end, trap |-> FALSE]
          /\ cl_prim(f, s, p) \in Parsed(s)
    BY <2>1 DEF IsSigned
  <2>3. cl_prim(f, s, p).p >= p
    <3>1. cl_prim(f, s, p).p = end /\ q \in p .. Len(s) + 1
      BY <2>1, <2>2 DEF IsSigned
    <3>2. QED
      BY <2>2, <3>1
  <2>4. cl_prim(f, s, p) = cl_prim(g, s, p)
    BY <1>2, <1>4, Zenon DEF cl_prim
  <2>5. QED
    BY <1>1, <2>2, <2>3, <2>4 DEF Good
<1>5. QED
  BY <1>3, <1>4

\* Two calls in a row, as in cl_term and cl_eval
LEMMA TwoCalls ==
  ASSUME NEW W, NEW s \in Seq(W), NEW f \in Parsers(s), NEW g,
         NEW l \in Parsed(s), NEW rule \in Rules, NEW first \in Rules, NEW second \in Rules,
         Rank(first) < Rank(rule), Rank(second) < Rank(rule), NEW w \in Nat, w = Weight(s, rule, l)
  PROVE  Good(f, g, s, l, w, f[<<second, f[<<first, l>>]>>], g[<<second, g[<<first, l>>]>>])
<1>1. PICK k \in Parsed(s) : k = f[<<first, l>>]
  BY CallIs
<1>2. PICK m \in Parsed(s) : m = f[<<second, k>>]
  BY CallIs
<1>3. ASSUME Agree(f, g, s, w) PROVE m = g[<<second, g[<<first, l>>]>>] /\ m.p >= l.p
  <2>1. l.p \in Int /\ k.p \in Int /\ m.p \in Int
    BY DEF Parsed
  <2>2. l.p >= l.p
    BY <2>1
  <2>3. Weight(s, first, l) < w
    BY <2>2, Lighter
  <2>4. f[<<first, l>>] = g[<<first, l>>] /\ k.p >= l.p
    BY <1>1, <1>3, <2>3, LighterCall
  <2>5. Weight(s, second, k) < w
    BY <2>4, Lighter
  <2>6. f[<<second, k>>] = g[<<second, k>>] /\ m.p >= k.p
    BY <1>2, <1>3, <2>5, LighterCall
  <2>7. m = g[<<second, g[<<first, l>>]>>]
    BY <1>1, <1>2, <2>4, <2>6, Zenon
  <2>8. m.p >= l.p
    BY <2>1, <2>4, <2>6
  <2>9. QED
    BY <2>7, <2>8
<1>4. QED
  BY <1>1, <1>2, <1>3 DEF Good

\* Every rule returns a place that is not before where it began, and what it returns
\* follows from calls that weigh less.
LEMMA RuledIs ==
  ASSUME NEW W, NEW s \in Seq(W), NEW f \in Parsers(s), NEW g,
         NEW rule \in Rules, NEW l \in Parsed(s), NEW w, w = Weight(s, rule, l)
  PROVE  Good(f, g, s, l, w, Ruled(f, s, rule, l), Ruled(g, s, rule, l))
<1>1. w \in Nat
  BY WeightIs DEF Weighs
<1>2. CASE rule = "cl_prim"
  <2>1. Good(f, g, s, l, w, cl_prim(f, s, l.p), cl_prim(g, s, l.p))
    BY <1>1, <1>2, PrimIs
  <2>2. /\ Ruled(f, s, rule, l) = cl_prim(f, s, l.p)
        /\ Ruled(g, s, rule, l) = cl_prim(g, s, l.p)
    BY <1>2 DEF Ruled
  <2>3. QED
    BY <2>1, <2>2, Zenon
<1>3. CASE rule = "cl_term"
  <2>1. /\ "cl_prim" \in Rules /\ Rank("cl_prim") < Rank(rule)
        /\ "factors" \in Rules /\ Rank("factors") < Rank(rule)
    BY <1>3, RanksAre
  <2>2. Good(f, g, s, l, w, f[<<"factors", f[<<"cl_prim", l>>]>>],
             g[<<"factors", g[<<"cl_prim", l>>]>>])
    BY <1>1, <1>3, <2>1, TwoCalls
  <2>3. /\ Ruled(f, s, rule, l) = f[<<"factors", f[<<"cl_prim", l>>]>>]
        /\ Ruled(g, s, rule, l) = g[<<"factors", g[<<"cl_prim", l>>]>>]
    BY <1>3 DEF Ruled
  <2>4. QED
    BY <2>2, <2>3, Zenon
<1>4. CASE rule = "factors"
  <2>1. "cl_prim" \in Rules /\ Factoring \in SUBSET {"+", "-", "*", "/"}
    BY RanksAre DEF Factoring
  <2>2. Good(f, g, s, l, w, Looped(f, s, l, Factoring, "cl_prim", "factors"),
             Looped(g, s, l, Factoring, "cl_prim", "factors"))
    BY <1>1, <1>4, <2>1, LoopIs
  <2>3. /\ Ruled(f, s, rule, l) = Looped(f, s, l, Factoring, "cl_prim", "factors")
        /\ Ruled(g, s, rule, l) = Looped(g, s, l, Factoring, "cl_prim", "factors")
    BY <1>4, RuledAs
  <2>4. QED
    BY <2>2, <2>3, Zenon
<1>5. CASE rule = "cl_eval"
  <2>1. /\ "cl_term" \in Rules /\ Rank("cl_term") < Rank(rule)
        /\ "summands" \in Rules /\ Rank("summands") < Rank(rule)
    BY <1>5, RanksAre
  <2>2. Good(f, g, s, l, w, f[<<"summands", f[<<"cl_term", l>>]>>],
             g[<<"summands", g[<<"cl_term", l>>]>>])
    BY <1>1, <1>5, <2>1, TwoCalls
  <2>3. /\ Ruled(f, s, rule, l) = f[<<"summands", f[<<"cl_term", l>>]>>]
        /\ Ruled(g, s, rule, l) = g[<<"summands", g[<<"cl_term", l>>]>>]
    BY <1>5 DEF Ruled
  <2>4. QED
    BY <2>2, <2>3, Zenon
<1>6. CASE rule = "summands"
  <2>1. "cl_term" \in Rules /\ Summing \in SUBSET {"+", "-", "*", "/"}
    BY RanksAre DEF Summing
  <2>2. Good(f, g, s, l, w, Looped(f, s, l, Summing, "cl_term", "summands"),
             Looped(g, s, l, Summing, "cl_term", "summands"))
    BY <1>1, <1>6, <2>1, LoopIs
  <2>3. /\ Ruled(f, s, rule, l) = Looped(f, s, l, Summing, "cl_term", "summands")
        /\ Ruled(g, s, rule, l) = Looped(g, s, l, Summing, "cl_term", "summands")
    BY <1>6, RuledAs
  <2>4. QED
    BY <2>2, <2>3, Zenon
<1>7. QED
  BY <1>2, <1>3, <1>4, <1>5, <1>6, RanksAre

\* A parser is a solution of the equations of the rules.
IsParser(s, f) ==
  \A rule \in Rules, l \in Parsed(s) :
    f[<<rule, l>>] = Ruled(f, s, rule, l) /\ f[<<rule, l>>].p >= l.p

\* The equations have a solution: what the rules make of calls that may nest k deep,
\* for every k, is the same from a depth on, and this depth is the weight.
LEMMA ParserExists ==
  ASSUME NEW W, NEW s \in Seq(W) PROVE \E f \in Parsers(s) : IsParser(s, f)
<1> DEFINE top == 5 * Len(s) + 6
           OneDeeper(f) == [call \in Calls(s) |-> Ruled(f, s, call[1], call[2])]
           g == [i \in 0 .. top |-> [h \in [0 .. top -> Parsers(s)] |->
                  IF i = 0 THEN [call \in Calls(s) |-> call[2]] ELSE OneDeeper(h[i - 1])]]
<1>0. top \in Nat /\ Len(s) \in Nat
  OBVIOUS
<1>1. ASSUME NEW f \in Parsers(s)
      PROVE  /\ OneDeeper(f) \in Parsers(s)
             /\ \A rule \in Rules, l \in Parsed(s) : OneDeeper(f)[<<rule, l>>] = Ruled(f, s, rule, l)
  <2>1. ASSUME NEW rule \in Rules, NEW l \in Parsed(s) PROVE Ruled(f, s, rule, l) \in Parsed(s)
    <3>1. PICK w : w = Weight(s, rule, l)
      OBVIOUS
    <3>2. Good(f, f, s, l, w, Ruled(f, s, rule, l), Ruled(f, s, rule, l))
      BY <3>1, RuledIs
    <3>3. QED
      BY <3>2 DEF Good
  <2>2. QED
    BY <2>1 DEF Parsers, Calls
<1>2. [call \in Calls(s) |-> call[2]] \in Parsers(s)
  BY DEF Parsers, Calls
<1> HIDE DEF OneDeeper
<1>3. g \in [0 .. top -> [[0 .. top -> Parsers(s)] -> Parsers(s)]]
  <2>1. ASSUME NEW i \in 0 .. top, NEW h \in [0 .. top -> Parsers(s)]
        PROVE  (IF i = 0 THEN [call \in Calls(s) |-> call[2]] ELSE OneDeeper(h[i - 1])) \in Parsers(s)
    <3>1. CASE i = 0
      BY <1>2, <3>1
    <3>2. CASE i # 0
      <4>1. i - 1 \in 0 .. top
        BY <1>0, <3>2
      <4>2. h[i - 1] \in Parsers(s)
        BY <4>1
      <4>3. QED
        BY <1>1, <3>2, <4>2
    <3>3. QED
      BY <3>1, <3>2
  <2>2. QED
    BY <2>1
<1>4. Follows(Parsers(s), 0, top, g)
  <2>1. ASSUME NEW i \in 0 .. top, NEW v \in [0 .. top -> Parsers(s)],
               NEW w \in [0 .. top -> Parsers(s)], \A j \in 0 .. i - 1 : v[j] = w[j]
        PROVE  g[i][v] = g[i][w]
    <3>1. i = 0 \/ v[i - 1] = w[i - 1]
      BY <1>0, <2>1
    <3>2. QED
      BY <3>1
  <2>2. QED
    BY <2>1 DEF Follows
<1>5. \E P \in [0 .. top -> Parsers(s)] : \A i \in 0 .. top : P[i] = g[i][P]
  <2> HIDE DEF g, top
  <2>1. Parsers(s) # {}
    BY <1>2
  <2>2. 0 \in Nat /\ 0 <= top + 1
    BY <1>0
  <2>3. Defines(Parsers(s), 0, top, g)
    BY <1>0, <1>3, <1>4, <2>1, <2>2, Defined
  <2>4. QED
    BY <2>3 DEF Defines
<1>6. PICK P \in [0 .. top -> Parsers(s)] : \A i \in 0 .. top : P[i] = g[i][P]
  BY <1>5
<1>7. ASSUME NEW i \in 1 .. top PROVE P[i] = OneDeeper(P[i - 1]) /\ P[i] \in Parsers(s) /\ P[i - 1] \in Parsers(s)
  <2>1. i \in 0 .. top /\ i - 1 \in 0 .. top /\ i # 0
    BY <1>0
  <2>2. QED
    BY <1>6, <2>1
<1> HIDE DEF g
<1> DEFINE Same(w) == \A i \in w .. top - 1 : Agree(P[i], P[i + 1], s, w)
           G == {w \in Nat : w <= top - 1 => Same(w)}
<1>8. 0 \in G
  <2>1. \A r \in Rules, k \in Parsed(s) : ~(Weight(s, r, k) < 0)
    BY WeightIs DEF Weighs
  <2>2. QED
    BY <2>1 DEF Agree
<1>9. ASSUME NEW w \in 1 .. top - 1, w - 1 \in G PROVE w \in G
  <2>1. Same(w - 1)
    BY <1>0, <1>9
  <2>2. ASSUME NEW i \in w .. top - 1, NEW r \in Rules, NEW k \in Parsed(s), Weight(s, r, k) < w
        PROVE  P[i][<<r, k>>] = P[i + 1][<<r, k>>] /\ P[i][<<r, k>>].p >= k.p
    <3>1. PICK u : u = Weight(s, r, k)
      OBVIOUS
    <3>2. u \in Nat /\ u <= w - 1
      BY <1>0, <2>2, <3>1, WeightIs DEF Weighs
    <3>3. PICK j : j = i - 1
      OBVIOUS
    <3>4. /\ j \in w - 1 .. top - 1 /\ j + 1 = i /\ i \in 1 .. top /\ i + 1 \in 1 .. top
          /\ (i + 1) - 1 = i
      BY <1>0, <3>3
    <3>5. Agree(P[j], P[i], s, w - 1)
      BY <2>1, <3>4
    <3>6. Agree(P[j], P[i], s, u)
      <4>1. ASSUME NEW r2 \in Rules, NEW k2 \in Parsed(s), Weight(s, r2, k2) < u
            PROVE  Weight(s, r2, k2) < w - 1
        <5>1. Weight(s, r2, k2) \in Int
          BY WeightIs DEF Weighs
        <5>2. QED
          BY <3>2, <4>1, <5>1
      <4>2. QED
        BY <3>5, <4>1 DEF Agree
    <3>7. /\ P[i] = OneDeeper(P[j]) /\ P[i + 1] = OneDeeper(P[i])
          /\ P[j] \in Parsers(s) /\ P[i] \in Parsers(s)
      BY <1>7, <3>3, <3>4
    <3>8. /\ P[i][<<r, k>>] = Ruled(P[j], s, r, k)
          /\ P[i + 1][<<r, k>>] = Ruled(P[i], s, r, k)
      BY <1>1, <3>7
    <3>9. Good(P[j], P[i], s, k, u, Ruled(P[j], s, r, k), Ruled(P[i], s, r, k))
      <4>1. PICK a \in Parsers(s), b \in Parsers(s) : a = P[j] /\ b = P[i]
        BY <3>7
      <4>2. Good(a, b, s, k, u, Ruled(a, s, r, k), Ruled(b, s, r, k))
        BY <3>1, RuledIs
      <4>3. QED
        BY <4>1, <4>2, Zenon
    <3>10. QED
      BY <3>6, <3>8, <3>9 DEF Good
  <2>3. QED
    BY <1>0, <2>2 DEF Agree
<1>10. Same(top - 1)
  <2>1. top - 1 \in Nat
    BY <1>0
  <2> HIDE DEF G
  <2>2. 0 .. top - 1 \subseteq G
    BY <1>8, <1>9, <2>1, UpTo
  <2>3. top - 1 \in G
    BY <2>1, <2>2
  <2>4. QED
    BY <2>1, <2>3 DEF G
<1>11. PICK f \in Parsers(s) : f = P[top - 1]
  BY <1>0, <1>6
<1>12. P[top] = OneDeeper(f) /\ Agree(f, P[top], s, top - 1)
  <2>1. top - 1 \in top - 1 .. top - 1 /\ (top - 1) + 1 = top /\ top \in 1 .. top
    BY <1>0
  <2>2. QED
    BY <1>7, <1>10, <1>11, <2>1
<1>13. ASSUME NEW rule \in Rules, NEW l \in Parsed(s)
       PROVE  f[<<rule, l>>] = Ruled(f, s, rule, l) /\ f[<<rule, l>>].p >= l.p
  <2>1. Weight(s, rule, l) < top - 1
    BY <1>0, WeightIs DEF Weighs
  <2>2. f[<<rule, l>>] = P[top][<<rule, l>>] /\ f[<<rule, l>>].p >= l.p
    BY <1>12, <2>1 DEF Agree
  <2>3. P[top][<<rule, l>>] = Ruled(f, s, rule, l)
    BY <1>1, <1>12
  <2>4. QED
    BY <2>2, <2>3
<1>14. QED
  BY <1>13 DEF IsParser

\* There is no other solution: two would differ first at a call for which all that
\* weighs less is the same.
LEMMA ParserUnique ==
  ASSUME NEW W, NEW s \in Seq(W), NEW f \in Parsers(s), IsParser(s, f),
         NEW h, h = [call \in Calls(s) |-> Ruled(h, s, call[1], call[2])]
  PROVE  h = f
<1> DEFINE bad == {w \in Nat : \E r \in Rules, k \in Parsed(s) :
                     Weight(s, r, k) = w /\ f[<<r, k>>] # h[<<r, k>>]}
<1>1. ASSUME NEW r \in Rules, NEW k \in Parsed(s)
      PROVE  h[<<r, k>>] = Ruled(h, s, r, k)
  <2>1. \A call \in Calls(s) : h[call] = Ruled(h, s, call[1], call[2])
    OBVIOUS
  <2>2. PICK call \in Calls(s) : call = <<r, k>> /\ call[1] = r /\ call[2] = k
    <3>1. <<r, k>> \in Calls(s)
      BY DEF Calls
    <3>2. QED
      BY <3>1
  <2>3. h[call] = Ruled(h, s, r, k)
    BY <2>1, <2>2
  <2>4. QED
    BY <2>2, <2>3
<1>2. bad = {}
  <2>1. SUFFICES ASSUME bad # {} PROVE FALSE
    OBVIOUS
  <2>2. PICK w \in bad : \A v \in bad : w <= v
    <3>1. bad \subseteq Nat
      OBVIOUS
    <3> HIDE DEF bad
    <3>2. QED
      BY <2>1, <3>1, LeastNat
  <2>3. PICK r \in Rules, k \in Parsed(s) : Weight(s, r, k) = w /\ f[<<r, k>>] # h[<<r, k>>]
    OBVIOUS
  <2>4. Agree(f, h, s, w)
    <3>1. ASSUME NEW r2 \in Rules, NEW k2 \in Parsed(s), Weight(s, r2, k2) < w
          PROVE  f[<<r2, k2>>] = h[<<r2, k2>>] /\ f[<<r2, k2>>].p >= k2.p
      <4>1. PICK v \in Nat : v = Weight(s, r2, k2)
        BY WeightIs DEF Weighs
      <4>2. v < w /\ w \in Nat
        BY <3>1, <4>1
      <4>3. ~(w <= v)
        BY <4>1, <4>2
      <4>4. v \notin bad
        BY <2>2, <4>3
      <4>5. f[<<r2, k2>>] = h[<<r2, k2>>]
        BY <4>1, <4>4
      <4>6. QED
        BY <4>5 DEF IsParser
    <3>2. QED
      BY <3>1 DEF Agree
  <2>5. Good(f, h, s, k, w, Ruled(f, s, r, k), Ruled(h, s, r, k))
    BY <2>3, RuledIs
  <2>6. f[<<r, k>>] = h[<<r, k>>]
    BY <1>1, <2>4, <2>5 DEF Good, IsParser
  <2>7. QED
    BY <2>3, <2>6
<1>3. ASSUME NEW r \in Rules, NEW k \in Parsed(s) PROVE f[<<r, k>>] = h[<<r, k>>]
  <2>1. PICK v \in Nat : v = Weight(s, r, k)
    BY WeightIs DEF Weighs
  <2>2. QED
    BY <1>2, <2>1
<1>4. ASSUME NEW call \in Calls(s) PROVE f[call] = h[call]
  <2>1. PICK r \in Rules, k \in Parsed(s) : call = <<r, k>>
    BY DEF Calls
  <2>2. QED
    BY <1>3, <2>1, Zenon
<1>5. DOMAIN h = Calls(s) /\ h = [call \in Calls(s) |-> h[call]] /\ f = [call \in Calls(s) |-> f[call]]
  BY DEF Parsers
<1>6. QED
  BY <1>4, <1>5

\* What the model of run_calc computes is what the parser returns.
LEMMA CalculatedIs ==
  ASSUME NEW W, NEW s \in Seq(W), NEW f \in Parsers(s), IsParser(s, f)
  PROVE  Calculated(s) = f[<<"cl_eval", From(1)>>]
<1> DEFINE E(h) == h = [call \in Calls(s) |-> Ruled(h, s, call[1], call[2])]
           h == CHOOSE x : E(x)
<1>1. E(f)
  <2>1. \A call \in Calls(s) : f[call] = Ruled(f, s, call[1], call[2])
    <3>1. ASSUME NEW call \in Calls(s) PROVE f[call] = Ruled(f, s, call[1], call[2])
      <4>1. PICK r \in Rules, k \in Parsed(s) : call = <<r, k>>
        BY DEF Calls
      <4>2. call[1] = r /\ call[2] = k
        BY <4>1
      <4>3. f[<<r, k>>] = Ruled(f, s, r, k)
        BY DEF IsParser
      <4>4. QED
        BY <4>1, <4>2, <4>3, Zenon
    <3>2. QED
      BY <3>1
  <2>2. f = [call \in Calls(s) |-> f[call]]
    BY DEF Parsers
  <2>3. QED
    BY <2>1, <2>2
<1>2. E(h)
  BY <1>1
<1>3. Calculated(s) = h[<<"cl_eval", From(1)>>]
  BY DEF Calculated, Calls
<1> HIDE DEF h
<1>4. h = f
  BY <1>2, ParserUnique
<1>5. QED
  BY <1>3, <1>4

-----------------------------------------------------------------------------
(* The calculator: the arithmetic of ints                                  *)

\* A number is its quotient and its remainder.
LEMMA DivIs ==
  ASSUME NEW x \in Int, NEW m \in Nat, m > 0
  PROVE  x = m * (x \div m) + (x % m) /\ x % m \in 0 .. m - 1 /\ x \div m \in Int
OBVIOUS

\* The quotient and the remainder, as one fact
Divides(x, m) == \E q \in Int, r \in 0 .. m - 1 : r = x % m /\ x = m * q + r

\* The same, with the quotient and the remainder as constants.
LEMMA Divided ==
  ASSUME NEW x \in Int, NEW m \in Nat, m > 0 PROVE Divides(x, m)
<1>1. PICK q : q = x \div m
  OBVIOUS
<1>2. PICK r : r = x % m
  OBVIOUS
<1>3. x = m * q + r /\ r \in 0 .. m - 1 /\ q \in Int
  BY <1>1, <1>2, DivIs
<1>4. QED
  BY <1>2, <1>3 DEF Divides

\* A multiple of a number is none nearer to 0 than the number.
LEMMA Times ==
  ASSUME NEW m \in Nat, NEW d \in Int
  PROVE  m * d \in Int /\ (d >= 1 => m * d >= m) /\ (d <= -1 => m * d <= -m)
OBVIOUS

\* A number has one remainder.
LEMMA OneRemainder ==
  ASSUME NEW m \in Nat, m > 0, NEW q \in Int, NEW r \in 0 .. m - 1,
         NEW q2 \in Int, NEW r2 \in 0 .. m - 1, m * q + r = m * q2 + r2
  PROVE  r = r2
<1>1. PICK d \in Int : d = q - q2
  OBVIOUS
<1>2. m * d = m * q - m * q2 /\ m * q \in Int /\ m * q2 \in Int
  BY <1>1
<1>3. PICK x \in Int : x = m * d /\ x = r2 - r
  BY <1>2
<1>4. x < m /\ x > -m
  BY <1>3
<1>5. ~(d >= 1) /\ ~(d <= -1)
  BY <1>3, <1>4, Times
<1>6. d = 0
  BY <1>5
<1>7. x = 0
  BY <1>3, <1>6
<1>8. QED
  BY <1>3, <1>7

\* An int is its number but for multiples of 2 * IntHalf ...
Wraps(n) == \E k \in Int : Int32(n) = n - (2 * IntHalf) * k

\* ... and this is how Int32 wraps.
LEMMA IntWraps ==
  ASSUME NEW n \in Int PROVE Wraps(n)
<1>1. PICK m \in Nat : m = 2 * IntHalf /\ m > 0
  BY HalfIs
<1>2. PICK x \in Int : x = n + IntHalf
  BY HalfIs
<1>3. PICK k \in Int, r \in 0 .. m - 1 : r = x % m /\ x = m * k + r
  BY <1>1, Divided DEF Divides
<1>4. Int32(n) = r - IntHalf
  BY <1>1, <1>2, <1>3 DEF Int32
<1>5. PICK a \in Int : a = m * k
  OBVIOUS
<1>6. Int32(n) = n - m * k
  <2>1. IntHalf \in Int /\ x = a + r
    BY <1>3, <1>5, HalfIs
  <2>2. Int32(n) = n - a
    BY <1>2, <1>4, <2>1
  <2>3. QED
    BY <1>5, <2>2
<1>7. QED
  BY <1>1, <1>6 DEF Wraps

\* ... and numbers that differ by such a multiple are the same int.
LEMMA SameInt ==
  ASSUME NEW a \in Int, NEW b \in Int, NEW k \in Int, a = b + (2 * IntHalf) * k
  PROVE  Int32(a) = Int32(b)
<1>1. PICK m \in Nat : m = 2 * IntHalf /\ m > 0
  BY HalfIs
<1>2. PICK x \in Int, y \in Int : x = a + IntHalf /\ y = b + IntHalf
  BY HalfIs
<1>3. PICK q \in Int, r \in 0 .. m - 1 : r = x % m /\ x = m * q + r
  BY <1>1, Divided DEF Divides
<1>4. PICK q2 \in Int, r2 \in 0 .. m - 1 : r2 = y % m /\ y = m * q2 + r2
  BY <1>1, Divided DEF Divides
<1>5. x = y + m * k
  BY <1>1, <1>2, HalfIs
<1>6. PICK e \in Int : e = q2 + k
  OBVIOUS
<1>7. m * e = m * q2 + m * k /\ m * q2 \in Int /\ m * k \in Int
  BY <1>6
<1>8. m * q + r = m * e + r2
  <2>1. PICK a1 \in Int, a2 \in Int, a3 \in Int, a4 \in Int :
          a1 = m * q /\ a2 = m * q2 /\ a3 = m * k /\ a4 = m * e
    OBVIOUS
  <2>2. x = a1 + r /\ y = a2 + r2 /\ x = y + a3 /\ a4 = a2 + a3
    BY <1>3, <1>4, <1>5, <1>7, <2>1
  <2>3. a1 + r = a4 + r2
    BY <2>2
  <2>4. QED
    BY <2>1, <2>3
<1>9. r = r2
  BY <1>1, <1>8, OneRemainder
<1>10. QED
  BY <1>1, <1>2, <1>3, <1>4, <1>9 DEF Int32

\* What fits is itself.
LEMMA IntFits ==
  ASSUME NEW n \in -IntHalf .. IntHalf - 1 PROVE Int32(n) = n
<1>1. PICK m \in Nat : m = 2 * IntHalf /\ m > 0
  BY HalfIs
<1>2. PICK x \in 0 .. m - 1 : x = n + IntHalf
  BY <1>1, HalfIs
<1>3. x % m = x
  BY <1>1
<1>4. QED
  BY <1>1, <1>2, <1>3, HalfIs DEF Int32

\* Digits may be added to what has wrapped, and a sign.
LEMMA IntDigit ==
  ASSUME NEW n \in Int, NEW d \in Int
  PROVE  Int32(Int32(n) * 10 + d) = Int32(n * 10 + d)
<1>1. PICK k \in Int : Int32(n) = n - (2 * IntHalf) * k
  BY IntWraps DEF Wraps
<1>2. PICK a \in Int : a = Int32(n) * 10 + d
  BY IntIs
<1>3. PICK b \in Int : b = n * 10 + d
  OBVIOUS
<1>4. PICK j \in Int : j = -10 * k
  OBVIOUS
<1>5. a = b + (2 * IntHalf) * j
  <2>1. PICK m \in Int : m = 2 * IntHalf
    BY HalfIs
  <2>2. m * j = -10 * (m * k) /\ m * k \in Int
    BY <1>4
  <2>3. QED
    BY <1>1, <1>2, <1>3, <2>1, <2>2
<1>6. Int32(a) = Int32(b)
  BY <1>5, SameInt
<1>7. QED
  BY <1>2, <1>3, <1>6

\* The sign of a number may be applied before it wraps or after.
LEMMA IntSigned ==
  ASSUME NEW n \in Int
  PROVE  Int32(Int32(n)) = Int32(n) /\ Int32(-Int32(n)) = Int32(-n)
<1>1. PICK k \in Int : Int32(n) = n - (2 * IntHalf) * k
  BY IntWraps DEF Wraps
<1>2. PICK a \in Int : a = Int32(n) /\ a \in -IntHalf .. IntHalf - 1
  BY IntIs
<1>3. Int32(a) = a
  BY <1>2, IntFits
<1>4. PICK b \in Int, c \in Int : b = -a /\ c = -n
  OBVIOUS
<1>5. b = c + (2 * IntHalf) * k
  <2>1. PICK m \in Int : m = (2 * IntHalf) * k
    BY HalfIs
  <2>2. QED
    BY <1>1, <1>2, <1>4, <2>1
<1>6. Int32(b) = Int32(c)
  BY <1>5, SameInt
<1>7. QED
  BY <1>2, <1>3, <1>4, <1>6

-----------------------------------------------------------------------------
(* The calculator: numerals                                                *)

\* A text of digits with k signs before them
Numeral(s, k) ==
  /\ k \in {0, 1} /\ Len(s) \in Nat /\ Len(s) > k
  /\ s[1] \in {"-", "+"} <=> k = 1
  /\ \A i \in k + 1 .. Len(s) : s[i] \in Digits

\* The number it stands for, digit by digit
StandsFor(s, k) ==
  \E f \in [0 .. Len(s) -> Int] :
    /\ f[k] = 0
    /\ \A i \in k + 1 .. Len(s) : f[i] = f[i - 1] * 10 + Value(s[i])
    /\ Stands(s) = IF s[1] = "-" THEN -f[Len(s)] ELSE f[Len(s)]

\* The recursion of Stands has a solution: a value after each digit.
LEMMA StandsIs ==
  ASSUME NEW s, NEW k, Numeral(s, k) PROVE StandsFor(s, k)
<1> DEFINE n == Len(s)
           signed == s[1] \in {"-", "+"}
<1>1. n \in Nat
  BY DEF Numeral
<1> DEFINE none(i) == i = 0 \/ (i = 1 /\ signed)
           E(v) == v = [i \in 0 .. n |-> IF none(i) THEN 0 ELSE 10 * v[i - 1] + Value(s[i])]
           g == [i \in 0 .. n |-> [v \in [0 .. n -> Int] |->
                  IF none(i) THEN 0 ELSE 10 * v[i - 1] + Value(s[i])]]
<1>2. Stands(s) = LET v == CHOOSE u : E(u) IN IF s[1] = "-" THEN -v[n] ELSE v[n]
  BY DEF Stands
<1>3. k \in {0, 1} /\ n > k /\ (signed <=> k = 1)
  BY <1>1 DEF Numeral
<1>4. \A i \in 0 .. n : (none(i) <=> i <= k) /\ (~none(i) => i \in k + 1 .. n /\ i - 1 \in 0 .. i - 1)
  BY <1>3
<1>5. ASSUME NEW i \in k + 1 .. n PROVE Value(s[i]) \in Int
  <2>1. s[i] \in Digits
    BY DEF Numeral
  <2>2. QED
    BY <2>1, ValueIs
<1> HIDE DEF none, n, signed
<1>6. ASSUME NEW i \in 0 .. n, NEW v \in [0 .. n -> Int]
      PROVE  (IF none(i) THEN 0 ELSE 10 * v[i - 1] + Value(s[i])) \in Int
  <2>1. CASE none(i)
    BY <2>1
  <2>2. CASE ~none(i)
    <3>1. i \in k + 1 .. n /\ i - 1 \in 0 .. n
      BY <1>1, <1>3, <1>4, <2>2
    <3>2. v[i - 1] \in Int /\ Value(s[i]) \in Int
      BY <1>5, <3>1
    <3>3. QED
      BY <2>2, <3>2
  <2>3. QED
    BY <2>1, <2>2
<1>7. g \in [0 .. n -> [[0 .. n -> Int] -> Int]]
  BY <1>6
<1>8. Follows(Int, 0, n, g)
  <2>1. ASSUME NEW i \in 0 .. n, NEW v \in [0 .. n -> Int], NEW w \in [0 .. n -> Int],
               \A j \in 0 .. i - 1 : v[j] = w[j]
        PROVE  g[i][v] = g[i][w]
    <3>1. none(i) \/ v[i - 1] = w[i - 1]
      BY <1>4, <2>1
    <3>2. QED
      BY <3>1
  <2>2. QED
    BY <2>1 DEF Follows
<1>9. PICK v \in [0 .. n -> Int] : \A i \in 0 .. n : v[i] = g[i][v]
  <2> HIDE DEF g
  <2>1. 0 \in Nat /\ 0 <= n + 1 /\ Int # {}
    BY <1>1
  <2>2. Defines(Int, 0, n, g)
    BY <1>1, <1>7, <1>8, <2>1, Defined
  <2>3. QED
    BY <2>2 DEF Defines
<1>10. \A i \in 0 .. n : v[i] = IF none(i) THEN 0 ELSE 10 * v[i - 1] + Value(s[i])
  BY <1>9
<1>11. E(v)
  BY <1>10
<1> DEFINE f == CHOOSE u : E(u)
<1>12. E(f)
  BY <1>11
<1>13. Stands(s) = IF s[1] = "-" THEN -f[n] ELSE f[n]
  BY <1>2
<1> HIDE DEF f
<1>14. f = [i \in 0 .. n |-> f[i]]
  BY <1>12
<1>15. \A i \in 0 .. n : f[i] = IF none(i) THEN 0 ELSE 10 * f[i - 1] + Value(s[i])
  BY <1>12
<1>16. f \in [0 .. n -> Int]
  <2>1. ASSUME NEW i \in 0 .. n, \A j \in 0 .. i - 1 : f[j] \in Int PROVE f[i] \in Int
    <3>1. CASE none(i)
      BY <1>15, <3>1
    <3>2. CASE ~none(i)
      <4>1. f[i - 1] \in Int /\ Value(s[i]) \in Int
        BY <1>4, <1>5, <2>1, <3>2
      <4>2. f[i] = 10 * f[i - 1] + Value(s[i])
        BY <1>15, <3>2
      <4>3. QED
        BY <4>1, <4>2
    <3>3. QED
      BY <3>1, <3>2
  <2>2. 0 \in Nat
    OBVIOUS
  <2>3. QED
    BY <1>1, <1>14, <2>1, <2>2, Inside
<1>17. f[k] = 0
  <2>1. k \in 0 .. n /\ none(k)
    BY <1>1, <1>3, <1>4
  <2>2. QED
    BY <1>15, <2>1
<1>18. ASSUME NEW i \in k + 1 .. n PROVE f[i] = f[i - 1] * 10 + Value(s[i])
  <2>1. i \in 0 .. n /\ ~none(i) /\ i - 1 \in 0 .. n
    BY <1>1, <1>3, <1>4
  <2>2. f[i - 1] \in Int /\ Value(s[i]) \in Int
    BY <1>5, <1>16, <2>1
  <2>3. f[i] = 10 * f[i - 1] + Value(s[i])
    BY <1>15, <2>1
  <2>4. QED
    BY <2>2, <2>3
<1>19. QED
  BY <1>13, <1>16, <1>17, <1>18 DEF StandsFor, n

\* A text occurs in another from p on.
Occurs(t, s, p) ==
  /\ p \in 1 .. Len(s) + 1 /\ Len(t) \in Nat /\ p + Len(t) \in p .. Len(s) + 1
  /\ \A i \in 1 .. Len(t) : s[p + i - 1] = t[i]

\* The characters of an expression that are no digits; none is a blank, which Skip passes.
Marks == {"(", ")", "+", "-", "*", "/"}

\* The marks of an expression are not digits, and none is a blank.
LEMMA MarksAre ==
  /\ Blank \notin Digits /\ Blank # "end" /\ Blank \notin Marks
  /\ \A d \in Digits : d \notin Marks
  /\ {"-", "+"} \subseteq Marks /\ "(" \in Marks
<1>1. Blank \notin Digits /\ Blank # "end"
  BY MarksDiffer, Zenon DEF Blank
<1>2. Blank # "(" /\ Blank # ")" /\ Blank # "+" /\ Blank # "-" /\ Blank # "*" /\ Blank # "/"
  BY Zenon DEF Blank
<1>3. \A d \in Digits : d \notin Marks
  BY MarksDiffer, Zenon DEF Marks
<1>4. QED
  BY <1>1, <1>2, <1>3 DEF Marks

\* Where no blank stands nothing is skipped.
LEMMA NoBlank ==
  ASSUME NEW W, NEW s \in Seq(W), NEW p \in 1 .. Len(s) + 1, At(s, p) # Blank
  PROVE  Skip(s, p) = p
<1>1. p \in p .. Len(s) + 1 /\ \A i \in p .. p - 1 : s[i] \in {Blank}
  <2>1. Len(s) \in Nat
    OBVIOUS
  <2>2. p \in Int /\ p <= Len(s) + 1
    BY <2>1
  <2>3. QED
    BY <2>1, <2>2
<1>2. At(s, p) \notin {Blank}
  OBVIOUS
<1>3. "end" \notin {Blank}
  BY Zenon DEF Blank
<1>4. Past(s, p, {Blank}) = p
  BY <1>1, <1>2, <1>3, PastAt
<1>5. QED
  BY <1>4, Zenon DEF Skip, Blank

\* The parser reads the numeral up to the first character that is none of it, and the
\* int is that of the number: wrapping at each digit comes to the same.
LEMMA NumeralRead ==
  ASSUME NEW W, NEW s \in Seq(W), NEW f, NEW t, NEW k, Numeral(t, k),
         NEW p, Occurs(t, s, p), NEW q, q = p + Len(t), At(s, q) \notin Digits
  PROVE  /\ cl_prim(f, s, p) = [v |-> Int32(Stands(t)), p |-> q, trap |-> FALSE]
         /\ Stands(t) \in Int
<1>1. PICK n \in Nat : n = Len(t) /\ n > k
  BY DEF Numeral
<1>2. p \in 1 .. Len(s) /\ q = p + n /\ q \in p + 1 .. Len(s) + 1 /\ k \in {0, 1} /\ Len(s) \in Nat
  BY <1>1 DEF Numeral, Occurs
<1>3. \A i \in 1 .. n : s[p + i - 1] = t[i]
  BY <1>1 DEF Occurs
<1>4. s[p] = t[1] /\ At(s, p) = s[p] /\ p \in 1 .. Len(s) + 1
  <2>1. 1 \in 1 .. n /\ p + 1 - 1 = p
    BY <1>1, <1>2
  <2>2. QED
    BY <1>2, <1>3, <2>1 DEF At
<1>5. \A i \in k + 1 .. n : t[i] \in Digits
  BY <1>1 DEF Numeral
<1>6. At(s, p) \in {"-", "+"} <=> k = 1
  BY <1>4 DEF Numeral
<1>7. At(s, p) # Blank /\ At(s, p) # "("
  <2>1. CASE k = 1
    <3>1. At(s, p) \in Marks /\ At(s, p) # "("
      BY <1>6, <2>1, MarksAre
    <3>2. QED
      BY <3>1, MarksAre
  <2>2. CASE k = 0
    <3>1. t[1] \in Digits
      BY <1>1, <1>5, <2>2
    <3>2. QED
      BY <1>4, <3>1, MarksAre
  <2>3. QED
    BY <1>2, <2>1, <2>2
<1>8. Skip(s, p) = p
  BY <1>4, <1>7, NoBlank
<1>9. IsSigned(f, s, p, p)
  BY <1>4, <1>7, <1>8, SignedIs
<1>10. PICK from \in p .. Len(s) + 1, v \in Int, end \in 1 .. Len(s) + 1 :
         /\ from = IF At(s, p) \in {"-", "+"} THEN p + 1 ELSE p
         /\ Number(s, Skip(s, from)) = Result(v, end, FALSE)
         /\ cl_prim(f, s, p) = [v |-> Int32(IF At(s, p) = "-" THEN -Int32(v) ELSE Int32(v)),
                                p |-> end, trap |-> FALSE]
  BY <1>9 DEF IsSigned
<1>11. from = p + k /\ from \in 1 .. Len(s) /\ from < q
  BY <1>1, <1>2, <1>6, <1>10
<1>12. \A i \in from .. q - 1 : s[i] \in Digits
  <2>1. ASSUME NEW i \in from .. q - 1 PROVE s[i] \in Digits
    <3>1. PICK j \in k + 1 .. n : i = p + j - 1
      <4>1. i - p + 1 \in k + 1 .. n /\ i = p + (i - p + 1) - 1
        BY <1>2, <1>11
      <4>2. QED
        BY <4>1
    <3>2. j \in 1 .. n
      BY <1>2
    <3>3. QED
      BY <1>3, <1>5, <3>1, <3>2
  <2>2. QED
    BY <2>1
<1>13. Skip(s, from) = from
  <2>1. from \in from .. q - 1
    BY <1>2, <1>11
  <2>2. s[from] \in Digits
    BY <1>12, <2>1
  <2>3. At(s, from) # Blank
    <3>1. At(s, from) = s[from]
      BY <1>11 DEF At
    <3>2. QED
      BY <2>2, <3>1, MarksAre
  <2>4. from \in 1 .. Len(s) + 1
    BY <1>11
  <2>5. QED
    BY <2>3, <2>4, NoBlank
<1>14. Past(s, from, Digits) = q
  <2>1. from \in 1 .. Len(s) + 1 /\ q \in from .. Len(s) + 1
    BY <1>2, <1>11
  <2>2. QED
    BY <1>12, <2>1, MarksDiffer, PastAt
<1>15. IsNumber(s, from, q)
  <2>1. from \in 1 .. Len(s) + 1
    BY <1>11
  <2>2. QED
    BY <1>14, <2>1, NumberIs
<1>16. PICK g \in [from - 1 .. q - 1 -> Int] :
         /\ g[from - 1] = 0
         /\ \A i \in from .. q - 1 : g[i] = Int32(g[i - 1] * 10 + Value(s[i]))
         /\ Number(s, from) = Result(g[q - 1], q, FALSE)
  BY <1>15 DEF IsNumber
<1>17. PICK h \in [0 .. n -> Int] :
         /\ h[k] = 0
         /\ \A i \in k + 1 .. n : h[i] = h[i - 1] * 10 + Value(t[i])
         /\ Stands(t) = IF t[1] = "-" THEN -h[n] ELSE h[n]
  BY <1>1, StandsIs DEF StandsFor
<1> DEFINE G == {j \in 0 .. n - k : g[p + (k + j) - 1] = Int32(h[k + j])}
<1>18. 0 \in G
  <2>1. k + 0 = k /\ p + k - 1 = from - 1 /\ 0 \in 0 .. n - k
    BY <1>1, <1>2, <1>11
  <2>2. Int32(0) = 0
    <3>1. 0 \in -IntHalf .. IntHalf - 1
      BY HalfIs
    <3>2. QED
      BY <3>1, IntFits
  <2>3. QED
    BY <1>16, <1>17, <2>1, <2>2
<1>19. ASSUME NEW j \in 1 .. n - k, j - 1 \in G PROVE j \in G
  <2>1. PICK i : i = p + (k + j) - 1
    OBVIOUS
  <2>2. PICK m : m = k + j
    OBVIOUS
  <2>3. /\ i \in from .. q - 1 /\ m \in k + 1 .. n /\ m \in 1 .. n /\ i = p + m - 1
        /\ m - 1 = k + (j - 1) /\ i - 1 = p + (k + (j - 1)) - 1 /\ m - 1 \in 0 .. n
    BY <1>1, <1>2, <1>11, <2>1, <2>2
  <2>4. g[i] = Int32(g[i - 1] * 10 + Value(s[i]))
    BY <1>16, <2>3
  <2>5. g[i - 1] = Int32(h[m - 1])
    BY <1>19, <2>3
  <2>6. h[m] = h[m - 1] * 10 + Value(t[m])
    BY <1>17, <2>3
  <2>7. s[i] = t[m]
    BY <1>3, <2>3
  <2>8. PICK d \in Int : d = Value(t[m])
    <3>1. t[m] \in Digits
      BY <1>5, <2>3
    <3>2. Value(t[m]) \in 0 .. 9
      BY <3>1, ValueIs
    <3>3. \A e \in 0 .. 9 : e \in Int
      OBVIOUS
    <3>4. QED
      BY <3>2, <3>3, Zenon
  <2>9. PICK x \in Int : x = h[m - 1]
    BY <2>3
  <2>10. Int32(Int32(x) * 10 + d) = Int32(x * 10 + d)
    BY <2>8, <2>9, IntDigit
  <2>11. g[i] = Int32(h[m])
    BY <2>4, <2>5, <2>6, <2>7, <2>8, <2>9, <2>10
  <2>12. QED
    BY <2>1, <2>2, <2>11
<1>20. g[q - 1] = Int32(h[n])
  <2>1. PICK d : d = n - k /\ d \in Nat
    BY <1>1, <1>2
  <2> HIDE DEF G
  <2>2. \A j \in 1 .. d : j - 1 \in G => j \in G
    BY <1>19, <2>1
  <2>3. 0 .. d \subseteq G
    BY <1>18, <2>1, <2>2, UpTo
  <2>4. d \in G
    BY <2>1, <2>3
  <2>5. k + d = n /\ p + n - 1 = q - 1
    BY <1>1, <1>2, <2>1
  <2>6. QED
    BY <2>4, <2>5 DEF G
<1>21. PICK x \in Int : x = h[n]
  BY <1>1
<1>22. Int32(v) = Int32(x) /\ end = q
  <2>1. Result(v, end, FALSE) = Result(Int32(x), q, FALSE)
    BY <1>10, <1>13, <1>16, <1>20, <1>21
  <2>2. Int32(v) = Int32(Int32(x)) /\ end = q
    BY <2>1 DEF Result
  <2>3. QED
    BY <2>2, IntSigned
<1>23. Stands(t) \in Int
  BY <1>17, <1>21
<1>24. Int32(IF At(s, p) = "-" THEN -Int32(v) ELSE Int32(v)) = Int32(Stands(t))
  <2>1. CASE t[1] = "-"
    <3>1. Int32(-Int32(x)) = Int32(-x) /\ Stands(t) = -x
      BY <1>17, <1>21, <2>1, IntSigned
    <3>2. QED
      BY <1>4, <1>22, <2>1, <3>1
  <2>2. CASE t[1] # "-"
    <3>1. Int32(Int32(x)) = Int32(x) /\ Stands(t) = x
      BY <1>17, <1>21, <2>2, IntSigned
    <3>2. QED
      BY <1>4, <1>22, <2>2, <3>1
  <2>3. QED
    BY <2>1, <2>2
<1>25. QED
  BY <1>10, <1>22, <1>23, <1>24

-----------------------------------------------------------------------------
(* The calculator: the texts and the values of trees                       *)

\* A node that is an operator
Operation(t, i) == t.op \in Operators /\ t.l \in 1 .. i - 1 /\ t.r \in 1 .. i - 1 /\ t.op # "num"

\* A node that is the unary minus of a group
Negation(t, i) == t.op = "neg" /\ t.l \in 1 .. i - 1

\* The kinds of a node
Kinds(t, i) == (Leaf(t) /\ t.op = "num") \/ Operation(t, i) \/ Negation(t, i)

\* A node is a leaf or it has operands before it.
LEMMA NodeIs ==
  /\ Len(Trees) \in Nat /\ DOMAIN Trees = 1 .. Len(Trees)
  /\ \A i \in 1 .. Len(Trees) :
       (Leaf(Trees[i]) /\ Trees[i].op = "num") \/ Operation(Trees[i], i) \/ Negation(Trees[i], i)
<1>1. Len(Trees) \in Nat /\ DOMAIN Trees = 1 .. Len(Trees)
  <2>1. PICK S : Trees \in Seq(S)
    BY TreesAssumption
  <2>2. QED
    BY <2>1
<1>2. ASSUME NEW i \in 1 .. Len(Trees)
      PROVE  Kinds(Trees[i], i)
  <2>1. PICK t : t = Trees[i]
    OBVIOUS
  <2>2. \/ Leaf(t) \/ t \in [op : Operators, l : 1 .. i - 1, r : 1 .. i - 1]
        \/ t \in [op : {"neg"}, l : 1 .. i - 1]
    BY <1>1, <2>1, TreesAssumption
  <2>3. t \in [op : Operators, l : 1 .. i - 1, r : 1 .. i - 1] =>
          t.op \in Operators /\ t.l \in 1 .. i - 1 /\ t.r \in 1 .. i - 1
    OBVIOUS
  <2>4. \A op \in Operators : op # "num"
    BY DEF Operators
  <2>5. t \in [op : {"neg"}, l : 1 .. i - 1] => t.op = "neg" /\ t.l \in 1 .. i - 1
    OBVIOUS
  <2>6. QED
    BY <2>1, <2>2, <2>3, <2>4, <2>5 DEF Leaf, Operation, Negation, Kinds
<1>3. QED
  BY <1>1, <1>2 DEF Kinds

\* The text c is a and then b.
Joins(S, a, b, c) ==
  /\ c \in Seq(S) /\ Len(c) = Len(a) + Len(b)
  /\ Len(a) \in Nat /\ Len(b) \in Nat
  /\ \A i \in 1 .. Len(a) : c[i] = a[i]
  /\ \A i \in 1 .. Len(b) : c[Len(a) + i] = b[i]

\* A text that is put together has the characters of its parts.
LEMMA Joined ==
  ASSUME NEW S, NEW a \in Seq(S), NEW b \in Seq(S), NEW c, c = a \o b
  PROVE  Joins(S, a, b, c)
<1>1. /\ a \o b \in Seq(S) /\ Len(a \o b) = Len(a) + Len(b)
      /\ Len(a) \in Nat /\ Len(b) \in Nat
      /\ \A i \in 1 .. Len(a) : (a \o b)[i] = a[i]
      /\ \A i \in 1 .. Len(b) : (a \o b)[Len(a) + i] = b[i]
  OBVIOUS
<1>2. QED
  BY <1>1 DEF Joins

\* A text of one character; and the characters of an expression
One(c) == <<c>>

\* A text of one character.
LEMMA OneIs ==
  ASSUME NEW S, NEW c \in S PROVE One(c) \in Seq(S) /\ Len(One(c)) = 1 /\ One(c)[1] = c
BY DEF One

Chars == Digits \cup Marks
\* The texts of an operand and of an operator
Opened(x) == One("(") \o x
Closed(x) == Opened(x) \o One(")")
Side(f, j, bind) == IF Binds(Trees[j]) < bind THEN Closed(f[j]) ELSE f[j]
Between(x, op, y) == (x \o One(op)) \o y

\* What Text is at a node, of what it is at the operands
Texted(f, i) ==
  IF Trees[i].op = "num" THEN Trees[i].sign \o Trees[i].digits
  ELSE IF Trees[i].op = "neg" THEN One("-") \o Side(f, Trees[i].l, 4)
  ELSE Between(Side(f, Trees[i].l, Binds(Trees[i])), Trees[i].op,
               Side(f, Trees[i].r, Binds(Trees[i]) + 1))

\* This is the body of the definition of Text.
LEMMA TextedIs ==
  ASSUME NEW f, NEW i
  PROVE  Texted(f, i) =
           LET t == Trees[i]
               Within(j, bind) == IF Binds(Trees[j]) < bind THEN <<"(">> \o f[j] \o <<")">> ELSE f[j]
           IN  IF t.op = "num" THEN t.sign \o t.digits
               ELSE IF t.op = "neg" THEN <<"-">> \o Within(t.l, 4)
               ELSE Within(t.l, Binds(t)) \o <<t.op>> \o Within(t.r, Binds(t) + 1)
BY Zenon DEF Texted, Between, Side, Closed, Opened, One

\* An expression is not empty and has no blanks.
IsText(x) == x \in Seq(Chars) /\ Len(x) \in Nat \ {0}

\* A text in parentheses is a text.
LEMMA ClosedIs == ASSUME NEW x, IsText(x) PROVE IsText(Closed(x))
<1>1. "(" \in Chars /\ ")" \in Chars
  BY DEF Chars, Marks
<1>2. PICK a : a = One("(") /\ a \in Seq(Chars) /\ Len(a) = 1
  BY <1>1, OneIs
<1>3. PICK b : b = One(")") /\ b \in Seq(Chars) /\ Len(b) = 1
  BY <1>1, OneIs
<1>4. PICK c : c = a \o x
  OBVIOUS
<1>4a. c \in Seq(Chars) /\ Len(c) = 1 + Len(x)
  <2>1. x \in Seq(Chars)
    BY DEF IsText
  <2>2. Joins(Chars, a, x, c)
    BY <1>2, <1>4, <2>1, Joined
  <2>3. QED
    BY <1>2, <2>2 DEF Joins
<1>5. PICK d : d = c \o b
  OBVIOUS
<1>5a. d \in Seq(Chars) /\ Len(d) = Len(c) + 1
  <2>1. Joins(Chars, c, b, d)
    BY <1>3, <1>4a, <1>5, Joined
  <2>2. QED
    BY <1>3, <2>1 DEF Joins
<1>6. d = Closed(x)
  BY <1>2, <1>3, <1>4, <1>5 DEF Closed, Opened
<1>7. Len(x) \in Nat
  BY DEF IsText
<1>8. QED
  BY <1>4a, <1>5a, <1>6, <1>7 DEF IsText

\* Two texts with an operator between them are a text.
LEMMA BetweenIs ==
  ASSUME NEW x, IsText(x), NEW y, IsText(y), NEW op \in Chars PROVE IsText(Between(x, op, y))
<1>1. PICK b : b = One(op) /\ b \in Seq(Chars) /\ Len(b) = 1
  BY OneIs
<1>2. PICK c : c = x \o b
  OBVIOUS
<1>2a. c \in Seq(Chars) /\ Len(c) = Len(x) + 1
  <2>1. x \in Seq(Chars)
    BY DEF IsText
  <2>2. Joins(Chars, x, b, c)
    BY <1>1, <1>2, <2>1, Joined
  <2>3. QED
    BY <1>1, <2>2 DEF Joins
<1>3. PICK d : d = c \o y
  OBVIOUS
<1>3a. d \in Seq(Chars) /\ Len(d) = Len(c) + Len(y)
  <2>1. y \in Seq(Chars)
    BY DEF IsText
  <2>2. Joins(Chars, c, y, d)
    BY <1>2a, <1>3, <2>1, Joined
  <2>3. QED
    BY <2>2 DEF Joins
<1>4. d = Between(x, op, y)
  BY <1>1, <1>2, <1>3 DEF Between
<1>5. Len(x) \in Nat /\ Len(y) \in Nat
  BY DEF IsText
<1>6. QED
  BY <1>2a, <1>3a, <1>4, <1>5 DEF IsText

\* A text after a minus is a text.
LEMMA MinusIs == ASSUME NEW x, IsText(x) PROVE IsText(One("-") \o x)
<1>1. "-" \in Chars
  BY DEF Chars, Marks
<1>2. PICK b : b = One("-") /\ b \in Seq(Chars) /\ Len(b) = 1
  BY <1>1, OneIs
<1>3. PICK c : c = b \o x
  OBVIOUS
<1>4. x \in Seq(Chars) /\ Len(x) \in Nat
  BY DEF IsText
<1>5. Joins(Chars, b, x, c)
  BY <1>2, <1>3, <1>4, Joined
<1>6. QED
  BY <1>2, <1>3, <1>4, <1>5 DEF Joins, IsText

\* A leaf's text is a numeral.
LEMMA LeafIs ==
  ASSUME NEW t, Leaf(t), NEW x, x = t.sign \o t.digits
  PROVE  Numeral(x, Len(t.sign)) /\ IsText(x)
<1>1. PICK a : a = t.sign /\ a \in {<<>>, <<"-">>, <<"+">>}
  BY DEF Leaf
<1>2. /\ a \in Seq(Chars) /\ Len(a) \in {0, 1}
      /\ Len(a) = 1 => a[1] \in {"-", "+"}
  <2>1. "-" \in Chars /\ "+" \in Chars
    BY DEF Chars, Marks
  <2>2. CASE a = <<>>
    BY <2>2
  <2>3. CASE a = <<"-">>
    <3>1. a = One("-")
      BY <2>3 DEF One
    <3>2. QED
      BY <2>1, <3>1, OneIs
  <2>4. CASE a = <<"+">>
    <3>1. a = One("+")
      BY <2>4 DEF One
    <3>2. QED
      BY <2>1, <3>1, OneIs
  <2>5. QED
    BY <1>1, <2>2, <2>3, <2>4
<1>3. PICK b \in Seq(Digits) : b = t.digits /\ b # <<>>
  BY DEF Leaf
<1>4. Len(b) \in Nat /\ Len(b) > 0 /\ \A i \in 1 .. Len(b) : b[i] \in Digits
  BY <1>3
<1>5. b \in Seq(Chars)
  <2>1. Digits \subseteq Chars
    BY DEF Chars
  <2>2. QED
    BY <2>1
<1>6a. PICK c : c = a \o b
  OBVIOUS
<1>6. /\ c \in Seq(Chars) /\ Len(c) = Len(a) + Len(b)
      /\ \A i \in 1 .. Len(a) : c[i] = a[i]
      /\ \A i \in 1 .. Len(b) : c[Len(a) + i] = b[i]
  BY <1>2, <1>5, <1>6a, Joined DEF Joins
<1>7. PICK k \in {0, 1} : k = Len(a)
  BY <1>2
<1>8. PICK n \in Nat : n = Len(b) /\ n > 0
  BY <1>4
<1>9. \A i \in k + 1 .. k + n : c[i] \in Digits
  <2>1. ASSUME NEW i \in k + 1 .. k + n PROVE c[i] \in Digits
    <3>1. PICK j : j = i - k
      OBVIOUS
    <3>2. j \in 1 .. n /\ k + j = i
      BY <1>8, <3>1
    <3>3. QED
      BY <1>4, <1>6, <1>7, <1>8, <3>2
  <2>2. QED
    BY <2>1
<1>10. c[1] \in {"-", "+"} <=> k = 1
  <2>1. CASE k = 1
    BY <1>2, <1>6, <1>7, <2>1
  <2>2. CASE k = 0
    <3>1. c[1] \in Digits
      BY <1>8, <1>9, <2>2
    <3>2. QED
      BY <2>2, <3>1, MarksAre
  <2>3. QED
    BY <2>1, <2>2
<1>11. x = c /\ Len(c) = k + n
  BY <1>1, <1>3, <1>6, <1>6a, <1>7, <1>8
<1>12. QED
  BY <1>1, <1>6, <1>7, <1>8, <1>9, <1>10, <1>11 DEF Numeral, IsText

\* The texts of the nodes are what the definition of Text says.
TextAt(i) == IsText(Text[i]) /\ Text[i] = Texted(Text, i)

\* An operand is a text, in parentheses or not.
LEMMA SideIs ==
  ASSUME NEW f, NEW j, NEW bind, IsText(f[j]) PROVE IsText(Side(f, j, bind))
BY ClosedIs DEF Side

\* The text of a node is one if those of its operands are.
LEMMA TextedOf ==
  ASSUME NEW i \in 1 .. Len(Trees), NEW f,
         Operation(Trees[i], i) => IsText(f[Trees[i].l]) /\ IsText(f[Trees[i].r]),
         Negation(Trees[i], i) => IsText(f[Trees[i].l])
  PROVE  IsText(Texted(f, i))
<1>1. CASE Leaf(Trees[i]) /\ Trees[i].op = "num"
  BY <1>1, LeafIs DEF Texted
<1>2. CASE Operation(Trees[i], i)
  <2>1. PICK x : x = Side(f, Trees[i].l, Binds(Trees[i])) /\ IsText(x)
    BY <1>2, SideIs
  <2>2. PICK y : y = Side(f, Trees[i].r, Binds(Trees[i]) + 1) /\ IsText(y)
    BY <1>2, SideIs
  <2>3. Trees[i].op \in Chars /\ Trees[i].op # "num" /\ Trees[i].op # "neg"
    BY <1>2 DEF Operation, Operators, Chars, Marks
  <2>4. Texted(f, i) = Between(x, Trees[i].op, y)
    BY <2>1, <2>2, <2>3 DEF Texted
  <2>5. QED
    BY <2>1, <2>2, <2>3, <2>4, BetweenIs
<1>3. CASE Negation(Trees[i], i)
  <2>1. PICK x : x = Side(f, Trees[i].l, 4) /\ IsText(x)
    BY <1>3, SideIs
  <2>2. Texted(f, i) = One("-") \o x
    BY <1>3, <2>1 DEF Texted, Negation
  <2>3. QED
    BY <2>1, <2>2, MinusIs
<1>4. QED
  BY <1>1, <1>2, <1>3, NodeIs

\* Both recursive functions over the nodes look at operands only.
LEMMA SameTexted ==
  ASSUME NEW i \in 1 .. Len(Trees), NEW f, NEW h, \A j \in 1 .. i - 1 : f[j] = h[j]
  PROVE  Texted(f, i) = Texted(h, i)
<1>1. CASE Trees[i].op = "num"
  BY <1>1 DEF Texted
<1>2. CASE Operation(Trees[i], i)
  <2>1. f[Trees[i].l] = h[Trees[i].l] /\ f[Trees[i].r] = h[Trees[i].r]
    BY <1>2 DEF Operation
  <2>2. QED
    BY <2>1, Zenon DEF Texted, Side
<1>3. CASE Negation(Trees[i], i)
  <2>1. f[Trees[i].l] = h[Trees[i].l] /\ Trees[i].op = "neg" /\ Trees[i].op # "num"
    BY <1>3 DEF Negation
  <2>2. QED
    BY <2>1, Zenon DEF Texted, Side
<1>4. QED
  BY <1>1, <1>2, <1>3, NodeIs

\* The expressions, as a set
SomeTexts == {x \in Seq(Chars) : IsText(x)}

\* The recursion of Text has a solution, for each operand comes before its operator.
LEMMA TextIs == \A i \in 1 .. Len(Trees) : TextAt(i)
<1> DEFINE E(v) == v = [i \in DOMAIN Trees |-> Texted(v, i)]
           n == Len(Trees)
           g == [i \in 1 .. n |-> [v \in [1 .. n -> SomeTexts] |-> Texted(v, i)]]
<1>1. n \in Nat /\ DOMAIN Trees = 1 .. n
  BY NodeIs
<1>2. \A x : IsText(x) <=> x \in SomeTexts
  BY DEF SomeTexts, IsText
<1>3. ASSUME NEW i \in 1 .. n, NEW v, \A j \in 1 .. i - 1 : v[j] \in SomeTexts
      PROVE  Texted(v, i) \in SomeTexts
  <2>1. /\ Operation(Trees[i], i) => IsText(v[Trees[i].l]) /\ IsText(v[Trees[i].r])
        /\ Negation(Trees[i], i) => IsText(v[Trees[i].l])
    BY <1>2, <1>3 DEF Operation, Negation
  <2>2. IsText(Texted(v, i))
    BY <2>1, TextedOf
  <2>3. QED
    BY <1>2, <2>2
<1> HIDE DEF n
<1>4. g \in [1 .. n -> [[1 .. n -> SomeTexts] -> SomeTexts]]
  <2>1. ASSUME NEW i \in 1 .. n, NEW v \in [1 .. n -> SomeTexts] PROVE Texted(v, i) \in SomeTexts
    <3>1. \A j \in 1 .. i - 1 : v[j] \in SomeTexts
      BY <1>1
    <3>2. QED
      BY <1>3, <3>1
  <2>2. QED
    BY <2>1
<1>5. Follows(SomeTexts, 1, n, g)
  <2>1. ASSUME NEW i \in 1 .. n, NEW v \in [1 .. n -> SomeTexts], NEW w \in [1 .. n -> SomeTexts],
               \A j \in 1 .. i - 1 : v[j] = w[j]
        PROVE  g[i][v] = g[i][w]
    <3>1. Texted(v, i) = Texted(w, i)
      BY <2>1, SameTexted DEF n
    <3>2. QED
      BY <3>1
  <2>2. QED
    BY <2>1 DEF Follows
<1>6. PICK v \in [1 .. n -> SomeTexts] : \A i \in 1 .. n : v[i] = g[i][v]
  <2> HIDE DEF g
  <2>1. 1 \in Nat /\ 1 <= n + 1 /\ SomeTexts # {}
    <3>1. "(" \in Chars
      BY DEF Chars, Marks
    <3>2. One("(") \in SomeTexts
      BY <3>1, <1>2, OneIs DEF IsText
    <3>3. QED
      BY <1>1, <3>2
  <2>2. Defines(SomeTexts, 1, n, g)
    BY <1>1, <1>4, <1>5, <2>1, Defined
  <2>3. QED
    BY <2>2 DEF Defines
<1>7. E(v)
  <2>1. \A i \in 1 .. n : v[i] = Texted(v, i)
    BY <1>6
  <2>2. v = [i \in 1 .. n |-> v[i]]
    OBVIOUS
  <2>3. QED
    BY <1>1, <2>1, <2>2
<1> DEFINE f == CHOOSE u : E(u)
<1>8. E(f)
  BY <1>7
<1>9. Text = f
  <2> DEFINE D(u) == u = [i \in DOMAIN Trees |->
               LET t == Trees[i]
                   Within(j, bind) == IF Binds(Trees[j]) < bind THEN <<"(">> \o u[j] \o <<")">> ELSE u[j]
               IN  IF t.op = "num" THEN t.sign \o t.digits
                   ELSE IF t.op = "neg" THEN <<"-">> \o Within(t.l, 4)
                   ELSE Within(t.l, Binds(t)) \o <<t.op>> \o Within(t.r, Binds(t) + 1)]
  <2>1. \A u : E(u) <=> D(u)
    BY TextedIs, Zenon
  <2>2. (CHOOSE u : E(u)) = CHOOSE u : D(u)
    <3> HIDE DEF E, D
    <3>1. QED
      BY <2>1
  <2>3. Text = CHOOSE u : D(u)
    BY DEF Text
  <2>4. QED
    BY <2>2, <2>3
<1> HIDE DEF f
<1>10. f = [i \in 1 .. n |-> f[i]] /\ \A i \in 1 .. n : f[i] = Texted(f, i)
  BY <1>1, <1>8
<1>11. f \in [1 .. n -> SomeTexts]
  <2>1. \A i \in 1 .. n : (\A j \in 1 .. i - 1 : f[j] \in SomeTexts) => f[i] \in SomeTexts
    BY <1>3, <1>10 DEF n
  <2>2. QED
    BY <1>1, <1>10, <2>1, Inside
<1>12. QED
  BY <1>2, <1>9, <1>10, <1>11 DEF n, TextAt

\* What Meant is at a node, of what it is at the operands
Valued(f, i) ==
  IF Trees[i].op = "num"
    THEN [v |-> Int32(Stands(Trees[i].sign \o Trees[i].digits)), trap |-> FALSE, plain |-> TRUE]
  ELSE IF Trees[i].op = "neg"
    THEN [v |-> Int32(-f[Trees[i].l].v), trap |-> f[Trees[i].l].trap, plain |-> FALSE]
  ELSE [v |-> Int32(Applied(Trees[i].op, f[Trees[i].l].v, f[Trees[i].r].v)),
        trap |-> f[Trees[i].l].trap \/ f[Trees[i].r].trap
                 \/ Overflows(Trees[i].op, f[Trees[i].l].v, f[Trees[i].r].v),
        plain |-> f[Trees[i].l].plain /\ f[Trees[i].r].plain]

\* This is the body of the definition of Meant.
LEMMA ValuedIs ==
  ASSUME NEW f, NEW i
  PROVE  Valued(f, i) =
           LET t == Trees[i]
               l == f[t.l]
               r == f[t.r]
           IN  IF t.op = "num"
                 THEN [v |-> Int32(Stands(t.sign \o t.digits)), trap |-> FALSE, plain |-> TRUE]
               ELSE IF t.op = "neg" THEN [v |-> Int32(-l.v), trap |-> l.trap, plain |-> FALSE]
               ELSE [v |-> Int32(CASE t.op = "+" -> l.v + r.v [] t.op = "-" -> l.v - r.v
                                   [] t.op = "*" -> l.v * r.v
                                   [] t.op = "/" -> IF r.v = 0 THEN 0 ELSE Truncated(l.v, r.v)),
                     trap |-> l.trap \/ r.trap \/ (t.op = "/" /\ l.v = -IntHalf /\ r.v = -1),
                     plain |-> l.plain /\ r.plain]
BY Zenon DEF Valued, Applied, Overflows

\* What trees may mean
Values == [v : -IntHalf .. IntHalf - 1, trap : BOOLEAN, plain : BOOLEAN]

\* The value of a node is one if those of its operands are.
LEMMA ValuedOf ==
  ASSUME NEW i \in 1 .. Len(Trees), NEW f,
         Operation(Trees[i], i) => f[Trees[i].l] \in Values /\ f[Trees[i].r] \in Values,
         Negation(Trees[i], i) => f[Trees[i].l] \in Values
  PROVE  Valued(f, i) \in Values
<1>1. CASE Leaf(Trees[i]) /\ Trees[i].op = "num"
  <2>1. PICK x : x = Trees[i].sign \o Trees[i].digits
    OBVIOUS
  <2>2. PICK k : Numeral(x, k)
    BY <1>1, <2>1, LeafIs
  <2>3. PICK h \in [0 .. Len(x) -> Int] : Stands(x) = IF x[1] = "-" THEN -h[Len(x)] ELSE h[Len(x)]
    BY <2>2, StandsIs DEF StandsFor
  <2>4. h[Len(x)] \in Int
    <3>1. Len(x) \in 0 .. Len(x)
      BY <2>2 DEF Numeral
    <3>2. QED
      BY <3>1
  <2>5. Stands(x) \in Int
    BY <2>3, <2>4
  <2>6. Int32(Stands(x)) \in -IntHalf .. IntHalf - 1
    BY <2>5, IntIs
  <2>7. [v |-> Int32(Stands(x)), trap |-> FALSE, plain |-> TRUE] \in Values
    BY <2>6 DEF Values
  <2>8. Valued(f, i) = [v |-> Int32(Stands(x)), trap |-> FALSE, plain |-> TRUE]
    BY <1>1, <2>1, Zenon DEF Valued
  <2>9. QED
    BY <2>7, <2>8
<1>2. CASE Operation(Trees[i], i)
  <2>1. PICK op, l, r : op = Trees[i].op /\ l = f[Trees[i].l] /\ r = f[Trees[i].r]
    OBVIOUS
  <2>2. op \in {"+", "-", "*", "/"} /\ op # "num" /\ op # "neg" /\ l \in Values /\ r \in Values
    BY <1>2, <2>1 DEF Operation, Operators
  <2>3. PICK a : a = Applied(op, l.v, r.v)
    OBVIOUS
  <2>4. a \in Int
    <3>1. l.v \in Int /\ r.v \in Int
      BY <2>2 DEF Values
    <3>2. QED
      BY <2>2, <2>3, <3>1, AppliedIs
  <2>5. PICK trap : trap = (l.trap \/ r.trap \/ Overflows(op, l.v, r.v)) /\ trap \in BOOLEAN
    OBVIOUS
  <2>6. PICK plain : plain = (l.plain /\ r.plain) /\ plain \in BOOLEAN
    OBVIOUS
  <2>7. Valued(f, i) = [v |-> Int32(a), trap |-> trap, plain |-> plain]
    BY <2>1, <2>2, <2>3, <2>5, <2>6, Zenon DEF Valued
  <2>8. Int32(a) \in -IntHalf .. IntHalf - 1
    BY <2>4, IntIs
  <2>9. QED
    BY <2>5, <2>6, <2>7, <2>8 DEF Values
<1>3. CASE Negation(Trees[i], i)
  <2>1. PICK l \in Values : l = f[Trees[i].l]
    BY <1>3
  <2>2. l.v \in -IntHalf .. IntHalf - 1 /\ l.trap \in BOOLEAN
    BY <2>1 DEF Values
  <2>3. Int32(-l.v) \in -IntHalf .. IntHalf - 1
    <3>1. PICK m \in Int : m = -l.v
      BY <2>2, HalfIs
    <3>2. Int32(m) \in -IntHalf .. IntHalf - 1
      BY IntIs
    <3>3. QED
      BY <3>1, <3>2
  <2>4. Trees[i].op = "neg" /\ Trees[i].op # "num"
    BY <1>3 DEF Negation
  <2>5. Valued(f, i) = [v |-> Int32(-l.v), trap |-> l.trap, plain |-> FALSE]
    BY <2>1, <2>4, Zenon DEF Valued
  <2>6. QED
    BY <2>2, <2>3, <2>5 DEF Values
<1>4. QED
  BY <1>1, <1>2, <1>3, NodeIs

\* It follows from the values of nodes that come before.
LEMMA SameValued ==
  ASSUME NEW i \in 1 .. Len(Trees), NEW f, NEW h, \A j \in 1 .. i - 1 : f[j] = h[j]
  PROVE  Valued(f, i) = Valued(h, i)
<1>1. CASE Trees[i].op = "num"
  BY <1>1 DEF Valued
<1>2. CASE Operation(Trees[i], i)
  <2>1. f[Trees[i].l] = h[Trees[i].l] /\ f[Trees[i].r] = h[Trees[i].r]
    BY <1>2 DEF Operation
  <2>2. QED
    BY <2>1, Zenon DEF Valued
<1>3. CASE Negation(Trees[i], i)
  <2>1. f[Trees[i].l] = h[Trees[i].l] /\ Trees[i].op = "neg" /\ Trees[i].op # "num"
    BY <1>3 DEF Negation
  <2>2. QED
    BY <2>1, Zenon DEF Valued
<1>4. QED
  BY <1>1, <1>2, <1>3, NodeIs

\* The values of the nodes are what the definition of Meant says.
ValueAt(i) == Meant[i] \in Values /\ Meant[i] = Valued(Meant, i)

\* The recursion of Meant has a solution, too.
LEMMA MeantIs == \A i \in 1 .. Len(Trees) : ValueAt(i)
<1> DEFINE E(v) == v = [i \in DOMAIN Trees |-> Valued(v, i)]
           n == Len(Trees)
           g == [i \in 1 .. n |-> [v \in [1 .. n -> Values] |-> Valued(v, i)]]
<1>1. n \in Nat /\ DOMAIN Trees = 1 .. n
  BY NodeIs
<1>3. ASSUME NEW i \in 1 .. n, NEW v, \A j \in 1 .. i - 1 : v[j] \in Values
      PROVE  Valued(v, i) \in Values
  <2>1. /\ Operation(Trees[i], i) => v[Trees[i].l] \in Values /\ v[Trees[i].r] \in Values
        /\ Negation(Trees[i], i) => v[Trees[i].l] \in Values
    BY <1>3 DEF Operation, Negation
  <2>2. QED
    BY <2>1, ValuedOf
<1> HIDE DEF n
<1>4. g \in [1 .. n -> [[1 .. n -> Values] -> Values]]
  <2>1. ASSUME NEW i \in 1 .. n, NEW v \in [1 .. n -> Values] PROVE Valued(v, i) \in Values
    <3>1. \A j \in 1 .. i - 1 : v[j] \in Values
      BY <1>1
    <3>2. QED
      BY <1>3, <3>1
  <2>2. QED
    BY <2>1
<1>5. Follows(Values, 1, n, g)
  <2>1. ASSUME NEW i \in 1 .. n, NEW v \in [1 .. n -> Values], NEW w \in [1 .. n -> Values],
               \A j \in 1 .. i - 1 : v[j] = w[j]
        PROVE  g[i][v] = g[i][w]
    <3>1. Valued(v, i) = Valued(w, i)
      BY <2>1, SameValued DEF n
    <3>2. QED
      BY <3>1
  <2>2. QED
    BY <2>1 DEF Follows
<1>6. PICK v \in [1 .. n -> Values] : \A i \in 1 .. n : v[i] = g[i][v]
  <2> HIDE DEF g
  <2>1. 1 \in Nat /\ 1 <= n + 1 /\ Values # {}
    <3>1. [v |-> 0, trap |-> FALSE, plain |-> TRUE] \in Values
      BY HalfIs DEF Values
    <3>2. QED
      BY <1>1, <3>1
  <2>2. Defines(Values, 1, n, g)
    BY <1>1, <1>4, <1>5, <2>1, Defined
  <2>3. QED
    BY <2>2 DEF Defines
<1>7. E(v)
  <2>1. \A i \in 1 .. n : v[i] = Valued(v, i)
    BY <1>6
  <2>2. v = [i \in 1 .. n |-> v[i]]
    OBVIOUS
  <2>3. QED
    BY <1>1, <2>1, <2>2
<1> DEFINE f == CHOOSE u : E(u)
<1>8. E(f)
  BY <1>7
<1>9. Meant = f
  <2> DEFINE D(u) == u = [i \in DOMAIN Trees |->
               LET t == Trees[i]
                   l == u[t.l]
                   r == u[t.r]
               IN  IF t.op = "num"
                     THEN [v |-> Int32(Stands(t.sign \o t.digits)), trap |-> FALSE, plain |-> TRUE]
                   ELSE IF t.op = "neg" THEN [v |-> Int32(-l.v), trap |-> l.trap, plain |-> FALSE]
                   ELSE [v |-> Int32(CASE t.op = "+" -> l.v + r.v [] t.op = "-" -> l.v - r.v
                                       [] t.op = "*" -> l.v * r.v
                                       [] t.op = "/" -> IF r.v = 0 THEN 0 ELSE Truncated(l.v, r.v)),
                         trap |-> l.trap \/ r.trap \/ (t.op = "/" /\ l.v = -IntHalf /\ r.v = -1),
                         plain |-> l.plain /\ r.plain]]
  <2>1. \A u : E(u) <=> D(u)
    BY ValuedIs, ZenonT(60)
  <2>2. (CHOOSE u : E(u)) = CHOOSE u : D(u)
    <3> HIDE DEF E, D
    <3>1. QED
      BY <2>1
  <2>3. Meant = CHOOSE u : D(u)
    BY DEF Meant
  <2>4. QED
    BY <2>2, <2>3
<1> HIDE DEF f
<1>10. f = [i \in 1 .. n |-> f[i]] /\ \A i \in 1 .. n : f[i] = Valued(f, i)
  BY <1>1, <1>8
<1>11. f \in [1 .. n -> Values]
  <2>1. \A i \in 1 .. n : (\A j \in 1 .. i - 1 : f[j] \in Values) => f[i] \in Values
    BY <1>3, <1>10 DEF n
  <2>2. QED
    BY <1>1, <1>10, <2>1, Inside
<1>12. QED
  BY <1>9, <1>10, <1>11 DEF n, ValueAt

-----------------------------------------------------------------------------
(* The calculator: the parser reads what the trees mean                    *)

\* Where a text stands its parts stand.
LEMMA JoinOccurs ==
  ASSUME NEW S, NEW a, NEW b, NEW c, Joins(S, a, b, c), NEW s, Len(s) \in Nat, NEW p, Occurs(c, s, p)
  PROVE  Occurs(a, s, p) /\ Occurs(b, s, p + Len(a)) /\ p + Len(c) = (p + Len(a)) + Len(b)
<1>1. PICK m \in Nat, n \in Nat, k \in Nat : m = Len(a) /\ n = Len(b) /\ k = Len(s)
  BY DEF Joins
<1>2. Len(c) = m + n
  BY <1>1 DEF Joins
<1>3. p \in 1 .. k + 1 /\ p + (m + n) \in p .. k + 1
  BY <1>1, <1>2 DEF Occurs
<1>4. \A i \in 1 .. m + n : s[p + i - 1] = c[i]
  BY <1>2 DEF Occurs
<1>5. (\A i \in 1 .. m : c[i] = a[i]) /\ \A i \in 1 .. n : c[m + i] = b[i]
  BY <1>1 DEF Joins
<1>6. p \in Int /\ p + m \in p .. k + 1 /\ p + m \in 1 .. k + 1 /\ (p + m) + n \in p + m .. k + 1
      /\ p + (m + n) = (p + m) + n
  BY <1>3
<1>7. \A i \in 1 .. m : s[p + i - 1] = a[i]
  BY <1>4, <1>5
<1>8. ASSUME NEW i \in 1 .. n PROVE s[(p + m) + i - 1] = b[i]
  <2>1. PICK j : j = m + i
    OBVIOUS
  <2>2. j \in 1 .. m + n /\ p + j - 1 = (p + m) + i - 1
    BY <1>6, <2>1
  <2>3. QED
    BY <1>4, <1>5, <2>1, <2>2
<1>9. QED
  BY <1>1, <1>2, <1>3, <1>6, <1>7, <1>8 DEF Occurs

\* A text of one character occurs where the character is.
LEMMA OneOccurs ==
  ASSUME NEW a, Len(a) = 1, NEW s, Len(s) \in Nat, NEW p, Occurs(a, s, p)
  PROVE  p \in 1 .. Len(s) /\ s[p] = a[1] /\ At(s, p) = a[1]
<1>1. p \in 1 .. Len(s) + 1 /\ p + 1 \in p .. Len(s) + 1 /\ s[p + 1 - 1] = a[1]
  BY DEF Occurs
<1>2. p \in 1 .. Len(s) /\ p + 1 - 1 = p
  BY <1>1
<1>3. QED
  BY <1>1, <1>2 DEF At

\* Where the parts of a text in parentheses are
ClosedAt(x, s, p) ==
  /\ p \in 1 .. Len(s) /\ At(s, p) = "(" /\ Occurs(x, s, p + 1)
  /\ p + 1 + Len(x) \in 1 .. Len(s) /\ At(s, p + 1 + Len(x)) = ")"
  /\ p + Len(Closed(x)) = (p + 1 + Len(x)) + 1

\* A text in parentheses occurs: the parentheses and the text do.
LEMMA ClosedOccurs ==
  ASSUME NEW x, IsText(x), NEW s, Len(s) \in Nat, NEW p, Occurs(Closed(x), s, p)
  PROVE  ClosedAt(x, s, p)
<1>1. "(" \in Chars /\ ")" \in Chars
  BY DEF Chars, Marks
<1>2. PICK a : a = One("(")
  OBVIOUS
<1>3. PICK b : b = One(")")
  OBVIOUS
<1>4. a \in Seq(Chars) /\ Len(a) = 1 /\ a[1] = "(" /\ b \in Seq(Chars) /\ Len(b) = 1 /\ b[1] = ")"
  BY <1>1, <1>2, <1>3, OneIs
<1>5. PICK c : c = a \o x
  OBVIOUS
<1>6. Joins(Chars, a, x, c)
  <2>1. x \in Seq(Chars)
    BY DEF IsText
  <2>2. QED
    BY <1>4, <1>5, <2>1, Joined
<1>7. PICK d : d = c \o b
  OBVIOUS
<1>8. Joins(Chars, c, b, d)
  <2>1. c \in Seq(Chars)
    BY <1>6 DEF Joins
  <2>2. QED
    BY <1>4, <1>7, <2>1, Joined
<1>9. d = Closed(x)
  BY <1>2, <1>3, <1>5, <1>7 DEF Closed, Opened
<1>10. Occurs(c, s, p) /\ Occurs(b, s, p + Len(c)) /\ p + Len(d) = (p + Len(c)) + Len(b)
  BY <1>8, <1>9, JoinOccurs
<1>11. Occurs(a, s, p) /\ Occurs(x, s, p + Len(a)) /\ p + Len(c) = (p + Len(a)) + Len(x)
  BY <1>6, <1>10, JoinOccurs
<1>12. p \in 1 .. Len(s) /\ At(s, p) = "("
  BY <1>4, <1>11, OneOccurs
<1>13. p + Len(c) \in 1 .. Len(s) /\ At(s, p + Len(c)) = ")"
  BY <1>4, <1>10, OneOccurs
<1>14. QED
  BY <1>4, <1>9, <1>10, <1>11, <1>12, <1>13 DEF ClosedAt

\* Where the parts of a text with an operator are
BetweenAt(x, op, y, s, p) ==
  /\ Occurs(x, s, p) /\ p + Len(x) \in 1 .. Len(s) /\ At(s, p + Len(x)) = op
  /\ Occurs(y, s, p + Len(x) + 1)
  /\ p + Len(Between(x, op, y)) = (p + Len(x) + 1) + Len(y)

\* A text with an operator in it occurs: its parts do, one after the other.
LEMMA BetweenOccurs ==
  ASSUME NEW x, IsText(x), NEW y, IsText(y), NEW op \in Chars, NEW s, Len(s) \in Nat,
         NEW p, Occurs(Between(x, op, y), s, p)
  PROVE  BetweenAt(x, op, y, s, p)
<1>1. PICK b : b = One(op)
  OBVIOUS
<1>2. b \in Seq(Chars) /\ Len(b) = 1 /\ b[1] = op
  BY <1>1, OneIs
<1>3. x \in Seq(Chars) /\ y \in Seq(Chars)
  BY DEF IsText
<1>4. PICK c : c = x \o b
  OBVIOUS
<1>5. Joins(Chars, x, b, c)
  BY <1>2, <1>3, <1>4, Joined
<1>6. PICK d : d = c \o y
  OBVIOUS
<1>7. Joins(Chars, c, y, d)
  <2>1. c \in Seq(Chars)
    BY <1>5 DEF Joins
  <2>2. QED
    BY <1>3, <1>6, <2>1, Joined
<1>8. d = Between(x, op, y)
  BY <1>1, <1>4, <1>6 DEF Between
<1>9. Occurs(c, s, p) /\ Occurs(y, s, p + Len(c)) /\ p + Len(d) = (p + Len(c)) + Len(y)
  BY <1>7, <1>8, JoinOccurs
<1>10. Occurs(x, s, p) /\ Occurs(b, s, p + Len(x)) /\ p + Len(c) = (p + Len(x)) + Len(b)
  BY <1>5, <1>9, JoinOccurs
<1>11. p + Len(x) \in 1 .. Len(s) /\ At(s, p + Len(x)) = op
  BY <1>2, <1>10, OneOccurs
<1>12. QED
  BY <1>2, <1>8, <1>9, <1>10, <1>11 DEF BetweenAt

\* The rules of a parser, one by one
RuleIs(s, f, l) ==
  /\ f[<<"cl_prim", l>>] = cl_prim(f, s, l.p)
  /\ f[<<"cl_term", l>>] = f[<<"factors", f[<<"cl_prim", l>>]>>]
  /\ f[<<"cl_eval", l>>] = f[<<"summands", f[<<"cl_term", l>>]>>]
  /\ f[<<"factors", l>>] = Looped(f, s, l, Factoring, "cl_prim", "factors")
  /\ f[<<"summands", l>>] = Looped(f, s, l, Summing, "cl_term", "summands")

\* Every rule of a parser is what the source says.
LEMMA RulesAre ==
  ASSUME NEW s, NEW f, IsParser(s, f), NEW l \in Parsed(s) PROVE RuleIs(s, f, l)
<1>1. \A rule \in Rules : f[<<rule, l>>] = Ruled(f, s, rule, l)
  BY DEF IsParser
<1>2. /\ "cl_prim" \in Rules /\ "cl_term" \in Rules /\ "factors" \in Rules
      /\ "cl_eval" \in Rules /\ "summands" \in Rules
  BY RanksAre
<1>3. /\ f[<<"cl_prim", l>>] = Ruled(f, s, "cl_prim", l)
      /\ f[<<"cl_term", l>>] = Ruled(f, s, "cl_term", l)
      /\ f[<<"factors", l>>] = Ruled(f, s, "factors", l)
      /\ f[<<"cl_eval", l>>] = Ruled(f, s, "cl_eval", l)
      /\ f[<<"summands", l>>] = Ruled(f, s, "summands", l)
  BY <1>1, <1>2
<1>4. /\ Ruled(f, s, "cl_prim", l) = cl_prim(f, s, l.p)
      /\ Ruled(f, s, "cl_term", l) = f[<<"factors", f[<<"cl_prim", l>>]>>]
      /\ Ruled(f, s, "factors", l) = Looped(f, s, l, Factoring, "cl_prim", "factors")
      /\ Ruled(f, s, "cl_eval", l) = f[<<"summands", f[<<"cl_term", l>>]>>]
      /\ Ruled(f, s, "summands", l) = Looped(f, s, l, Summing, "cl_term", "summands")
  BY RuledAs
<1>5. QED
  BY <1>3, <1>4 DEF RuleIs

\* The texts of trees have no blanks: nothing is skipped.
LEMMA NeverBlank ==
  ASSUME NEW s \in Seq(Chars), NEW p \in 1 .. Len(s) + 1 PROVE Skip(s, p) = p
<1>1. Blank \notin Chars /\ Blank # "end"
  BY MarksAre DEF Chars
<1>2. p <= Len(s) => s[p] \in Chars
  OBVIOUS
<1>3. At(s, p) # Blank
  BY <1>1, <1>2 DEF At
<1>4. QED
  BY <1>3, NoBlank

\* In a text without blanks a loop stops where no operator of its own is ...
LEMMA LoopStops ==
  ASSUME NEW s \in Seq(Chars), NEW f, NEW l \in Parsed(s), NEW ops, NEW operand, NEW again,
         At(s, l.p) \notin ops
  PROVE  Looped(f, s, l, ops, operand, again) = l
<1>1. PICK p \in 1 .. Len(s) + 1 : p = l.p
  BY DEF Parsed
<1>2. Skip(s, l.p) = p
  BY <1>1, NeverBlank
<1>3. Looped(f, s, l, ops, operand, again) = [v |-> l.v, p |-> p, trap |-> l.trap]
  BY <1>1, <1>2, LoopEnds
<1>4. l = [v |-> l.v, p |-> l.p, trap |-> l.trap]
  BY DEF Parsed
<1>5. QED
  BY <1>1, <1>3, <1>4

\* ... and goes on by its operand where one is.
LEMMA LoopSteps ==
  ASSUME NEW s \in Seq(Chars), NEW f, NEW l \in Parsed(s), NEW ops, NEW operand, NEW again,
         NEW op, op = At(s, l.p), op \in ops, op # "end"
  PROVE  Looped(f, s, l, ops, operand, again) =
           f[<<again, Combined(op, l, f[<<operand, From(l.p + 1)>>])>>]
<1>1. PICK p \in 1 .. Len(s) + 1 : p = l.p
  BY DEF Parsed
<1>2. Skip(s, l.p) = l.p
  BY <1>1, NeverBlank
<1>3. s[l.p] = op
  BY <1>1 DEF At
<1>4. QED
  BY <1>2, <1>3, Zenon DEF Looped

\* What the parser has read when it has read the text of node i, up to q
Reading(i, q) == [v |-> Meant[i].v, p |-> q, trap |-> Meant[i].trap]

\* What a tree means is a result.
LEMMA ReadIs ==
  ASSUME NEW s, NEW i \in 1 .. Len(Trees), NEW q \in 1 .. Len(s) + 1
  PROVE  Reading(i, q) \in Parsed(s) /\ Reading(i, q).p = q /\ Reading(i, q).v = Meant[i].v /\ Reading(i, q).trap = Meant[i].trap
<1>1. Meant[i].v \in Int /\ Meant[i].trap \in BOOLEAN
  BY MeantIs DEF ValueAt, Values
<1>2. QED
  BY <1>1 DEF Reading, Parsed

\* At a place where the text stands, before no digit: a leaf is a primary, a product
\* is the beginning of a term and every text that of an expression.
Reads(s, f, i, p, q) ==
  /\ Binds(Trees[i]) = 3 => cl_prim(f, s, p) = Reading(i, q)
  /\ Binds(Trees[i]) >= 2 => f[<<"cl_term", From(p)>>] = f[<<"factors", Reading(i, q)>>]
  /\ At(s, q) \notin Factoring => f[<<"cl_eval", From(p)>>] = f[<<"summands", Reading(i, q)>>]

\* A text stands at p, up to q, where no digit follows.
StandsIn(x, s, p, q) == Occurs(x, s, p) /\ q = p + Len(x) /\ q \in 1 .. Len(s) + 1 /\ At(s, q) \notin Digits

\* A tree is read wherever its text stands, unless a group in it has a unary minus.
ReadsAll(s, f, i) == Meant[i].plain => \A p, q \in 1 .. Len(s) + 1 : StandsIn(Text[i], s, p, q) => Reads(s, f, i, p, q)

\* How an operator binds.
LEMMA BindsIs ==
  ASSUME NEW i \in 1 .. Len(Trees)
  PROVE  /\ Binds(Trees[i]) \in 1 .. 3
         /\ Binds(Trees[i]) = 3 <=> Trees[i].op \in {"num", "neg"}
         /\ Trees[i].op \in Factoring => Binds(Trees[i]) = 2
         /\ Trees[i].op \in Summing => Binds(Trees[i]) = 1
BY DEF Binds, Factoring, Summing

\* The operators of cl_term, those of cl_eval, parentheses and digits differ.
LEMMA MarksApart ==
  /\ ")" \notin Digits /\ ")" \notin Factoring /\ ")" \notin Summing
  /\ Operators = Factoring \cup Summing /\ Factoring \cap Summing = {}
  /\ \A op \in Operators :
       op \notin Digits /\ op # "end" /\ op # "num" /\ op # "neg" /\ op \in Chars
<1>1. ")" \in Marks /\ Operators \subseteq Marks
  BY DEF Marks, Operators
<1>2. QED
  BY <1>1, MarksAre DEF Marks, Operators, Factoring, Summing, Chars

\* A group
LEMMA GroupRead ==
  ASSUME NEW s \in Seq(Chars), NEW f \in Parsers(s), IsParser(s, f), NEW i \in 1 .. Len(Trees),
         NEW p \in 1 .. Len(s), At(s, p) = "(", NEW q \in 1 .. Len(s), At(s, q) = ")",
         f[<<"cl_eval", From(p + 1)>>] = f[<<"summands", Reading(i, q)>>]
  PROVE  cl_prim(f, s, p) = Reading(i, q + 1)
<1>1. p \in 1 .. Len(s) + 1 /\ q \in 1 .. Len(s) + 1
  OBVIOUS
<1>2. Skip(s, p) = p /\ Skip(s, q) = q
  BY <1>1, NeverBlank
<1>3. Reading(i, q) \in Parsed(s) /\ Reading(i, q).p = q /\ Reading(i, q).v = Meant[i].v /\ Reading(i, q).trap = Meant[i].trap
  BY <1>1, ReadIs
<1>4. f[<<"summands", Reading(i, q)>>] = Reading(i, q)
  <2>1. PICK l \in Parsed(s) : l = Reading(i, q)
    BY <1>3
  <2>2. f[<<"summands", l>>] = Looped(f, s, l, Summing, "cl_term", "summands")
    BY RulesAre DEF RuleIs
  <2>3. At(s, l.p) \notin Summing
    BY <1>3, <2>1, MarksApart
  <2>4. Looped(f, s, l, Summing, "cl_term", "summands") = l
    BY <2>3, LoopStops
  <2>5. QED
    BY <2>1, <2>2, <2>4
<1>5. IsGroup(f, s, p, p)
  BY <1>1, <1>2, GroupIs
<1>6. PICK inner \in Parsed(s), close \in 1 .. Len(s) + 1 :
        /\ inner = f[<<"cl_eval", From(p + 1)>>] /\ close = Skip(s, inner.p)
        /\ cl_prim(f, s, p) = [v |-> inner.v, trap |-> inner.trap,
                               p |-> IF At(s, close) = ")" THEN close + 1 ELSE close]
  BY <1>5 DEF IsGroup
<1>7. inner = Reading(i, q)
  BY <1>4, <1>6
<1>8. close = q
  BY <1>2, <1>3, <1>6, <1>7
<1>9. cl_prim(f, s, p) = [v |-> Meant[i].v, trap |-> Meant[i].trap, p |-> q + 1]
  BY <1>3, <1>6, <1>7, <1>8
<1>10. QED
  BY <1>9 DEF Reading

\* A term that begins with a primary
TermReads(f, i, p, q) ==
  f[<<"cl_prim", From(p)>>] = Reading(i, q) /\ f[<<"cl_term", From(p)>>] = f[<<"factors", Reading(i, q)>>]

\* What cl_prim reads at a place, cl_term begins with.
LEMMA TermFrom ==
  ASSUME NEW s \in Seq(Chars), NEW f \in Parsers(s), IsParser(s, f), NEW i \in 1 .. Len(Trees),
         NEW p \in 1 .. Len(s) + 1, NEW q, cl_prim(f, s, p) = Reading(i, q)
  PROVE  TermReads(f, i, p, q)
<1>1. PICK l \in Parsed(s) : l = From(p) /\ l.p = p
  BY FromIs
<1>2. RuleIs(s, f, l)
  BY RulesAre
<1>3. f[<<"cl_prim", l>>] = Reading(i, q)
  BY <1>1, <1>2 DEF RuleIs
<1>4. f[<<"cl_term", l>>] = f[<<"factors", Reading(i, q)>>]
  BY <1>2, <1>3, Zenon DEF RuleIs
<1>5. QED
  BY <1>1, <1>3, <1>4 DEF TermReads

\* The loop for factors ends where no factor follows.
LEMMA FactorsEnd ==
  ASSUME NEW s \in Seq(Chars), NEW f \in Parsers(s), IsParser(s, f), NEW i \in 1 .. Len(Trees),
         NEW q \in 1 .. Len(s) + 1
  PROVE  /\ At(s, q) \notin Factoring => f[<<"factors", Reading(i, q)>>] = Reading(i, q)
         /\ At(s, q) \notin Summing => f[<<"summands", Reading(i, q)>>] = Reading(i, q)
<1>1. PICK l \in Parsed(s) : l = Reading(i, q) /\ l.p = q
  BY ReadIs
<1>2. RuleIs(s, f, l)
  BY RulesAre
<1>3. ASSUME At(s, q) \notin Factoring PROVE f[<<"factors", l>>] = l
  <2>1. Looped(f, s, l, Factoring, "cl_prim", "factors") = l
    BY <1>1, <1>3, LoopStops
  <2>2. QED
    BY <1>2, <2>1 DEF RuleIs
<1>4. ASSUME At(s, q) \notin Summing PROVE f[<<"summands", l>>] = l
  <2>1. Looped(f, s, l, Summing, "cl_term", "summands") = l
    BY <1>1, <1>4, LoopStops
  <2>2. QED
    BY <1>2, <2>1 DEF RuleIs
<1>5. QED
  BY <1>1, <1>3, <1>4

\* ... and an expression that begins with a term has it as its first summand.
LEMMA EvalFrom ==
  ASSUME NEW s \in Seq(Chars), NEW f \in Parsers(s), IsParser(s, f), NEW i \in 1 .. Len(Trees),
         NEW p \in 1 .. Len(s) + 1, NEW q \in 1 .. Len(s) + 1, At(s, q) \notin Factoring,
         f[<<"cl_term", From(p)>>] = f[<<"factors", Reading(i, q)>>]
  PROVE  f[<<"cl_term", From(p)>>] = Reading(i, q) /\ f[<<"cl_eval", From(p)>>] = f[<<"summands", Reading(i, q)>>]
<1>1. PICK l \in Parsed(s) : l = From(p)
  BY FromIs
<1>2. RuleIs(s, f, l)
  BY RulesAre
<1>3. f[<<"cl_term", l>>] = Reading(i, q)
  BY <1>1, FactorsEnd
<1>4. f[<<"cl_eval", l>>] = f[<<"summands", Reading(i, q)>>]
  BY <1>2, <1>3, Zenon DEF RuleIs
<1>5. QED
  BY <1>1, <1>3, <1>4

\* An operand, in parentheses or not
SideReads(s, f, j, bind, p, q) ==
  /\ bind = 3 => cl_prim(f, s, p) = Reading(j, q)
  /\ bind = 2 => f[<<"cl_term", From(p)>>] = f[<<"factors", Reading(j, q)>>]
  /\ bind = 1 /\ At(s, q) \notin Factoring => f[<<"cl_eval", From(p)>>] = f[<<"summands", Reading(j, q)>>]

\* An operand is read as its tree is, in parentheses by cl_prim.
LEMMA SideRead ==
  ASSUME NEW s \in Seq(Chars), NEW f \in Parsers(s), IsParser(s, f), NEW j \in 1 .. Len(Trees),
         ReadsAll(s, f, j), Meant[j].plain, NEW bind \in 1 .. 3, NEW p \in 1 .. Len(s) + 1, NEW q \in 1 .. Len(s) + 1,
         StandsIn(Side(Text, j, bind), s, p, q)
  PROVE  SideReads(s, f, j, bind, p, q)
<1>1. Binds(Trees[j]) \in 1 .. 3
  BY BindsIs
<1>2. CASE Binds(Trees[j]) < bind
  <2>1. PICK x : x = Text[j] /\ IsText(x)
    BY TextIs DEF TextAt
  <2>2. Side(Text, j, bind) = Closed(x)
    BY <1>2, <2>1 DEF Side
  <2>3. Len(s) \in Nat
    OBVIOUS
  <2>4. Occurs(Closed(x), s, p) /\ q = p + Len(Closed(x))
    BY <2>2 DEF StandsIn
  <2>5. ClosedAt(x, s, p)
    BY <2>1, <2>3, <2>4, ClosedOccurs
  <2>6. PICK n \in Nat : n = Len(x)
    BY <2>1 DEF IsText
  <2>7. PICK m \in 1 .. Len(s) : m = p + 1 + n /\ q = m + 1 /\ At(s, m) = ")"
    BY <2>4, <2>5, <2>6 DEF ClosedAt
  <2>8. p \in 1 .. Len(s) /\ At(s, p) = "(" /\ Occurs(x, s, p + 1) /\ p + 1 \in 1 .. Len(s) + 1
        /\ m \in 1 .. Len(s) + 1 /\ m = (p + 1) + Len(x)
    BY <2>3, <2>5, <2>6, <2>7 DEF ClosedAt
  <2>9. StandsIn(x, s, p + 1, m)
    BY <2>7, <2>8, MarksApart DEF StandsIn
  <2>10. Reads(s, f, j, p + 1, m)
    BY <2>1, <2>8, <2>9 DEF ReadsAll
  <2>11. f[<<"cl_eval", From(p + 1)>>] = f[<<"summands", Reading(j, m)>>]
    BY <2>7, <2>10, MarksApart DEF Reads
  <2>12. cl_prim(f, s, p) = Reading(j, m + 1)
    BY <2>7, <2>8, <2>11, GroupRead
  <2>13. cl_prim(f, s, p) = Reading(j, q)
    BY <2>7, <2>12
  <2>14. f[<<"cl_term", From(p)>>] = f[<<"factors", Reading(j, q)>>]
    BY <2>13, TermFrom DEF TermReads
  <2>15. bind # 1
    BY <1>1, <1>2
  <2>16. QED
    BY <2>13, <2>14, <2>15 DEF SideReads
<1>3. CASE ~(Binds(Trees[j]) < bind)
  <2>1. Side(Text, j, bind) = Text[j]
    BY <1>3 DEF Side
  <2>2. Reads(s, f, j, p, q)
    BY <2>1 DEF ReadsAll
  <2>3. Binds(Trees[j]) >= bind /\ (bind = 3 => Binds(Trees[j]) = 3)
    BY <1>1, <1>3
  <2>4. bind = 2 => Binds(Trees[j]) >= 2
    BY <1>1, <2>3
  <2>5. QED
    BY <2>2, <2>3, <2>4 DEF Reads, SideReads
<1>4. QED
  BY <1>2, <1>3

\* What an operator makes of its operands is what the tree means.
Combines(i, op, l, r, a, q) == Combined(op, Reading(l, a), Reading(r, q)) = Reading(i, q)

\* By the definitions of Combined and of Meant.
LEMMA CombinedRead ==
  ASSUME NEW i \in 1 .. Len(Trees), Operation(Trees[i], i), NEW op, op = Trees[i].op,
         NEW l, l = Trees[i].l, NEW r, r = Trees[i].r, NEW a, NEW q
  PROVE  Combines(i, op, l, r, a, q)
<1>2. PICK v : v = Applied(op, Meant[l].v, Meant[r].v)
  OBVIOUS
<1>3. PICK trap : trap = (Meant[l].trap \/ Meant[r].trap \/ Overflows(op, Meant[l].v, Meant[r].v))
  OBVIOUS
<1>4. Meant[i] = [v |-> Int32(v), trap |-> trap, plain |-> Meant[l].plain /\ Meant[r].plain]
  <2>1. Meant[i] = Valued(Meant, i) /\ Trees[i].op # "num" /\ Trees[i].op # "neg"
    BY MeantIs DEF ValueAt, Operation, Operators
  <2>2. QED
    BY <1>2, <1>3, <2>1, Zenon DEF Valued
<1>5. Reading(i, q) = [v |-> Int32(v), p |-> q, trap |-> trap]
  BY <1>4 DEF Reading
<1>6. /\ Reading(l, a).v = Meant[l].v /\ Reading(l, a).trap = Meant[l].trap
      /\ Reading(r, q).v = Meant[r].v /\ Reading(r, q).trap = Meant[r].trap /\ Reading(r, q).p = q
  BY DEF Reading
<1>7. Combined(op, Reading(l, a), Reading(r, q)) = Result(v, q, trap)
  BY <1>2, <1>3, <1>6, Zenon DEF Combined
<1>8. QED
  BY <1>5, <1>7 DEF Result, Combines

\* A numeral is read as the number it stands for.
LEMMA LeafRead ==
  ASSUME NEW s \in Seq(Chars), NEW f \in Parsers(s), IsParser(s, f), NEW i \in 1 .. Len(Trees),
         Leaf(Trees[i]), NEW p \in 1 .. Len(s) + 1, NEW q \in 1 .. Len(s) + 1,
         StandsIn(Text[i], s, p, q)
  PROVE  Reads(s, f, i, p, q)
<1>1. PICK x : x = Trees[i].sign \o Trees[i].digits
  OBVIOUS
<1>2. Trees[i].op = "num"
  BY DEF Leaf
<1>3. Text[i] = x
  <2>1. Text[i] = Texted(Text, i)
    BY TextIs DEF TextAt
  <2>2. QED
    BY <1>1, <1>2, <2>1 DEF Texted
<1>4. PICK k : Numeral(x, k)
  BY <1>1, LeafIs
<1>5. cl_prim(f, s, p) = [v |-> Int32(Stands(x)), p |-> q, trap |-> FALSE]
  <2>1. Occurs(x, s, p) /\ q = p + Len(x) /\ At(s, q) \notin Digits
    BY <1>3 DEF StandsIn
  <2>2. QED
    BY <1>4, <2>1, NumeralRead
<1>6. Meant[i] = [v |-> Int32(Stands(x)), trap |-> FALSE, plain |-> TRUE]
  <2>1. Meant[i] = Valued(Meant, i)
    BY MeantIs DEF ValueAt
  <2>2. QED
    BY <1>1, <1>2, <2>1, Zenon DEF Valued
<1>7. cl_prim(f, s, p) = Reading(i, q)
  BY <1>5, <1>6 DEF Reading
<1>8. f[<<"cl_term", From(p)>>] = f[<<"factors", Reading(i, q)>>]
  BY <1>7, TermFrom DEF TermReads
<1>9. At(s, q) \notin Factoring => f[<<"cl_eval", From(p)>>] = f[<<"summands", Reading(i, q)>>]
  BY <1>8, EvalFrom
<1>10. QED
  BY <1>7, <1>8, <1>9 DEF Reads

\* Where the text of an operation stands, and its operands
Parts(s, i, op, l, r, p, a, q) ==
  /\ op = Trees[i].op /\ op \in Operators /\ l = Trees[i].l /\ r = Trees[i].r
  /\ l \in 1 .. Len(Trees) /\ r \in 1 .. Len(Trees)
  /\ a \in 1 .. Len(s) /\ At(s, a) = op
  /\ StandsIn(Side(Text, l, Binds(Trees[i])), s, p, a)
  /\ StandsIn(Side(Text, r, Binds(Trees[i]) + 1), s, a + 1, q)

\* The text of an operator has three parts: an operand, the operator, an operand.
LEMMA PartsAre ==
  ASSUME NEW s \in Seq(Chars), NEW i \in 1 .. Len(Trees), Operation(Trees[i], i),
         NEW p \in 1 .. Len(s) + 1, NEW q \in 1 .. Len(s) + 1, StandsIn(Text[i], s, p, q)
  PROVE  \E op \in Operators, l, r \in 1 .. Len(Trees), a \in 1 .. Len(s) :
           Parts(s, i, op, l, r, p, a, q)
<1>1. PICK op \in Operators, l \in 1 .. i - 1, r \in 1 .. i - 1 :
        op = Trees[i].op /\ l = Trees[i].l /\ r = Trees[i].r
  BY DEF Operation
<1>2. l \in 1 .. Len(Trees) /\ r \in 1 .. Len(Trees)
  BY NodeIs
<1>3. PICK x : x = Side(Text, l, Binds(Trees[i]))
  OBVIOUS
<1>4. PICK y : y = Side(Text, r, Binds(Trees[i]) + 1)
  OBVIOUS
<1>5. IsText(Text[l]) /\ IsText(Text[r])
  BY <1>2, TextIs DEF TextAt
<1>6. IsText(x) /\ IsText(y)
  BY <1>3, <1>4, <1>5, SideIs
<1>7. op \in Chars /\ op # "num" /\ op # "neg" /\ op \notin Digits
  BY MarksApart
<1>8. Text[i] = Between(x, op, y)
  <2>1. Text[i] = Texted(Text, i)
    BY TextIs DEF TextAt
  <2>2. QED
    BY <1>1, <1>3, <1>4, <1>7, <2>1, Zenon DEF Texted
<1>9. Occurs(Between(x, op, y), s, p) /\ q = p + Len(Between(x, op, y)) /\ At(s, q) \notin Digits
  BY <1>8 DEF StandsIn
<1>10. Len(s) \in Nat
  OBVIOUS
<1>11. BetweenAt(x, op, y, s, p)
  BY <1>6, <1>7, <1>9, <1>10, BetweenOccurs
<1>12. PICK a \in 1 .. Len(s) : a = p + Len(x) /\ At(s, a) = op /\ Occurs(x, s, p)
                                 /\ Occurs(y, s, a + 1) /\ q = (a + 1) + Len(y)
  BY <1>9, <1>11 DEF BetweenAt
<1>13. a \in 1 .. Len(s) + 1
  BY <1>10
<1>14. StandsIn(x, s, p, a) /\ StandsIn(y, s, a + 1, q)
  BY <1>7, <1>9, <1>12, <1>13 DEF StandsIn
<1>15. Parts(s, i, op, l, r, p, a, q)
  BY <1>1, <1>2, <1>3, <1>4, <1>12, <1>14 DEF Parts
<1>16. QED
  BY <1>2, <1>15

\* A product or a quotient is read by the loop of cl_term.
LEMMA ProductRead ==
  ASSUME NEW s \in Seq(Chars), NEW f \in Parsers(s), IsParser(s, f), NEW i \in 1 .. Len(Trees),
         Operation(Trees[i], i), NEW op \in Factoring, NEW l \in 1 .. Len(Trees),
         NEW r \in 1 .. Len(Trees), NEW a \in 1 .. Len(s),
         NEW p \in 1 .. Len(s) + 1, NEW q \in 1 .. Len(s) + 1, Parts(s, i, op, l, r, p, a, q),
         ReadsAll(s, f, l), ReadsAll(s, f, r), Meant[l].plain, Meant[r].plain
  PROVE  Reads(s, f, i, p, q)
<1>1. Binds(Trees[i]) = 2 /\ op # "end" /\ op = Trees[i].op /\ l = Trees[i].l /\ r = Trees[i].r
  BY BindsIs, MarksApart DEF Parts
<1>2. a \in 1 .. Len(s) + 1 /\ a + 1 \in 1 .. Len(s) + 1 /\ 2 \in 1 .. 3 /\ 3 \in 1 .. 3 /\ 2 + 1 = 3
  OBVIOUS
<1>3. StandsIn(Side(Text, l, 2), s, p, a) /\ StandsIn(Side(Text, r, 3), s, a + 1, q)
  BY <1>1, <1>2 DEF Parts
<1>4. SideReads(s, f, l, 2, p, a)
  BY <1>2, <1>3, SideRead
<1>5. SideReads(s, f, r, 3, a + 1, q)
  BY <1>2, <1>3, SideRead
<1>6. f[<<"cl_term", From(p)>>] = f[<<"factors", Reading(l, a)>>]
  BY <1>4 DEF SideReads
<1>7. cl_prim(f, s, a + 1) = Reading(r, q)
  BY <1>5 DEF SideReads
<1>8. f[<<"cl_prim", From(a + 1)>>] = Reading(r, q)
  <2>1. PICK b \in 1 .. Len(s) + 1 : b = a + 1
    BY <1>2
  <2>2. cl_prim(f, s, b) = Reading(r, q)
    BY <1>7, <2>1
  <2>3. f[<<"cl_prim", From(b)>>] = Reading(r, q)
    <3>1. TermReads(f, r, b, q)
      BY <2>2, TermFrom
    <3>2. QED
      BY <3>1 DEF TermReads
  <2>4. QED
    BY <2>1, <2>3
<1>9. PICK k \in Parsed(s) : k = Reading(l, a) /\ k.p = a
  BY <1>2, ReadIs
<1>10. f[<<"factors", k>>] = Looped(f, s, k, Factoring, "cl_prim", "factors")
  BY RulesAre DEF RuleIs
<1>11. At(s, k.p) = op
  BY <1>9 DEF Parts
<1>12. Looped(f, s, k, Factoring, "cl_prim", "factors") =
         f[<<"factors", Combined(op, k, f[<<"cl_prim", From(k.p + 1)>>])>>]
  BY <1>1, <1>11, LoopSteps
<1>13. Combined(op, Reading(l, a), Reading(r, q)) = Reading(i, q)
  <2>1. Combines(i, op, l, r, a, q)
    BY <1>1, CombinedRead
  <2>2. QED
    BY <2>1 DEF Combines
<1>14. f[<<"factors", k>>] = f[<<"factors", Reading(i, q)>>]
  BY <1>8, <1>9, <1>10, <1>12, <1>13, Zenon
<1>15. f[<<"cl_term", From(p)>>] = f[<<"factors", Reading(i, q)>>]
  BY <1>6, <1>9, <1>14, Zenon
<1>16. At(s, q) \notin Factoring => f[<<"cl_eval", From(p)>>] = f[<<"summands", Reading(i, q)>>]
  BY <1>15, EvalFrom
<1>17. QED
  BY <1>1, <1>15, <1>16 DEF Reads

\* A sum or a difference is read by the loop of cl_eval.
LEMMA SumRead ==
  ASSUME NEW s \in Seq(Chars), NEW f \in Parsers(s), IsParser(s, f), NEW i \in 1 .. Len(Trees),
         Operation(Trees[i], i), NEW op \in Summing, NEW l \in 1 .. Len(Trees),
         NEW r \in 1 .. Len(Trees), NEW a \in 1 .. Len(s),
         NEW p \in 1 .. Len(s) + 1, NEW q \in 1 .. Len(s) + 1, Parts(s, i, op, l, r, p, a, q),
         ReadsAll(s, f, l), ReadsAll(s, f, r), Meant[l].plain, Meant[r].plain
  PROVE  Reads(s, f, i, p, q)
<1>1. Binds(Trees[i]) = 1 /\ op # "end" /\ op = Trees[i].op /\ l = Trees[i].l /\ r = Trees[i].r
      /\ op \notin Factoring
  BY BindsIs, MarksApart DEF Parts
<1>2. a \in 1 .. Len(s) + 1 /\ a + 1 \in 1 .. Len(s) + 1 /\ 1 \in 1 .. 3 /\ 2 \in 1 .. 3 /\ 1 + 1 = 2
  OBVIOUS
<1>3. StandsIn(Side(Text, l, 1), s, p, a) /\ StandsIn(Side(Text, r, 2), s, a + 1, q) /\ At(s, a) = op
  BY <1>1, <1>2 DEF Parts
<1>4. SideReads(s, f, l, 1, p, a)
  BY <1>2, <1>3, SideRead
<1>5. SideReads(s, f, r, 2, a + 1, q)
  BY <1>2, <1>3, SideRead
<1>6. f[<<"cl_eval", From(p)>>] = f[<<"summands", Reading(l, a)>>]
  BY <1>1, <1>3, <1>4 DEF SideReads
<1>7. f[<<"cl_term", From(a + 1)>>] = f[<<"factors", Reading(r, q)>>]
  BY <1>5 DEF SideReads
<1>8. PICK k \in Parsed(s) : k = Reading(l, a) /\ k.p = a
  BY <1>2, ReadIs
<1>9. f[<<"summands", k>>] = Looped(f, s, k, Summing, "cl_term", "summands")
  BY RulesAre DEF RuleIs
<1>10. At(s, k.p) = op
  BY <1>3, <1>8
<1>11. Looped(f, s, k, Summing, "cl_term", "summands") =
         f[<<"summands", Combined(op, k, f[<<"cl_term", From(k.p + 1)>>])>>]
  BY <1>1, <1>10, LoopSteps
<1>12. Combined(op, Reading(l, a), Reading(r, q)) = Reading(i, q)
  <2>1. Combines(i, op, l, r, a, q)
    BY <1>1, CombinedRead
  <2>2. QED
    BY <2>1 DEF Combines
<1>13. ASSUME At(s, q) \notin Factoring
       PROVE  f[<<"cl_eval", From(p)>>] = f[<<"summands", Reading(i, q)>>]
  <2>1. f[<<"cl_term", From(a + 1)>>] = Reading(r, q)
    <3>1. f[<<"factors", Reading(r, q)>>] = Reading(r, q)
      BY <1>13, FactorsEnd
    <3>2. QED
      BY <1>7, <3>1, Zenon
  <2>2. f[<<"summands", k>>] = f[<<"summands", Reading(i, q)>>]
    BY <1>8, <1>9, <1>11, <1>12, <2>1, Zenon
  <2>3. QED
    BY <1>6, <1>8, <2>2, Zenon
<1>14. QED
  BY <1>1, <1>13 DEF Reads

\* A tree is plain if its operands are, and a negated group is not.
LEMMA PlainIs ==
  ASSUME NEW i \in 1 .. Len(Trees), Meant[i].plain
  PROVE  /\ ~Negation(Trees[i], i)
         /\ Operation(Trees[i], i) => Meant[Trees[i].l].plain /\ Meant[Trees[i].r].plain
<1>1. Meant[i] = Valued(Meant, i)
  BY MeantIs DEF ValueAt
<1>2. ASSUME Negation(Trees[i], i) PROVE FALSE
  BY <1>1, <1>2 DEF Valued, Negation
<1>3. ASSUME Operation(Trees[i], i) PROVE Meant[Trees[i].l].plain /\ Meant[Trees[i].r].plain
  <2>1. Trees[i].op # "num" /\ Trees[i].op # "neg"
    BY <1>3 DEF Operation, Operators
  <2>2. Valued(Meant, i).plain = (Meant[Trees[i].l].plain /\ Meant[Trees[i].r].plain)
    BY <2>1 DEF Valued
  <2>3. QED
    BY <1>1, <2>2
<1>4. QED
  BY <1>2, <1>3

\* By induction over the nodes, which stand after their operands: the parser reads
\* the text of a plain tree wherever it stands.
LEMMA TreesRead ==
  ASSUME NEW s \in Seq(Chars), NEW f \in Parsers(s), IsParser(s, f)
  PROVE  \A i \in 1 .. Len(Trees) : ReadsAll(s, f, i)
<1> DEFINE bad == {i \in 1 .. Len(Trees) : ~ReadsAll(s, f, i)}
<1>1. SUFFICES ASSUME bad # {} PROVE FALSE
  OBVIOUS
<1>2. PICK i \in bad : \A j \in bad : i <= j
  <2>1. bad \subseteq Nat
    BY NodeIs
  <2> HIDE DEF bad
  <2>2. QED
    BY <1>1, <2>1, LeastNat
<1>3. i \in 1 .. Len(Trees) /\ ~ReadsAll(s, f, i)
  OBVIOUS
<1>4. \A j \in 1 .. i - 1 : ReadsAll(s, f, j)
  BY <1>2, <1>3, NodeIs
<1> HIDE DEF bad
<1>5. ASSUME NEW p \in 1 .. Len(s) + 1, NEW q \in 1 .. Len(s) + 1, StandsIn(Text[i], s, p, q),
             Meant[i].plain
      PROVE  Reads(s, f, i, p, q)
  <2>1. CASE Leaf(Trees[i])
    BY <1>3, <1>5, <2>1, LeafRead
  <2>2. CASE Operation(Trees[i], i)
    <3>1. PICK op \in Operators, l \in 1 .. Len(Trees), r \in 1 .. Len(Trees), a \in 1 .. Len(s) :
            Parts(s, i, op, l, r, p, a, q)
      BY <1>3, <1>5, <2>2, PartsAre
    <3>2. ReadsAll(s, f, l) /\ ReadsAll(s, f, r) /\ Meant[l].plain /\ Meant[r].plain
      BY <1>3, <1>4, <1>5, <2>2, <3>1, PlainIs DEF Operation, Parts
    <3>3. CASE op \in Factoring
      BY <1>3, <2>2, <3>1, <3>2, <3>3, ProductRead
    <3>4. CASE op \in Summing
      BY <1>3, <2>2, <3>1, <3>2, <3>4, SumRead
    <3>5. QED
      BY <3>3, <3>4, MarksApart
  <2>3. QED
    BY <1>3, <1>5, <2>1, <2>2, NodeIs, PlainIs
<1>6. QED
  BY <1>3, <1>5 DEF ReadsAll

\* calc computes what the plain tree means whose text it reads.
LEMMA CalculatesTrees ==
  ASSUME NEW i \in 1 .. Len(Trees), Meant[i].plain
  PROVE  /\ Calculated(Text[i]).v = Meant[i].v /\ Calculated(Text[i]).trap = Meant[i].trap
         /\ IsText(Text[i])
<1>1. PICK s : s = Text[i] /\ IsText(s)
  BY TextIs DEF TextAt
<1>2. s \in Seq(Chars) /\ Len(s) \in Nat
  BY <1>1 DEF IsText
<1>3. PICK f \in Parsers(s) : IsParser(s, f)
  BY <1>2, ParserExists
<1>4. Calculated(s) = f[<<"cl_eval", From(1)>>]
  BY <1>2, <1>3, CalculatedIs
<1>5. PICK q : q = Len(s) + 1
  OBVIOUS
<1>6. q \in 1 .. Len(s) + 1 /\ 1 \in 1 .. Len(s) + 1 /\ 1 + Len(s) = q
  BY <1>2, <1>5
<1>7. At(s, q) = "end"
  BY <1>2, <1>5 DEF At
<1>8. Occurs(s, s, 1)
  BY <1>2, <1>6 DEF Occurs
<1>9. StandsIn(s, s, 1, q)
  BY <1>6, <1>7, <1>8, MarksDiffer DEF StandsIn
<1>10. "end" \notin Factoring /\ "end" \notin Summing
  BY DEF Factoring, Summing
<1>11. ReadsAll(s, f, i)
  BY <1>2, <1>3, TreesRead
<1>12. Reads(s, f, i, 1, q)
  BY <1>1, <1>6, <1>9, <1>11 DEF ReadsAll
<1>13. f[<<"cl_eval", From(1)>>] = f[<<"summands", Reading(i, q)>>]
  BY <1>7, <1>10, <1>12 DEF Reads
<1>14. f[<<"summands", Reading(i, q)>>] = Reading(i, q)
  BY <1>2, <1>3, <1>6, <1>7, <1>10, FactorsEnd
<1>15. Calculated(s) = Reading(i, q)
  BY <1>4, <1>13, <1>14
<1>16. QED
  BY <1>1, <1>15 DEF Reading

-----------------------------------------------------------------------------
(* The calculator: the text of a number                                    *)

\* No two digits have one value.
LEMMA DigitIs == \A d \in 0 .. 9 : Numerals[d + 1] \in Digits /\ Value(Numerals[d + 1]) = d
<1>1. \A i, j \in 1 .. 10 : Numerals[i] = Numerals[j] => i = j
  <2>1. /\ Numerals[1] = "0" /\ Numerals[2] = "1" /\ Numerals[3] = "2" /\ Numerals[4] = "3"
        /\ Numerals[5] = "4" /\ Numerals[6] = "5" /\ Numerals[7] = "6" /\ Numerals[8] = "7"
        /\ Numerals[9] = "8" /\ Numerals[10] = "9"
    BY DEF Numerals
  <2>2. \A i \in 1 .. 10 : i = 1 \/ i = 2 \/ i = 3 \/ i = 4 \/ i = 5
                           \/ i = 6 \/ i = 7 \/ i = 8 \/ i = 9 \/ i = 10
    OBVIOUS
  <2>3. QED
    BY <2>1, <2>2
<1>2. ASSUME NEW d \in 0 .. 9 PROVE Numerals[d + 1] \in Digits /\ Value(Numerals[d + 1]) = d
  <2>1. PICK e \in 1 .. 10 : e = d + 1
    OBVIOUS
  <2>2. PICK c : c = CHOOSE i \in 1 .. 10 : Numerals[i] = Numerals[e]
    OBVIOUS
  <2>3. c \in 1 .. 10 /\ Numerals[c] = Numerals[e]
    BY <2>2
  <2>4. c = e
    BY <1>1, <2>3
  <2>5. Value(Numerals[e]) = c - 1
    BY <2>2 DEF Value
  <2>6. c - 1 = d
    BY <2>1, <2>4
  <2>7. Numerals[e] \in Digits
    BY MarksDiffer
  <2>8. QED
    BY <2>1, <2>5, <2>6, <2>7
<1>3. QED
  BY <1>2

\* Each place of a number counts ten times the one before it.
LEMMA TensAre ==
  /\ Tens[1] = 1 /\ IntHalf - 1 < 10 * Tens[10]
  /\ \A j \in 1 .. 10 : Tens[j] \in Nat /\ Tens[j] > 0
  /\ \A j \in 1 .. 9 : Tens[j + 1] = 10 * Tens[j]
<1>1. /\ Tens[1] = 1 /\ Tens[2] = 10 /\ Tens[3] = 100 /\ Tens[4] = 1000 /\ Tens[5] = 10000
      /\ Tens[6] = 100000 /\ Tens[7] = 1000000 /\ Tens[8] = 10000000 /\ Tens[9] = 100000000
      /\ Tens[10] = 1000000000
  BY SMT DEF Tens
<1>2. \A j \in 1 .. 10 : j = 1 \/ j = 2 \/ j = 3 \/ j = 4 \/ j = 5
                         \/ j = 6 \/ j = 7 \/ j = 8 \/ j = 9 \/ j = 10
  OBVIOUS
<1>3. \A j \in 1 .. 10 : Tens[j] \in Nat /\ Tens[j] > 0
  BY <1>1, <1>2, SMT
<1>4. \A j \in 1 .. 9 : j = 1 \/ j = 2 \/ j = 3 \/ j = 4 \/ j = 5
                        \/ j = 6 \/ j = 7 \/ j = 8 \/ j = 9
  OBVIOUS
<1>5. /\ 1 + 1 = 2 /\ 2 + 1 = 3 /\ 3 + 1 = 4 /\ 4 + 1 = 5 /\ 5 + 1 = 6 /\ 6 + 1 = 7
      /\ 7 + 1 = 8 /\ 8 + 1 = 9 /\ 9 + 1 = 10
  OBVIOUS
<1>6. \A j \in 1 .. 9 : Tens[j + 1] = 10 * Tens[j]
  BY <1>1, <1>4, <1>5, SMT
<1>7. Tens[1] = 1 /\ IntHalf - 1 < 10 * Tens[10]
  BY <1>1, CalcAssumption, SMT
<1>8. QED
  BY <1>3, <1>6, <1>7

\* A number without its last digits loses the next one by another division.
DividesOn(m, a, b) ==
  /\ m \div a \in Nat /\ m \div b \in Nat
  /\ m \div a = (m \div b) * 10 + ((m \div a) % 10) /\ (m \div a) % 10 \in 0 .. 9

\* By the remainder of the remainder.
LEMMA DivDiv ==
  ASSUME NEW m \in Nat, NEW a \in Nat, a > 0, NEW b, b = 10 * a
  PROVE  DividesOn(m, a, b)
<1>1. PICK q \in Nat : q = m \div a
  OBVIOUS
<1>2. PICK r \in 0 .. a - 1 : m = a * q + r
  <2>1. m = a * (m \div a) + (m % a) /\ m % a \in 0 .. a - 1
    BY DivIs
  <2>2. QED
    BY <1>1, <2>1
<1>3. PICK q2 \in Nat, d \in 0 .. 9 : q = 10 * q2 + d /\ d = q % 10 /\ q2 = q \div 10
  <2>1. q = 10 * (q \div 10) + (q % 10) /\ q % 10 \in 0 .. 9 /\ q \div 10 \in Nat
    OBVIOUS
  <2>2. QED
    BY <2>1
<1>4. b \in Nat /\ b > 0
  OBVIOUS
<1>5. PICK x \in Nat : x = m \div b
  BY <1>4
<1>6. PICK y \in 0 .. b - 1 : m = b * x + y
  <2>1. m = b * (m \div b) + (m % b) /\ m % b \in 0 .. b - 1
    BY <1>4, DivIs
  <2>2. QED
    BY <1>5, <2>1
<1>7. PICK z : z = a * d + r
  OBVIOUS
<1>8. z \in 0 .. b - 1 /\ m = b * q2 + z
  <2>1. PICK u \in Nat, v \in Nat, t \in Nat : u = a * d /\ v = a * q2 /\ t = a * q
    OBVIOUS
  <2>2. u <= 9 * a /\ t = 10 * v + u
    BY <1>3, <2>1
  <2>3. b * q2 = 10 * v
    BY <2>1
  <2>4. QED
    BY <1>2, <1>7, <2>1, <2>2, <2>3
<1>9. y = z
  <2>1. PICK e \in 0 .. b - 1 : e = z
    BY <1>8
  <2>2. PICK c \in Nat : c = b /\ c > 0
    BY <1>4
  <2>3. c * x + y = c * q2 + e /\ y \in 0 .. c - 1 /\ e \in 0 .. c - 1
    BY <1>6, <1>8, <2>1, <2>2
  <2>4. y = e
    BY <2>2, <2>3, OneRemainder
  <2>5. QED
    BY <2>1, <2>4
<1>10. x = q2
  <2>1. PICK e \in Int : e = x - q2
    OBVIOUS
  <2>2. PICK u \in Int, v \in Int, t \in Int : u = b * x /\ v = b * q2 /\ t = b * e
    BY <1>4
  <2>3. t = u - v /\ u = v
    BY <1>4, <1>6, <1>8, <1>9, <2>1, <2>2
  <2>4. ~(e >= 1) /\ ~(e <= -1)
    BY <1>4, <2>2, <2>3, Times
  <2>5. QED
    BY <2>1, <2>4
<1>11. QED
  BY <1>1, <1>3, <1>5, <1>10 DEF DividesOn

\* The text has the digits of the number, from the first that is not zero.
Digit(m, w, i) == (m \div Tens[w + 1 - i]) % 10

\* The text x is that of m, with w digits.
IsWritten(m, x, w) ==
  /\ w \in 1 .. 10 /\ m < 10 * Tens[w]
  /\ x \in Seq(Digits) /\ Len(x) = w /\ \A i \in 1 .. w : Value(x[i]) = Digit(m, w, i)

\* There is a number of digits for each number.
LEMMA WidthIs ==
  ASSUME NEW m \in Nat
  PROVE  \E w \in 1 .. 10 : (w = 1 \/ Tens[w] <= m) /\ (w = 10 \/ m < Tens[w + 1])
<1> DEFINE W == {w \in 1 .. 10 : w = 10 \/ m < Tens[w + 1]}
<1>1. 10 \in W /\ W \subseteq Nat
  OBVIOUS
<1>2. \A w \in 1 .. 10 : w \in W <=> (w = 10 \/ m < Tens[w + 1])
  OBVIOUS
<1>3. W \subseteq 1 .. 10
  OBVIOUS
<1> HIDE DEF W
<1>4. PICK w \in W : \A v \in W : w <= v
  BY <1>1, LeastNat
<1>5. w \in 1 .. 10 /\ (w = 10 \/ m < Tens[w + 1])
  BY <1>2, <1>3
<1>6. w = 1 \/ Tens[w] <= m
  <2>1. SUFFICES ASSUME w # 1 PROVE Tens[w] <= m
    OBVIOUS
  <2>2. PICK v \in 1 .. 9 : v = w - 1 /\ v + 1 = w
    BY <1>5, <2>1
  <2>3. v \notin W
    BY <1>4, <1>5, <2>2
  <2>4. ~(m < Tens[v + 1])
    BY <1>2, <2>2, <2>3
  <2>5. Tens[w] \in Nat
    BY <1>5, TensAre
  <2>6. QED
    BY <2>2, <2>4, <2>5
<1>7. QED
  BY <1>5, <1>6

\* Written has the digits of a number, and no more than it needs.
LEMMA WrittenIs ==
  ASSUME NEW m \in 0 .. IntHalf - 1 PROVE \E w : IsWritten(m, Written(m), w)
<1>1. m \in Nat /\ m < 10 * Tens[10]
  <2>1. PICK h \in Nat, t \in Nat : h = IntHalf /\ t = Tens[10]
    BY HalfIs, TensAre
  <2>2. QED
    BY <2>1, TensAre
<1> DEFINE P(w) == (w = 1 \/ Tens[w] <= m) /\ (w = 10 \/ m < Tens[w + 1])
           width == CHOOSE w \in 1 .. 10 : P(w)
<1>2. \E w \in 1 .. 10 : P(w)
  BY <1>1, WidthIs
<1>3. width \in 1 .. 10 /\ P(width)
  BY <1>2
<1>4. Written(m) = [i \in 1 .. width |-> Numerals[((m \div Tens[width + 1 - i]) % 10) + 1]]
  BY DEF Written
<1> HIDE DEF width
<1>5. m < 10 * Tens[width]
  <2>1. CASE width = 10
    BY <1>1, <2>1, TensAre
  <2>2. CASE width # 10
    <3>1. width \in 1 .. 9 /\ m < Tens[width + 1]
      BY <1>3, <2>2
    <3>2. QED
      BY <3>1, TensAre
  <2>3. QED
    BY <2>1, <2>2
<1>6. ASSUME NEW i \in 1 .. width
      PROVE  Numerals[Digit(m, width, i) + 1] \in Digits /\ Value(Numerals[Digit(m, width, i) + 1]) = Digit(m, width, i)
  <2>1. PICK j \in 1 .. 10 : j = width + 1 - i
    BY <1>3
  <2>2. Tens[j] \in Nat /\ Tens[j] > 0
    BY TensAre
  <2>3. (m \div Tens[j]) % 10 \in 0 .. 9
    <3>1. PICK t \in Nat : t = Tens[j] /\ t > 0
      BY <2>2
    <3>2. m \div t \in Nat
      BY <1>1, <3>1
    <3>3. (m \div t) % 10 \in 0 .. 9
      BY <3>2
    <3>4. QED
      BY <3>1, <3>3
  <2>4. QED
    BY <2>1, <2>3, DigitIs DEF Digit
<1>7. PICK x : x = Written(m)
  OBVIOUS
<1>8. x = [i \in 1 .. width |-> Numerals[Digit(m, width, i) + 1]]
  BY <1>4, <1>7 DEF Digit
<1>9. width \in Nat
  BY <1>3
<1>10. x \in Seq(Digits) /\ Len(x) = width
  <2>1. x \in [1 .. width -> Digits]
    BY <1>6, <1>8
  <2>2. QED
    BY <1>9, <2>1
<1>11. \A i \in 1 .. width : Value(x[i]) = Digit(m, width, i)
  BY <1>6, <1>8
<1>12. IsWritten(m, Written(m), width)
  BY <1>3, <1>5, <1>7, <1>10, <1>11 DEF IsWritten
<1>13. QED
  BY <1>12

\* What is smaller than the divisor has no quotient.
LEMMA NoTimes ==
  ASSUME NEW m \in Nat, NEW b \in Nat, m < b PROVE m \div b = 0
<1>1. PICK q \in Nat : q = m \div b
  <2>1. m \div b \in Nat
    OBVIOUS
  <2>2. QED
    BY <2>1
<1>2. m = b * q + (m % b) /\ m % b \in 0 .. b - 1
  BY <1>1, DivIs
<1>3. ~(q >= 1)
  <2>1. PICK x \in Nat : x = b * q
    OBVIOUS
  <2>2. x <= m
    BY <1>2, <2>1
  <2>3. QED
    BY <2>1, <2>2, Times
<1>4. QED
  BY <1>1, <1>3

\* Read back, the text stands for the number.
LEMMA DigitsStand ==
  ASSUME NEW m \in 0 .. IntHalf - 1, NEW w \in 1 .. 10, m < 10 * Tens[w],
         NEW s, NEW k, Numeral(s, k), Len(s) = k + w,
         \A i \in 1 .. w : Value(s[k + i]) = Digit(m, w, i)
  PROVE  Stands(s) = IF s[1] = "-" THEN -m ELSE m
<1>1. k \in {0, 1} /\ m \in Nat
  BY HalfIs DEF Numeral
<1>2. PICK f \in [0 .. k + w -> Int] :
        /\ f[k] = 0
        /\ \A i \in k + 1 .. k + w : f[i] = f[i - 1] * 10 + Value(s[i])
        /\ Stands(s) = IF s[1] = "-" THEN -f[k + w] ELSE f[k + w]
  BY StandsIs DEF StandsFor
<1> DEFINE G == {i \in 0 .. w : i = 0 \/ f[k + i] = m \div Tens[w + 1 - i]}
<1>3. 0 \in G
  OBVIOUS
<1>4. ASSUME NEW i \in 1 .. w, i - 1 \in G PROVE i \in G
  <2>1. PICK a \in 1 .. 10 : a = w + 1 - i
    OBVIOUS
  <2>2. PICK t : t = Tens[a] /\ t \in Nat /\ t > 0
    BY TensAre
  <2>3. PICK b : b = 10 * t
    OBVIOUS
  <2>4. /\ m \div t \in Nat /\ m \div b \in Nat
        /\ m \div t = (m \div b) * 10 + ((m \div t) % 10) /\ (m \div t) % 10 \in 0 .. 9
    <3>1. DividesOn(m, t, b)
      BY <1>1, <2>2, <2>3, DivDiv
    <3>2. QED
      BY <3>1 DEF DividesOn
  <2>5. k + i \in k + 1 .. k + w /\ k + i - 1 = k + (i - 1)
    BY <1>1
  <2>6. f[k + i] = f[k + (i - 1)] * 10 + ((m \div t) % 10)
    <3>1. Value(s[k + i]) = Digit(m, w, i)
      OBVIOUS
    <3>2. Digit(m, w, i) = (m \div t) % 10
      BY <2>1, <2>2, Zenon DEF Digit
    <3>3. PICK j \in k + 1 .. k + w : j = k + i /\ j - 1 = k + (i - 1)
      BY <1>1, <2>5
    <3>4. f[j] = f[j - 1] * 10 + Value(s[j])
      BY <1>2
    <3>5. QED
      BY <3>1, <3>2, <3>3, <3>4, Zenon
  <2>7. f[k + (i - 1)] = m \div b
    <3>1. CASE i = 1
      <4>1. k + (i - 1) = k /\ a = w
        BY <1>1, <2>1, <3>1
      <4>2. m < b
        BY <2>2, <2>3, <4>1
      <4>3. m \div b = 0
        <5>1. b \in Nat
          BY <2>2, <2>3
        <5>2. QED
          BY <1>1, <4>2, <5>1, NoTimes
      <4>4. QED
        BY <1>2, <4>1, <4>3
    <3>2. CASE i # 1
      <4>1. i - 1 # 0 /\ w + 1 - (i - 1) = a + 1 /\ a \in 1 .. 9
        BY <2>1, <3>2
      <4>2. Tens[a + 1] = b
        BY <2>2, <2>3, <4>1, TensAre
      <4>3. QED
        BY <1>4, <4>1, <4>2
    <3>3. QED
      BY <3>1, <3>2
  <2>8. f[k + i] = m \div t
    BY <2>4, <2>6, <2>7
  <2>9. QED
    BY <2>1, <2>2, <2>8
<1>5. w \in G
  <2>1. w \in Nat
    OBVIOUS
  <2> HIDE DEF G
  <2>2. 0 .. w \subseteq G
    BY <1>3, <1>4, <2>1, UpTo
  <2>3. QED
    BY <2>1, <2>2
<1>6. f[k + w] = m
  <2>1. f[k + w] = m \div Tens[1]
    <3>1. w # 0 /\ w + 1 - w = 1
      OBVIOUS
    <3>2. QED
      BY <1>5, <3>1
  <2>2. m \div 1 = m
    BY <1>1
  <2>3. QED
    BY <2>1, <2>2, TensAre
<1>7. QED
  BY <1>2, <1>6

\* int_to_ascii writes what stands for its number, but for the smallest int.
LEMMA ReadBack ==
  ASSUME NEW n \in -IntHalf .. IntHalf - 1, n # -IntHalf PROVE Stands(int_to_ascii(n)) = n
<1>1. IntHalf \in Nat /\ n \in Int
  BY HalfIs
<1>2. CASE n < 0
  <2>1. PICK m \in 0 .. IntHalf - 1 : m = -n
    BY <1>1, <1>2
  <2>2. PICK x, w : x = Written(m) /\ IsWritten(m, x, w)
    BY WrittenIs
  <2>3. w \in 1 .. 10 /\ m < 10 * Tens[w] /\ x \in Seq(Digits) /\ Len(x) = w
    BY <2>2 DEF IsWritten
  <2>4. PICK a : a = One("-")
    OBVIOUS
  <2>5. a \in Seq(Chars) /\ Len(a) = 1 /\ a[1] = "-"
    <3>1. "-" \in Chars
      BY DEF Chars, Marks
    <3>2. QED
      BY <2>4, <3>1, OneIs
  <2>6. x \in Seq(Chars)
    <3>1. Digits \subseteq Chars
      BY DEF Chars
    <3>2. QED
      BY <2>3, <3>1
  <2>7. PICK s : s = a \o x
    OBVIOUS
  <2>8. Joins(Chars, a, x, s)
    BY <2>5, <2>6, <2>7, Joined
  <2>9. s[1] = "-" /\ Len(s) = 1 + w /\ \A i \in 1 .. w : s[1 + i] = x[i]
    BY <2>3, <2>5, <2>8 DEF Joins
  <2>10. Numeral(s, 1)
    <3>1. \A i \in 1 + 1 .. 1 + w : s[i] \in Digits
      <4>1. ASSUME NEW i \in 1 + 1 .. 1 + w PROVE s[i] \in Digits
        <5>1. PICK j \in 1 .. w : 1 + j = i
          <6>1. i - 1 \in 1 .. w /\ 1 + (i - 1) = i
            BY <2>3
          <6>2. QED
            BY <6>1
        <5>2. s[i] = x[j]
          BY <2>9, <5>1
        <5>3. QED
          BY <2>3, <5>2
      <4>2. QED
        BY <4>1
    <3>2. Len(s) \in Nat /\ Len(s) > 1
      BY <2>3, <2>9
    <3>3. QED
      BY <2>9, <3>1, <3>2 DEF Numeral
  <2>11. \A i \in 1 .. w : Value(s[1 + i]) = Digit(m, w, i)
    BY <2>2, <2>9 DEF IsWritten
  <2>12. Stands(s) = -m
    BY <2>3, <2>9, <2>10, <2>11, DigitsStand
  <2>13. int_to_ascii(n) = s
    BY <1>2, <2>1, <2>2, <2>4, <2>7, Zenon DEF int_to_ascii, One
  <2>14. QED
    BY <1>1, <2>1, <2>12, <2>13
<1>3. CASE ~(n < 0)
  <2>1. n \in 0 .. IntHalf - 1
    BY <1>1, <1>3
  <2>2. PICK s, w : s = Written(n) /\ IsWritten(n, s, w)
    BY <2>1, WrittenIs
  <2>3. w \in 1 .. 10 /\ n < 10 * Tens[w] /\ s \in Seq(Digits) /\ Len(s) = w
    BY <2>2 DEF IsWritten
  <2>4. \A i \in 1 .. w : s[i] \in Digits
    BY <2>3
  <2>5. s[1] \in Digits
    BY <2>3, <2>4
  <2>6. s[1] \notin {"-", "+"}
    BY <2>5, MarksAre
  <2>7. Numeral(s, 0) /\ Len(s) = 0 + w
    BY <2>3, <2>4, <2>6 DEF Numeral
  <2>8. \A i \in 1 .. w : Value(s[0 + i]) = Digit(n, w, i)
    <3>1. \A i \in 1 .. w : 0 + i = i
      OBVIOUS
    <3>2. QED
      BY <2>2, <3>1 DEF IsWritten
  <2>9. Stands(s) = n
    BY <2>1, <2>3, <2>6, <2>7, <2>8, DigitsStand
  <2>10. int_to_ascii(n) = s
    BY <1>3, <2>2, Zenon DEF int_to_ascii
  <2>11. QED
    BY <2>9, <2>10
<1>4. QED
  BY <1>2, <1>3

\* The text of a number is some sequence.
LEMMA NumberIsText ==
  ASSUME NEW n \in Int PROVE \E W : int_to_ascii(n) \in Seq(W)
<1>1. ASSUME NEW m \in Nat PROVE \E W : Written(m) \in Seq(W)
  <2> DEFINE width == CHOOSE w \in 1 .. 10 : (w = 1 \/ Tens[w] <= m) /\ (w = 10 \/ m < Tens[w + 1])
             digit(i) == Numerals[((m \div Tens[width + 1 - i]) % 10) + 1]
  <2>1. width \in 1 .. 10
    BY WidthIs
  <2>2. Written(m) = [i \in 1 .. width |-> digit(i)]
    BY DEF Written
  <2> HIDE DEF width, digit
  <2>3. width \in Nat
    BY <2>1
  <2>4. [i \in 1 .. width |-> digit(i)] \in Seq({digit(i) : i \in 1 .. width})
    BY <2>3
  <2>5. QED
    BY <2>2, <2>4
<1>2. CASE n = -IntHalf
  <2>1. int_to_ascii(n) = <<"-", "?">>
    BY <1>2 DEF int_to_ascii
  <2>2. <<"-", "?">> \in Seq({"-", "?"})
    OBVIOUS
  <2>3. QED
    BY <2>1, <2>2
<1>3. CASE n # -IntHalf /\ n < 0
  <2>1. int_to_ascii(n) = <<"-">> \o Written(-n)
    BY <1>3 DEF int_to_ascii
  <2>2. PICK W : Written(-n) \in Seq(W)
    <3>1. -n \in Nat
      BY <1>3
    <3>2. QED
      BY <1>1, <3>1
  <2> DEFINE U == {"-"} \cup W
  <2>3. <<"-">> \in Seq(U) /\ Written(-n) \in Seq(U)
    BY <2>2
  <2> HIDE DEF U
  <2>4. <<"-">> \o Written(-n) \in Seq(U)
    <3> DEFINE minus == <<"-">>
               digits == Written(-n)
    <3>1. minus \in Seq(U) /\ digits \in Seq(U)
      BY <2>3
    <3> HIDE DEF minus, digits
    <3>2. minus \o digits \in Seq(U)
      BY <3>1
    <3>3. QED
      BY <3>2 DEF minus, digits
  <2>5. QED
    BY <2>1, <2>4
<1>4. CASE n # -IntHalf /\ ~(n < 0)
  <2>1. int_to_ascii(n) = Written(n) /\ n \in Nat
    BY <1>4 DEF int_to_ascii
  <2>2. QED
    BY <1>1, <2>1
<1>5. QED
  BY <1>2, <1>3, <1>4

\* What the parser makes of any line is a number.
LEMMA CalculatedInt ==
  ASSUME NEW W, NEW s \in Seq(W) PROVE Calculated(s).v \in Int
<1>1. PICK f \in Parsers(s) : IsParser(s, f)
  BY ParserExists
<1>2. Calculated(s) = f[<<"cl_eval", From(1)>>]
  BY <1>1, CalculatedIs
<1>3. 1 \in 1 .. Len(s) + 1
  OBVIOUS
<1>4. PICK l \in Parsed(s) : l = From(1)
  BY <1>3, FromIs
<1>5. "cl_eval" \in Rules
  BY RanksAre
<1>6. f[<<"cl_eval", l>>] \in Parsed(s)
  BY <1>5, CallIs
<1>7. Calculated(s) \in Parsed(s)
  BY <1>2, <1>4, <1>6
<1>8. QED
  BY <1>7 DEF Parsed

-----------------------------------------------------------------------------
(* The inductive invariant                                                 *)

\* Texts are put together.
LEMMA JoinedIs ==
  ASSUME NEW V, NEW W, NEW a \in Seq(V), NEW b \in Seq(W), NEW c, c = a \o b
  PROVE  c \in Seq(V \cup W)
<1>1. a \in Seq(V \cup W) /\ b \in Seq(V \cup W)
  OBVIOUS
<1> DEFINE U == V \cup W
<1> HIDE DEF U
<1>2. ASSUME a \in Seq(U), b \in Seq(U) PROVE a \o b \in Seq(U)
  BY <1>2
<1>3. QED
  BY <1>1, <1>2 DEF U

\* What Calculate prints is a text.
LEMMA ResultIsText ==
  ASSUME NEW W, NEW arg \in Seq(W), NEW n \in Int
  PROVE  \E U : arg \o <<"=">> \o int_to_ascii(n) \o <<NL>> \in Seq(U)
<1>1. PICK digits, D : digits = int_to_ascii(n) /\ digits \in Seq(D)
  BY NumberIsText
<1>2. PICK eq, nl : eq = <<"=">> /\ nl = <<NL>>
  OBVIOUS
<1>3. eq \in Seq({"="}) /\ nl \in Seq({NL})
  BY <1>2
<1>4. PICK a : a = arg \o eq
  OBVIOUS
<1>4a. a \in Seq(W \cup {"="})
  BY <1>3, <1>4, JoinedIs
<1>5. PICK b : b = a \o digits
  OBVIOUS
<1>5a. b \in Seq((W \cup {"="}) \cup D)
  BY <1>1, <1>4a, <1>5, JoinedIs
<1>6. PICK c : c = b \o nl
  OBVIOUS
<1>6a. c \in Seq(((W \cup {"="}) \cup D) \cup {NL})
  BY <1>3, <1>5a, <1>6, JoinedIs
<1>7. c = arg \o <<"=">> \o int_to_ascii(n) \o <<NL>>
  BY <1>1, <1>2, <1>4, <1>5, <1>6
<1>8. QED
  BY <1>6a, <1>7

\* What the other commands print of the line is a text.
LEMMA EchoIsText ==
  ASSUME NEW W, NEW arg \in Seq(W)
  PROVE  /\ \E U : Append(arg, NL) \in Seq(U)
         /\ \E U : <<"'">> \o arg \o <<"'", NL>> \in Seq(U)
<1>1. PICK quote, close : quote = <<"'">> /\ close = <<"'", NL>>
  OBVIOUS
<1>2. quote \in Seq({"'"}) /\ close \in Seq({"'", NL})
  BY <1>1
<1>3. PICK a : a = quote \o arg
  OBVIOUS
<1>3a. a \in Seq({"'"} \cup W)
  BY <1>2, <1>3, JoinedIs
<1>4. PICK b : b = a \o close
  OBVIOUS
<1>4a. b \in Seq(({"'"} \cup W) \cup {"'", NL})
  BY <1>2, <1>3a, <1>4, JoinedIs
<1>5. Append(arg, NL) \in Seq(W \cup {NL})
  <2> DEFINE U == W \cup {NL}
  <2>1. arg \in Seq(U) /\ NL \in U
    OBVIOUS
  <2> HIDE DEF U
  <2>2. Append(arg, NL) \in Seq(U)
    BY <2>1
  <2>3. QED
    BY <2>2 DEF U
<1>6. b = <<"'">> \o arg \o <<"'", NL>>
  BY <1>1, <1>3, <1>4
<1>7. QED
  BY <1>4a, <1>5, <1>6

\* The machine, between any two steps
ShellInv ==
  /\ queue \in Seq(Keys)
  /\ cmd_buffer \in Seq(Keys) /\ Len(cmd_buffer) <= BufferSize
  /\ mode # "read" => cmd_buffer = <<>>
  /\ ScreenOK(screen)
  /\ mode = "read" => LineOn(screen, cmd_buffer)
  /\ RainOK(rain)
  /\ SplitRight

\* What the invariant says of the screen and of the rain
Ready(s, drop) == ScreenOK(s) /\ LineOn(s, <<>>) /\ RainOK(drop)

\* A command that prints and returns leaves the prompt and an empty line.
LEMMA SaysIs ==
  ASSUME NEW s, ScreenOK(s), NEW W, NEW text \in Seq(W), Says(s, text)
  PROVE  mode' = "read" /\ Ready(screen', rain')
BY FreshLine, DryIs DEF Says, Ready

\* The line is empty, and nothing else has changed that matters.
LEMMA EmptyLine ==
  ASSUME queue' \in Seq(Keys), cmd_buffer' = <<>>, ScreenOK(screen'), RainOK(rain'),
         mode' = "read" => LineOn(screen', <<>>), SplitRight'
  PROVE  ShellInv'
<1>1. \A e : e = <<>> => e \in Seq(Keys) /\ Len(e) = 0
  OBVIOUS
<1>2. 0 <= BufferSize
  BY SizeIs
<1>3. cmd_buffer' \in Seq(Keys) /\ Len(cmd_buffer') = 0
  BY <1>1
<1> DEFINE none == <<>>
<1>4. cmd_buffer' = none /\ (mode' = "read" => LineOn(screen', none))
  OBVIOUS
<1> HIDE DEF none
<1>5. mode' = "read" => LineOn(screen', cmd_buffer')
  BY <1>4
<1>6. QED
  BY <1>2, <1>3, <1>4, <1>5 DEF ShellInv, none

\* The shell starts at its first prompt.
LEMMA InitIs == Init => ShellInv
<1>1. SUFFICES ASSUME Init PROVE ShellInv
  OBVIOUS
<1>2. PICK s : s = Prompted(Cleared)
  OBVIOUS
<1>3. ScreenOK(s) /\ s.at >= 1 /\ Cell(s, s.at - 1) = "$"
  BY <1>2, ClearedIs, PromptedIs
<1>4. s.at \in Nat
  BY <1>3, ScreenIs DEF ScreenOK
<1>5. LineOn(s, <<>>)
  <2> DEFINE none == <<>>
  <2>1. Len(none) = 0 /\ \A j \in 1 .. 0 : FALSE
    OBVIOUS
  <2> HIDE DEF none
  <2>2. s.at - 0 - 1 = s.at - 1 /\ s.at > 0
    BY <1>3, <1>4
  <2>3. LineOn(s, none)
    BY <1>3, <2>1, <2>2 DEF LineOn, Shows
  <2>4. QED
    BY <2>3 DEF none
<1>6. screen = s /\ queue = <<>> /\ cmd_buffer = <<>> /\ rain = Dry /\ ran = NothingRun
  BY <1>1, <1>2 DEF Init
<1>7. <<>> \in Seq(Keys) /\ Len(<<>>) = 0 /\ 0 <= BufferSize
  <2>1. \A e : e = <<>> => e \in Seq(Keys) /\ Len(e) = 0
    OBVIOUS
  <2>2. QED
    BY <2>1, SizeIs
<1>8. SplitRight
  BY <1>6, NothingIs DEF SplitRight
<1>9. RainOK(rain)
  BY <1>6, DryIs
<1> HIDE DEF Init
<1>10. ScreenOK(screen) /\ LineOn(screen, cmd_buffer)
  BY <1>3, <1>5, <1>6
<1>11. queue \in Seq(Keys) /\ cmd_buffer \in Seq(Keys) /\ Len(cmd_buffer) <= BufferSize
  BY <1>6, <1>7
<1>12. QED
  BY <1>6, <1>8, <1>9, <1>10, <1>11 DEF ShellInv

\* The words and arguments that a command is given are those of the line.
LEMMA RunIs ==
  ASSUME NEW line \in Seq(Keys), Execute(line)
  PROVE  /\ SplitRight'
         /\ \E V : split_command(line)[2] \in Seq(V)
         /\ \E V : split_command(line)[1] \in Seq(V)
<1>1. WordSize \in Nat /\ NameSize \in Nat
  BY ShellAssumption
<1>2. PICK words : words = split_command(line)
  OBVIOUS
<1>3. WordsOf(line, words, WordSize) /\ words[2] \in Seq(Keys)
  BY <1>1, <1>2, SplitIs DEF split_command
<1>4. PICK args : args = split_two_args(words[2])
  OBVIOUS
<1>5. WordsOf(words[2], args, NameSize)
  BY <1>1, <1>3, <1>4, SplitIs DEF split_two_args
<1>6. ran'.line = line /\ ran'.words = words /\ ran'.args = args
  <2>1. \E x : ran' = [line |-> line, words |-> words, args |-> args, shown |-> x]
    BY <1>2, <1>4 DEF Execute
  <2>2. QED
    BY <2>1
<1>7. SplitRight'
  BY <1>3, <1>5, <1>6 DEF SplitRight
<1>8. words[1] \in Seq(Keys)
  BY <1>1, <1>2, FirstWordIs DEF split_command
<1>9. QED
  BY <1>2, <1>3, <1>7, <1>8

-----------------------------------------------------------------------------
(* Every step keeps it                                                     *)

\* The console after a return: the cursor is below the line.
LEMMA PutOK ==
  ASSUME NEW s, ScreenOK(s), NEW ch PROVE ScreenOK(Put(s, ch))
<1>1. PICK V : Blank \in V /\ s \in Screens(V)
  BY DEF ScreenOK
<1>2. s \in Screens(V \cup {ch}) /\ Blank \in V \cup {ch} /\ ch \in V \cup {ch}
  BY <1>1, WiderScreens
<1>3. Put(s, ch) \in Screens(V \cup {ch})
  BY <1>2, PutStays
<1>4. QED
  BY <1>2, <1>3 DEF ScreenOK

\* What the commands say is text.
LEMMA SpokenIs ==
  ASSUME NEW text \in Spoken PROVE \E W : text \in Seq(W)
BY ShellAssumption

\* A key is taken from the queue.
LEMMA TakenIs ==
  ASSUME queue \in Seq(Keys), KeyTaken
  PROVE  queue' \in Seq(Keys) /\ queue[1] \in Keys
<1>1. queue # <<>> /\ queue' = Tail(queue)
  BY DEF KeyTaken
<1>2. \A q \in Seq(Keys) : q # <<>> => Tail(q) \in Seq(Keys) /\ q[1] \in Keys
  OBVIOUS
<1>3. QED
  BY <1>1, <1>2

\* A command has been run: the prompt is shown again, or another mode is entered.
LEMMA ExecuteIs ==
  ASSUME ScreenOK(screen), RainOK(rain), NEW line \in Seq(Keys), Execute(line), mode = "read"
  PROVE  /\ SplitRight' /\ ScreenOK(screen') /\ RainOK(rain')
         /\ mode' = "read" => LineOn(screen', <<>>)
<1>1. /\ SplitRight'
      /\ \E V : split_command(line)[2] \in Seq(V)
      /\ \E V : split_command(line)[1] \in Seq(V)
  BY RunIs
<1>2. PICK cmd, arg : cmd = split_command(line)[1] /\ arg = split_command(line)[2]
  OBVIOUS
<1>3. PICK s : s = Put(screen, NL)
  OBVIOUS
<1>4. ScreenOK(s)
  BY <1>3, PutOK
<1>5. ASSUME NEW t, ScreenOK(t), NEW text, Says(t, text), \E W : text \in Seq(W)
      PROVE  mode' = "read" /\ ScreenOK(screen') /\ RainOK(rain') /\ LineOn(screen', <<>>)
  BY <1>5, SaysIs DEF Ready
<1>6. ASSUME NEW m, m # "read", Takes(m)
      PROVE  mode' # "read" /\ ScreenOK(screen') /\ RainOK(rain')
  BY <1>6, ClearedIs, DryIs DEF Takes
<1>7. CASE Calculate(s, arg)
  <2>1. CASE \E text \in Spoken : Says(s, text)
    BY <1>1, <1>4, <1>5, <2>1, SpokenIs
  <2>2. CASE screen' = s /\ mode' = "halted" /\ UNCHANGED <<round, rain>>
    BY <1>1, <1>4, <2>2
  <2>3. CASE Says(s, arg \o <<"=">> \o int_to_ascii(Calculated(arg).v) \o <<NL>>)
    <3>1. PICK text : text = arg \o <<"=">> \o int_to_ascii(Calculated(arg).v) \o <<NL>>
      OBVIOUS
    <3>2. \E W : text \in Seq(W)
      BY <1>1, <1>2, <3>1, CalculatedInt, ResultIsText
    <3>3. Says(s, text)
      BY <2>3, <3>1
    <3>4. QED
      BY <1>1, <1>4, <1>5, <3>2, <3>3
  <2>4. QED
    BY <1>7, <2>1, <2>2, <2>3 DEF Calculate
<1>8. CASE Says(s, Append(arg, NL))
  <2>1. PICK text : text = Append(arg, NL)
    OBVIOUS
  <2>2. \E W : text \in Seq(W)
    BY <1>1, <1>2, <2>1, EchoIsText
  <2>3. Says(s, text)
    BY <1>8, <2>1
  <2>4. QED
    BY <1>1, <1>4, <1>5, <2>2, <2>3
<1>9. CASE \E text \in Spoken : Says(s, text)
  BY <1>1, <1>4, <1>5, <1>9, SpokenIs
<1>10. \E W : <<>> \in Seq(W)
  OBVIOUS
<1>11. CASE Says(Cleared, <<>>)
  <2>1. PICK text : text = <<>>
    OBVIOUS
  <2>2. QED
    BY <1>1, <1>5, <1>10, <1>11, <2>1, ClearedIs
<1>12. CASE Says(s, <<>>)
  <2>1. PICK text : text = <<>>
    OBVIOUS
  <2>2. QED
    BY <1>1, <1>4, <1>5, <1>10, <1>12, <2>1
<1>13. CASE screen' = s /\ mode' = "sleep" /\ UNCHANGED <<round, rain>>
  BY <1>1, <1>4, <1>13
<1>14. CASE Takes("matrix") \/ Takes("hack") \/ Takes("snake")
  BY <1>1, <1>6, <1>14
<1>15. CASE Says(s, <<"'">> \o cmd \o <<"'", NL>>)
  <2>1. PICK text : text = <<"'">> \o cmd \o <<"'", NL>>
    OBVIOUS
  <2>2. \E W : text \in Seq(W)
    BY <1>1, <1>2, <2>1, EchoIsText
  <2>3. Says(s, text)
    BY <1>15, <2>1
  <2>4. QED
    BY <1>1, <1>4, <1>5, <2>2, <2>3
<1>16. \/ Calculate(s, arg) \/ Says(s, Append(arg, NL))
       \/ \E text \in Spoken : Says(s, text)
       \/ Says(Cleared, <<>>) \/ Says(s, <<>>)
       \/ screen' = s /\ mode' = "sleep" /\ UNCHANGED <<round, rain>>
       \/ Takes("matrix") \/ Takes("hack") \/ Takes("snake")
       \/ Says(s, <<"'">> \o cmd \o <<"'", NL>>)
  BY <1>2, <1>3 DEF Execute
<1>17. QED
  BY <1>7, <1>8, <1>9, <1>11, <1>12, <1>13, <1>14, <1>15, <1>16

\* Every step keeps the invariant.
LEMMA StepKeeps == ShellInv /\ [Next]_vars => ShellInv'
<1>1. SUFFICES ASSUME ShellInv, [Next]_vars PROVE ShellInv'
  OBVIOUS
<1>2. /\ queue \in Seq(Keys)
      /\ cmd_buffer \in Seq(Keys) /\ Len(cmd_buffer) <= BufferSize
      /\ mode # "read" => cmd_buffer = <<>>
      /\ ScreenOK(screen)
      /\ mode = "read" => LineOn(screen, cmd_buffer)
      /\ RainOK(rain)
      /\ SplitRight
  BY <1>1 DEF ShellInv
<1>3. KeyTaken => queue' \in Seq(Keys) /\ queue[1] \in Keys
  BY <1>2, TakenIs
<1>4. ran' = NothingRun \/ ran' = ran => SplitRight'
  <2>1. ran' = ran => SplitRight'
    BY <1>2 DEF SplitRight
  <2>2. ASSUME ran' = NothingRun PROVE SplitRight'
    BY <2>2, NothingIs DEF SplitRight
  <2>3. QED
    BY <2>1, <2>2
<1>5. CASE Return
  <2>1. KeyTaken /\ Execute(cmd_buffer) /\ cmd_buffer' = <<>> /\ mode = "read"
    BY <1>5 DEF Return
  <2>2. /\ SplitRight' /\ ScreenOK(screen') /\ RainOK(rain')
        /\ mode' = "read" => LineOn(screen', <<>>)
    BY <1>2, <2>1, ExecuteIs
  <2>3. QED
    BY <1>3, <2>1, <2>2, EmptyLine
<1>6. CASE Backspace
  <2>1. /\ mode = "read" /\ KeyTaken /\ ran' = NothingRun /\ mode' = mode /\ rain' = rain
        /\ IF cmd_buffer # <<>>
             THEN /\ cmd_buffer' = SubSeq(cmd_buffer, 1, Len(cmd_buffer) - 1)
                  /\ screen' = Put(screen, BS)
             ELSE cmd_buffer' = cmd_buffer /\ screen' = screen
    BY <1>6 DEF Backspace
  <2>2. CASE cmd_buffer = <<>>
    BY <1>2, <1>3, <1>4, <2>1, <2>2 DEF ShellInv
  <2>3. CASE cmd_buffer # <<>>
    <3>1. ScreenOK(screen') /\ LineOn(screen', cmd_buffer')
      BY <1>2, <2>1, <2>3, BackOn
    <3>2. cmd_buffer' \in Seq(Keys) /\ Len(cmd_buffer') <= BufferSize
      <4>1. \A q \in Seq(Keys) : q # <<>> =>
              /\ SubSeq(q, 1, Len(q) - 1) \in Seq(Keys)
              /\ Len(SubSeq(q, 1, Len(q) - 1)) = Len(q) - 1 /\ Len(q) \in Nat
        <5>1. TAKE q \in Seq(Keys)
        <5>2. HAVE q # <<>>
        <5>3. Len(q) \in Nat /\ Len(q) >= 1
          BY <5>2
        <5>4. PICK m \in Nat : m = Len(q) - 1 /\ m <= Len(q)
          <6>1. Len(q) - 1 \in Nat /\ Len(q) - 1 <= Len(q)
            BY <5>3
          <6>2. QED
            BY <6>1
        <5>5. SubSeq(q, 1, m) \in Seq(Keys) /\ Len(SubSeq(q, 1, m)) = m
          BY <5>3, <5>4
        <5>6. QED
          BY <5>3, <5>4, <5>5
      <4>2. PICK n \in Nat : n = BufferSize
        BY SizeIs
      <4>3. cmd_buffer' \in Seq(Keys) /\ Len(cmd_buffer') = Len(cmd_buffer) - 1 /\ Len(cmd_buffer) \in Nat
        BY <1>2, <2>1, <2>3, <4>1
      <4>4. QED
        BY <1>2, <4>2, <4>3
    <3>3. QED
      BY <1>2, <1>3, <1>4, <2>1, <3>1, <3>2 DEF ShellInv
  <2>4. QED
    BY <2>2, <2>3
<1>7. CASE Character
  <2>1. /\ mode = "read" /\ KeyTaken /\ ran' = NothingRun /\ mode' = mode /\ rain' = rain
        /\ queue[1] # NL /\ queue[1] # BS
        /\ IF Len(cmd_buffer) < BufferSize
             THEN cmd_buffer' = Append(cmd_buffer, queue[1]) /\ screen' = Put(screen, queue[1])
             ELSE cmd_buffer' = cmd_buffer /\ screen' = screen
    BY <1>7 DEF Character
  <2>2. CASE ~(Len(cmd_buffer) < BufferSize)
    BY <1>2, <1>3, <1>4, <2>1, <2>2 DEF ShellInv
  <2>3. CASE Len(cmd_buffer) < BufferSize
    <3>1. PICK ch \in Keys : ch = queue[1]
      BY <1>3, <2>1
    <3>2. ScreenOK(screen') /\ LineOn(screen', cmd_buffer')
      BY <1>2, <2>1, <2>3, <3>1, TypeOn
    <3>3. cmd_buffer' \in Seq(Keys) /\ Len(cmd_buffer') <= BufferSize
      <4>1. \A q \in Seq(Keys), c \in Keys :
              Append(q, c) \in Seq(Keys) /\ Len(Append(q, c)) = Len(q) + 1 /\ Len(q) \in Nat
        OBVIOUS
      <4>2. PICK n \in Nat : n = BufferSize
        BY SizeIs
      <4>3. cmd_buffer' \in Seq(Keys) /\ Len(cmd_buffer') = Len(cmd_buffer) + 1 /\ Len(cmd_buffer) \in Nat
        BY <1>2, <2>1, <2>3, <3>1, <4>1
      <4>4. QED
        BY <2>3, <4>2, <4>3
    <3>4. QED
      BY <1>2, <1>3, <1>4, <2>1, <3>2, <3>3 DEF ShellInv
  <2>4. QED
    BY <2>2, <2>3
<1>8. \E W : <<>> \in Seq(W)
  OBVIOUS
<1>9. ASSUME Ends, mode # "read", KeyTaken PROVE ShellInv'
  <2>1. PICK text : text = <<>>
    OBVIOUS
  <2>2. Says(Cleared, text) /\ cmd_buffer' = cmd_buffer /\ ran' = ran
    BY <1>9, <2>1 DEF Ends
  <2>3. \E W : text \in Seq(W)
    BY <1>8, <2>1
  <2>4. Ready(screen', rain')
    BY <2>2, <2>3, ClearedIs, SaysIs
  <2>5. QED
    BY <1>2, <1>3, <1>4, <1>9, <2>2, <2>4, EmptyLine DEF Ready
<1>10. CASE Wake
  <2>1. PICK text \in Spoken : Says(screen, text)
    BY <1>10 DEF Wake
  <2>2. mode # "read" /\ queue' = queue /\ cmd_buffer' = cmd_buffer /\ ran' = ran
    BY <1>10 DEF Wake
  <2>3. Ready(screen', rain')
    BY <1>2, <2>1, SaysIs, SpokenIs
  <2>4. QED
    BY <1>2, <1>4, <2>2, <2>3, EmptyLine DEF Ready
<1>11. CASE MatrixKey \/ HackKey \/ OverKey
  BY <1>9, <1>11 DEF MatrixKey, HackKey, OverKey
<1>12. CASE MatrixPass
  <2>1. /\ mode # "read" /\ rain' \in Passes(rain) /\ queue' = queue /\ mode' = mode
        /\ cmd_buffer' = cmd_buffer /\ screen' = screen /\ ran' = ran
    BY <1>12 DEF MatrixPass
  <2>2. RainOK(rain')
    BY <1>2, <2>1, PassesIs
  <2>3. QED
    BY <1>2, <1>4, <2>1, <2>2, EmptyLine
<1>13. CASE HackRound
  <2>1. /\ mode # "read" /\ mode' # "read" /\ queue' = queue
        /\ cmd_buffer' = cmd_buffer /\ rain' = rain /\ ran' = ran
    BY <1>13 DEF HackRound
  <2>2. PICK text \in Spoken : screen' = Printed(screen, text)
    BY <1>13 DEF HackRound
  <2>3. ScreenOK(screen')
    BY <1>2, <2>2, PrintedOK, SpokenIs
  <2>4. QED
    BY <1>2, <1>4, <2>1, <2>3, EmptyLine
<1>14. CASE SnakeKey
  <2>1. /\ mode # "read" /\ mode' # "read" /\ KeyTaken
        /\ cmd_buffer' = cmd_buffer /\ screen' = screen /\ rain' = rain /\ ran' = ran
    BY <1>14 DEF SnakeKey
  <2>2. QED
    BY <1>2, <1>3, <1>4, <2>1, EmptyLine
<1>15. CASE SnakeDies
  <2>1. /\ mode # "read" /\ mode' # "read" /\ queue' = queue
        /\ cmd_buffer' = cmd_buffer /\ screen' = screen /\ rain' = rain /\ ran' = ran
    BY <1>15 DEF SnakeDies
  <2>2. QED
    BY <1>2, <1>4, <2>1, EmptyLine
<1>16. CASE Strike
  <2>1. /\ ran' = NothingRun /\ mode' = mode /\ cmd_buffer' = cmd_buffer
        /\ screen' = screen /\ rain' = rain
    BY <1>16 DEF Strike
  <2>2. PICK c \in Keys : queue' = Append(queue, c)
    BY <1>16 DEF Strike
  <2>3. \A q \in Seq(Keys), k \in Keys : Append(q, k) \in Seq(Keys)
    OBVIOUS
  <2>4. queue' \in Seq(Keys)
    BY <1>2, <2>2, <2>3
  <2>5. QED
    BY <1>2, <1>4, <2>1, <2>4 DEF ShellInv
<1>17. CASE Poke
  <2>1. /\ rain' = rain /\ queue' = queue /\ mode' = mode
        /\ cmd_buffer' = cmd_buffer /\ ran' = ran
    BY <1>17 DEF Poke
  <2>2. PICK c \in PokeCols, mark \in {Old, Blank} : screen' = [screen EXCEPT !.cells[0][c] = mark]
    BY <1>17 DEF Poke
  <2>3. Len(cmd_buffer) \in Nat
    BY <1>2
  <2>4. ScreenOK(screen') /\ (mode' = "read" => LineOn(screen', cmd_buffer'))
    BY <1>2, <2>1, <2>2, <2>3, PokeOn
  <2>5. QED
    BY <1>2, <1>4, <2>1, <2>4 DEF ShellInv
<1>18. CASE RedrawLine \/ Wheel
  <2>1. /\ queue' = queue /\ mode' = mode /\ cmd_buffer' = cmd_buffer
        /\ screen' = screen /\ ran' = ran
    BY <1>18 DEF RedrawLine, Wheel
  <2>2. PICK lines : rain' = Redrawn(rain, lines)
    BY <1>18 DEF RedrawLine, Wheel
  <2>3. RainOK(rain')
    BY <1>2, <2>2, RedrawnIs
  <2>4. QED
    BY <1>2, <1>4, <2>1, <2>3 DEF ShellInv
<1>19. CASE UNCHANGED vars
  <2>1. /\ queue' = queue /\ mode' = mode /\ cmd_buffer' = cmd_buffer
        /\ screen' = screen /\ rain' = rain /\ ran' = ran
    BY <1>19 DEF vars
  <2>2. QED
    BY <1>2, <1>4, <2>1 DEF ShellInv
<1>20. QED
  BY <1>1, <1>5, <1>6, <1>7, <1>10, <1>11, <1>12, <1>13, <1>14, <1>15, <1>16, <1>17, <1>18, <1>19
     DEF Next, Step

\* The invariant says what the line shows.
LEMMA InvShows == ShellInv => ShownIsTyped
<1>1. SUFFICES ASSUME ShellInv, mode = "read" PROVE ShownIsTyped
  BY DEF ShownIsTyped
<1>2. cmd_buffer \in Seq(Keys) /\ LineOn(screen, cmd_buffer) /\ ScreenOK(screen)
  BY <1>1 DEF ShellInv
<1>3. screen.at \in Nat /\ Size \in Nat
  BY <1>2, ScreenIs, SizeIs DEF ScreenOK
<1> DEFINE line == <<"$">> \o cmd_buffer
           n == Len(cmd_buffer)
<1>4. /\ n \in Nat /\ Len(line) = n + 1 /\ line[1] = "$" /\ DOMAIN line = 1 .. n + 1
      /\ \A i \in 2 .. n + 1 : line[i] = cmd_buffer[i - 1]
  <2>1. PICK d : d = <<"$">>
    OBVIOUS
  <2>2. d \in Seq({"$"}) /\ Len(d) = 1 /\ d[1] = "$"
    BY <2>1
  <2>3. ASSUME NEW V, NEW W, NEW a \in Seq(V), NEW b \in Seq(W), Len(a) = 1
        PROVE  /\ Len(a \o b) = Len(b) + 1 /\ (a \o b)[1] = a[1] /\ DOMAIN (a \o b) = 1 .. Len(b) + 1
               /\ \A i \in 2 .. Len(b) + 1 : (a \o b)[i] = b[i - 1]
    <3>1. Len(a) \in Nat /\ Len(b) \in Nat
      OBVIOUS
    <3>2. \A U : a \in Seq(U) /\ b \in Seq(U) =>
            /\ Len(a \o b) = Len(a) + Len(b) /\ DOMAIN (a \o b) = 1 .. Len(a) + Len(b)
            /\ \A i \in 1 .. Len(a) + Len(b) :
                 (a \o b)[i] = IF i <= Len(a) THEN a[i] ELSE b[i - Len(a)]
      OBVIOUS
    <3>3. a \in Seq(V \cup W) /\ b \in Seq(V \cup W)
      OBVIOUS
    <3>4. /\ Len(a \o b) = Len(a) + Len(b) /\ DOMAIN (a \o b) = 1 .. Len(a) + Len(b)
          /\ \A i \in 1 .. Len(a) + Len(b) :
               (a \o b)[i] = IF i <= Len(a) THEN a[i] ELSE b[i - Len(a)]
      BY <3>2, <3>3
    <3>5. PICK c, n1 : c = a \o b /\ n1 = Len(b)
      OBVIOUS
    <3>6. /\ Len(c) = 1 + n1 /\ DOMAIN c = 1 .. 1 + n1 /\ n1 \in Nat
          /\ \A i \in 1 .. 1 + n1 : c[i] = IF i <= 1 THEN a[i] ELSE b[i - 1]
      BY <2>3, <3>1, <3>4, <3>5
    <3>7. /\ Len(c) = n1 + 1 /\ c[1] = a[1] /\ DOMAIN c = 1 .. n1 + 1
          /\ \A i \in 2 .. n1 + 1 : c[i] = b[i - 1]
      BY <3>6
    <3>8. QED
      BY <3>5, <3>7
  <2>4. n \in Nat
    BY <1>2
  <2>5. line = d \o cmd_buffer
    BY <2>1
  <2> HIDE DEF line
  <2>6. QED
    BY <1>2, <2>2, <2>3, <2>4, <2>5
<1> HIDE DEF line
<1>5. screen.at > n /\ Shows(screen, screen.at - n - 1, "$")
      /\ \A j \in 1 .. n : Shows(screen, screen.at - n - 1 + j, cmd_buffer[j])
  BY <1>2 DEF LineOn
<1>6. screen.at - Len(line) >= 0 /\ screen.at - Len(line) = screen.at - n - 1
  BY <1>3, <1>4, <1>5
<1>7. ASSUME NEW i \in DOMAIN line
      PROVE  Shows(screen, (screen.at - Len(line)) + i - 1, line[i])
  <2>1. CASE i = 1
    <3>1. (screen.at - Len(line)) + i - 1 = screen.at - n - 1
      BY <1>3, <1>4, <1>6, <2>1
    <3>2. QED
      BY <1>4, <1>5, <2>1, <3>1
  <2>2. CASE i # 1
    <3>1. PICK j \in 1 .. n : i = j + 1
      <4>1. i - 1 \in 1 .. n /\ i = (i - 1) + 1
        BY <1>4, <2>2
      <4>2. QED
        BY <4>1
    <3>2. (screen.at - Len(line)) + i - 1 = screen.at - n - 1 + j
      BY <1>3, <1>4, <1>6, <3>1
    <3>3. line[i] = cmd_buffer[j]
      BY <1>4, <3>1
    <3>4. QED
      BY <1>5, <3>2, <3>3
  <2>3. QED
    BY <2>1, <2>2
<1>8. QED
  BY <1>6, <1>7 DEF ShownIsTyped, Shows, Cell, line

\* The invariant holds in every state.
LEMMA AlwaysInv == Spec => []ShellInv
<1>1. Init => ShellInv
  BY InitIs
<1>2. ShellInv /\ [Next]_vars => ShellInv'
  BY StepKeeps
<1>3. QED
  BY <1>1, <1>2, PTL DEF Spec

-----------------------------------------------------------------------------
(* What calc has printed                                                   *)

\* calc leaves the shell at its prompt, with the value on the console, or halted if
\* its division has trapped: until the next key nothing has been run in between.
RanOK ==
  ran.words[1] = <<"c">> =>
    /\ mode \in {"read", "halted"}
    /\ ran.words[2] # <<>> =>
         /\ mode = "halted" <=> Calculated(ran.words[2]).trap
         /\ ~Calculated(ran.words[2]).trap => ran.shown = int_to_ascii(Calculated(ran.words[2]).v)

\* Nothing has been run.
LEMMA NothingRan == NothingRun.words[1] # <<"c">>
<1>1. NothingRun.words[1] = <<>>
  BY DEF NothingRun
<1>2. \A c : c = <<"c">> => Len(c) = 1
  OBVIOUS
<1>3. \A c : c = <<>> => Len(c) = 0
  OBVIOUS
<1>4. QED
  BY <1>1, <1>2, <1>3

\* Only calc has this name.
LEMMA OnlyCalc ==
  ASSUME NEW line, Execute(line), split_command(line)[1] = <<"c">>
  PROVE  Calculate(Put(screen, NL), split_command(line)[2])
<1>1. PICK cmd : cmd = split_command(line)[1]
  OBVIOUS
<1>2. cmd = <<"c">>
  BY <1>1
<1>3. Len(cmd) = 1 /\ cmd[1] = "c"
  BY <1>2
<1>4. /\ cmd # <<"e">> /\ cmd # <<"p">> /\ cmd # <<"f">> /\ cmd # <<"k">> /\ cmd # <<"z">>
      /\ cmd # <<"m">> /\ cmd # <<"h">> /\ cmd # <<"s">> /\ cmd # <<>>
  BY <1>3
<1>5. ~(Len(cmd) > 1 \/ cmd[1] \notin Commands)
  BY <1>3 DEF Commands
<1>6. cmd \notin {<<"p">>, <<"f">>}
  BY <1>4
<1>7. QED
  BY <1>1, <1>4, <1>5, <1>6, Zenon DEF Execute

\* A line has been run.
LEMMA ExecuteRan ==
  ASSUME NEW line, Execute(line), mode = "read" PROVE RanOK'
<1>1. PICK words : words = split_command(line)
  OBVIOUS
<1>2. PICK c : c = Calculated(words[2])
  OBVIOUS
<1>3. /\ ran'.words = words
      /\ ran'.shown = IF words[1] = <<"c">> /\ words[2] # <<>> /\ ~c.trap THEN int_to_ascii(c.v) ELSE <<>>
  <2>1. ran' = [line |-> line, words |-> words, args |-> split_two_args(words[2]),
                shown |-> IF words[1] = <<"c">> /\ words[2] # <<>> /\ ~c.trap
                            THEN int_to_ascii(c.v) ELSE <<>>]
    BY <1>1, <1>2, Zenon DEF Execute
  <2>2. QED
    BY <2>1
<1>4. CASE words[1] # <<"c">>
  BY <1>3, <1>4 DEF RanOK
<1>5. CASE words[1] = <<"c">> /\ words[2] = <<>>
  <2>1. Calculate(Put(screen, NL), words[2])
    BY <1>1, <1>5, OnlyCalc
  <2>2. mode' = "read"
    BY <1>5, <2>1 DEF Calculate, Says
  <2>3. QED
    BY <1>3, <1>5, <2>2 DEF RanOK
<1>6. CASE words[1] = <<"c">> /\ words[2] # <<>>
  <2>1. Calculate(Put(screen, NL), words[2])
    BY <1>1, <1>6, OnlyCalc
  <2>2. c.trap => mode' = "halted"
    BY <1>2, <1>6, <2>1 DEF Calculate
  <2>3. ~c.trap => mode' = "read"
    BY <1>2, <1>6, <2>1 DEF Calculate, Says
  <2>4. /\ mode' \in {"read", "halted"}
        /\ mode' = "halted" <=> Calculated(ran'.words[2]).trap
        /\ ~Calculated(ran'.words[2]).trap => ran'.shown = int_to_ascii(Calculated(ran'.words[2]).v)
    BY <1>2, <1>3, <1>6, <2>2, <2>3, Zenon
  <2>5. QED
    BY <2>4 DEF RanOK
<1>7. QED
  BY <1>4, <1>5, <1>6

\* Every step keeps it: a key that is struck or read forgets what was run, and no
\* command but calc ends in its modes while its line is remembered.
LEMMA RanKeeps == RanOK /\ [Next]_vars => RanOK'
<1>1. SUFFICES ASSUME RanOK, [Next]_vars PROVE RanOK'
  OBVIOUS
<1>2. ran' = NothingRun => RanOK'
  BY NothingRan DEF RanOK
<1>3. ran' = ran /\ mode' = mode => RanOK'
  BY <1>1 DEF RanOK
<1>4. ran' = ran /\ mode # "read" /\ mode # "halted" => RanOK'
  BY <1>1 DEF RanOK
<1>5. CASE Return
  BY <1>5, ExecuteRan DEF Return
<1>6. CASE Backspace \/ Character \/ Strike
  BY <1>2, <1>6 DEF Backspace, Character, Strike
<1>7. CASE Wake \/ MatrixKey \/ HackKey \/ OverKey
  BY <1>4, <1>7 DEF Wake, MatrixKey, HackKey, OverKey, Ends
<1>8. CASE MatrixPass \/ HackRound \/ SnakeKey \/ SnakeDies
  BY <1>4, <1>8 DEF MatrixPass, HackRound, SnakeKey, SnakeDies
<1>9. CASE Poke \/ RedrawLine \/ Wheel \/ UNCHANGED vars
  BY <1>3, <1>9 DEF Poke, RedrawLine, Wheel, vars
<1>10. QED
  BY <1>1, <1>5, <1>6, <1>7, <1>8, <1>9 DEF Next, Step

\* What the parser computes of a tree's text is what the tree means, and read back
\* from the console it is that number.
LEMMA RanIsRight == RanOK => CalcIsRight
<1>1. SUFFICES ASSUME RanOK, ran.words[1] = <<"c">>, NEW i \in DOMAIN Trees,
                      ran.words[2] = Text[i], Meant[i].plain
               PROVE  /\ mode = "halted" <=> Meant[i].trap
                      /\ ~Meant[i].trap /\ Meant[i].v # -IntHalf => Stands(ran.shown) = Meant[i].v
  BY DEF CalcIsRight, Answered
<1>2. i \in 1 .. Len(Trees)
  BY NodeIs
<1>3. /\ Calculated(Text[i]).v = Meant[i].v /\ Calculated(Text[i]).trap = Meant[i].trap
      /\ IsText(Text[i])
  BY <1>1, <1>2, CalculatesTrees
<1>4. Text[i] # <<>>
  <2>1. Len(Text[i]) # 0
    BY <1>3 DEF IsText
  <2>2. \A e : e = <<>> => Len(e) = 0
    OBVIOUS
  <2>3. QED
    BY <2>1, <2>2
<1>5. /\ mode = "halted" <=> Meant[i].trap
      /\ ~Meant[i].trap => ran.shown = int_to_ascii(Meant[i].v)
  BY <1>1, <1>3, <1>4, Zenon DEF RanOK
<1>6. Meant[i].v \in -IntHalf .. IntHalf - 1
  BY <1>2, MeantIs DEF ValueAt, Values
<1>7. Meant[i].v # -IntHalf => Stands(int_to_ascii(Meant[i].v)) = Meant[i].v
  BY <1>6, ReadBack
<1>8. QED
  BY <1>5, <1>7, Zenon

-----------------------------------------------------------------------------
(* The theorems                                                            *)

\* run_shell shows what it will run: after every step of the shell, of the keyboard
\* and of the tasks, the prompt and the whole of cmd_buffer stand before the cursor,
\* however the line was edited, wherever it wrapped and however often it scrolled,
\* but for the cells of row 0 that vga_poke writes.
THEOREM ShownStaysTyped == Spec => []ShownIsTyped
<1>1. ShellInv => ShownIsTyped
  BY InvShows
<1>2. QED
  BY <1>1, AlwaysInv, PTL

\* split_command and split_two_args: for a line of any length, the words that
\* execute_command is given are those of the line that was typed, without the blanks
\* around them and cut where the arrays end.
THEOREM WordsSplitRight == Spec => []SplitRight
<1>1. ShellInv => SplitRight
  BY DEF ShellInv
<1>2. QED
  BY <1>1, AlwaysInv, PTL

\* run_matrix: in a column of any height, with drops of any length and speed, no
\* character of the rain stays behind the drop or in another shade than its own,
\* though the tasks and the wheel may put any lines of the console over it between
\* any two passes.
THEOREM RainStaysClean == Spec => []RainsClean
<1>1. ShellInv => RainsClean
  BY DEF ShellInv, RainOK, RainsClean
<1>2. QED
  BY <1>1, AlwaysInv, PTL

\* run_calc: for every expression without a negated group, however its operators nest
\* and however long its numbers are, the shell prints the value that int arithmetic
\* gives the tree of which the line is the text, and halts if a quotient of it is no
\* int, and only then.
THEOREM CalcComputes == Spec => []CalcIsRight
<1>1. Init => RanOK
  BY NothingRan DEF Init, RanOK
<1>2. RanOK /\ [Next]_vars => RanOK'
  BY RanKeeps
<1>3. RanOK => CalcIsRight
  BY RanIsRight
<1>4. QED
  BY <1>1, <1>2, <1>3, PTL DEF Spec
=============================================================================
