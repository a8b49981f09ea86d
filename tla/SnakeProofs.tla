---------------------------- MODULE SnakeProofs ----------------------------
(***************************************************************************)
(* Theorems about the snake game, for every board, first length and limit. *)
(***************************************************************************)
EXTENDS Snake, TLAPS

-----------------------------------------------------------------------------
(* The inductive invariant                                                 *)

\* While the game runs, the head is where the last move took it, and the next
\* move does not lead back: NeverTurnsBack is not inductive without it, for
\* judging a key by the last move only helps if the last move made the neck.
Neck ==
  dead = "no" => body[1] = Ahead(body[2], dir) /\ ndir # Opposite[dir]

IInv ==
  /\ TypeOK /\ Len(body) >= InitLen
  /\ Neck /\ InOnePiece /\ NoGhosts /\ FoodClear

-----------------------------------------------------------------------------
(* The board and the body                                                  *)

LEMMA AheadIs ==
  ASSUME NEW x \in Int, NEW y \in Int, NEW d \in Dirs
  PROVE  /\ Ahead(<<x, y>>, d) \in Int \X Int
         /\ Ahead(<<x, y>>, d) # <<x, y>>
         /\ \A e \in Dirs : Ahead(Ahead(<<x, y>>, d), e) = <<x, y>> => e = Opposite[d]
BY DEF Ahead, Dirs, Opposite

LEMMA CellIs ==
  ASSUME NEW c \in Cells
  PROVE  \E x, y \in Int : c = <<x, y>>
BY SnakeAssumption DEF Cells

Grows == Ate /\ Len(body) < SNAKE_MAX
NewLen == IF Grows THEN Len(body) + 1 ELSE Len(body)

\* The body after a move: the new head before the segments there were, the last
\* of which is dropped unless the snake grows.
LEMMA MovedIs ==
  ASSUME body \in Seq(Cells), Len(body) \in 2 .. SNAKE_MAX, New \in Cells
  PROVE  /\ Moved \in Seq(Cells) /\ Len(Moved) = NewLen /\ Moved[1] = New
         /\ \A i \in 2 .. NewLen : Moved[i] = body[i - 1]
<1>1. SNAKE_MAX \in Nat
  BY SnakeAssumption
<1>2. CASE Grows
  BY <1>1, <1>2 DEF Moved, Grows, NewLen
<1>3. CASE ~Grows
  <2>1. /\ Front(body) \in Seq(Cells) /\ Len(Front(body)) = Len(body) - 1
        /\ \A i \in 1 .. Len(body) - 1 : Front(body)[i] = body[i]
    BY <1>1 DEF Front
  <2>2. Moved = <<New>> \o Front(body)
    BY <1>3 DEF Moved, Grows
  <2> HIDE DEF Front
  <2>3. QED
    BY <1>1, <1>3, <2>1, <2>2 DEF NewLen
<1>4. QED
  BY <1>2, <1>3

-----------------------------------------------------------------------------
(* The invariant holds at first                                            *)

LEMMA InitBodyIs ==
  /\ InitBody \in Seq(Cells) /\ Len(InitBody) = InitLen
  /\ \A i \in 1 .. InitLen : InitBody[i] = <<Start[1] - (i - 1), Start[2]>>
<1>1. /\ Start = <<Start[1], Start[2]>> /\ Start[1] \in 1 .. Width /\ Start[2] \in 1 .. Height
      /\ Width \in Nat /\ InitLen \in Nat /\ InitLen <= Start[1]
  BY SnakeAssumption DEF Cells
<1>2. ASSUME NEW i \in 1 .. InitLen PROVE <<Start[1] - (i - 1), Start[2]>> \in Cells
  BY <1>1 DEF Cells
<1>3. InitBody \in [1 .. InitLen -> Cells]
  BY <1>2 DEF InitBody
<1>4. InitBody \in Seq(Cells) /\ Len(InitBody) = InitLen
  BY <1>1, <1>3
<1>5. QED
  BY <1>4 DEF InitBody

LEMMA InvInit == Init => IInv
<1> SUFFICES ASSUME Init PROVE IInv
  OBVIOUS
<1>1. /\ body = InitBody /\ body \in Seq(Cells) /\ Len(body) = InitLen
      /\ \A i \in 1 .. InitLen : body[i] = <<Start[1] - (i - 1), Start[2]>>
  BY InitBodyIs DEF Init
<1>2. /\ Start \in Cells /\ Start[1] \in Int /\ Start[2] \in Int /\ Start = <<Start[1], Start[2]>>
      /\ SNAKE_MAX \in Nat /\ InitLen \in 2 .. SNAKE_MAX - 1
  BY SnakeAssumption DEF Cells
<1>3. body[1] = Start
  <2>1. 1 \in 1 .. InitLen /\ Start[1] - (1 - 1) = Start[1]
    BY <1>2
  <2>2. QED
    BY <1>1, <1>2, <2>1
<1>4. TypeOK
  BY <1>1, <1>2 DEF Init, TypeOK, Dirs
<1>5. Neck
  BY <1>1, <1>2, SMTT(30) DEF Init, Neck, Ahead, Opposite
<1>6. InOnePiece
  <2>1. ASSUME NEW i \in 1 .. InitLen, NEW j \in 1 .. InitLen, body[i] = body[j] PROVE i = j
    BY <1>1, <1>2, <2>1
  <2>2. ASSUME NEW i \in 1 .. InitLen - 1 PROVE body[i] = Ahead(body[i + 1], "right")
    BY <1>1, <1>2, SMTT(30) DEF Ahead
  <2>3. DOMAIN body = 1 .. InitLen
    BY <1>1
  <2>4. QED
    BY <1>1, <2>1, <2>2, <2>3 DEF InOnePiece, Dirs
<1>7. NoGhosts
  <2> SUFFICES ASSUME NEW c \in Cells \ {food}, screen[c] # "none"
               PROVE  screen[c] = IF c = body[1] THEN "head"
                                  ELSE IF c \in Range(body) THEN "tail" ELSE "none"
    BY DEF NoGhosts
  <2>1. c = Start \/ c \in Range(InitBody)
    BY DEF Init
  <2>2. QED
    BY <1>1, <1>3, <2>1 DEF Init
<1>8. FoodClear
  BY <1>1, <1>2 DEF FoodClear
<1>9. QED
  BY <1>1, <1>2, <1>4, <1>5, <1>6, <1>7, <1>8 DEF IInv

-----------------------------------------------------------------------------
(* Every step preserves it                                                 *)

\* The move: the new head is a cell that no segment has, and the tail's cell is
\* blanked before it is given up.
LEMMA MoveInv ==
  ASSUME IInv, Move PROVE IInv'
<1>1. /\ SNAKE_MAX \in Nat /\ InitLen \in 2 .. SNAKE_MAX - 1
      /\ body \in Seq(Cells) /\ Len(body) \in InitLen .. SNAKE_MAX
      /\ dir \in Dirs /\ ndir \in Dirs /\ food \in Cells
      /\ screen \in [Cells -> {"none", "head", "tail", "food"}]
  BY SnakeAssumption DEF IInv, TypeOK
<1>2. /\ dead = "no" /\ New \in Cells /\ \A i \in 2 .. Len(body) : body[i] # New
      /\ dir' = ndir /\ ndir' = ndir /\ dead' = dead /\ body' = Moved
  BY DEF Move, Collides
<1>3. Len(body) \in 2 .. SNAKE_MAX
  BY <1>1
<1>4. /\ body' \in Seq(Cells) /\ Len(body') = NewLen /\ body'[1] = New
      /\ \A i \in 2 .. NewLen : body'[i] = body[i - 1]
  <2>1. /\ Moved \in Seq(Cells) /\ Len(Moved) = NewLen /\ Moved[1] = New
        /\ \A i \in 2 .. NewLen : Moved[i] = body[i - 1]
    BY <1>1, <1>2, <1>3, MovedIs
  <2>2. QED
    BY <1>2, <2>1
<1>5. NewLen \in Len(body) .. Len(body) + 1 /\ NewLen <= SNAKE_MAX /\ NewLen >= 2
  BY <1>1 DEF NewLen, Grows
<1>6. body[1] \in Cells /\ body[2] \in Cells
  BY <1>1
<1>7. New # body[1] /\ New = Ahead(body[1], ndir)
  <2>1. PICK x \in Int, y \in Int : body[1] = <<x, y>>
    BY <1>6, CellIs
  <2>2. QED
    BY <1>1, <2>1, AheadIs DEF New
<1>8. \A i \in 1 .. Len(body) : body[i] # New
  BY <1>1, <1>2, <1>7
<1>9. DOMAIN body = 1 .. Len(body) /\ DOMAIN body' = 1 .. NewLen
  BY <1>1, <1>4
<1>10. /\ Range(body') \subseteq Range(body) \cup {New}
       /\ New \notin Range(body) /\ New = body'[1] /\ body[1] = body'[2]
       /\ {New, body[1]} \subseteq Range(body')
  <2>1. New \notin Range(body)
    BY <1>8, <1>9 DEF Range
  <2>2. ASSUME NEW i \in 1 .. NewLen PROVE body'[i] \in Range(body) \cup {New}
    <3>1. CASE i = 1
      BY <1>4, <3>1
    <3>2. CASE i # 1
      <4>1. i \in 2 .. NewLen /\ i - 1 \in 1 .. Len(body)
        BY <1>1, <1>5, <3>2
      <4>2. QED
        BY <1>4, <1>9, <4>1 DEF Range
    <3>3. QED
      BY <3>1, <3>2
  <2>3. 1 \in 1 .. NewLen /\ 2 \in 1 .. NewLen /\ 2 \in 2 .. NewLen /\ 2 - 1 = 1
    BY <1>1, <1>5
  <2>4. body'[2] = body[1]
    BY <1>4, <2>3
  <2>5. QED
    BY <1>4, <1>9, <2>1, <2>2, <2>3, <2>4 DEF Range
<1>11. \A i \in 1 .. Len(body) - 1 : body[i] = body'[i + 1]
  BY <1>1, <1>4, <1>5
<1>12. \A c \in Range(body) : c \in Range(body') \/ (c = Last(body) /\ ~Grows)
  <2> SUFFICES ASSUME NEW i \in 1 .. Len(body)
               PROVE  body[i] \in Range(body') \/ (i = Len(body) /\ ~Grows)
    BY <1>9 DEF Range, Last
  <2>1. CASE i + 1 <= NewLen
    <3>1. i + 1 \in 2 .. NewLen /\ i + 1 \in 1 .. NewLen
      BY <1>1, <1>5, <2>1
    <3>2. body'[i + 1] = body[i]
      BY <1>4, <3>1
    <3>3. QED
      BY <1>9, <3>1, <3>2 DEF Range
  <2>2. CASE ~(i + 1 <= NewLen)
    BY <1>1, <1>5, <2>2 DEF NewLen
  <2>3. QED
    BY <2>1, <2>2
\* What is drawn
<1> DEFINE drawn == [TailErased EXCEPT ![New] = "head", ![body[1]] = "tail"]
<1>13. /\ drawn \in [Cells -> {"none", "head", "tail", "food"}]
       /\ drawn[New] = "head" /\ drawn[body[1]] = "tail"
       /\ \A c \in Cells \ {New, body[1]} : drawn[c] = TailErased[c]
  BY <1>1, <1>2, <1>6, <1>7 DEF TailErased
<1>14. IF Ate THEN /\ food' \in Cells /\ food' \notin Range(body')
                   /\ screen' = [drawn EXCEPT ![food'] = "food"]
              ELSE food' = food /\ screen' = drawn
  BY <1>2 DEF Move, FoodCells
<1> HIDE DEF drawn
<1>15. TypeOK'
  BY <1>1, <1>2, <1>4, <1>5, <1>13, <1>14 DEF TypeOK, IInv
<1>16. Neck'
  <2>1. ndir # Opposite[ndir]
    BY <1>1 DEF Dirs, Opposite
  <2>2. QED
    BY <1>2, <1>7, <1>10, <2>1 DEF Neck
<1>17. InOnePiece'
  <2>1. ASSUME NEW i \in 1 .. NewLen, NEW j \in 1 .. NewLen, body'[i] = body'[j], i < j
        PROVE  FALSE
    <3>1. j \in 2 .. NewLen /\ j - 1 \in 1 .. Len(body) /\ body'[j] = body[j - 1]
      BY <1>1, <1>4, <1>5, <2>1
    <3>2. CASE i = 1
      BY <1>4, <1>8, <2>1, <3>1, <3>2
    <3>3. CASE i # 1
      <4>1. i \in 2 .. NewLen /\ i - 1 \in 1 .. Len(body) /\ body'[i] = body[i - 1]
        BY <1>1, <1>4, <1>5, <2>1, <3>3
      <4>2. i - 1 = j - 1
        BY <1>9, <2>1, <3>1, <4>1 DEF IInv, InOnePiece
      <4>3. QED
        BY <2>1, <4>2
    <3>4. QED
      BY <3>2, <3>3
  <2>2. ASSUME NEW i \in 1 .. NewLen, NEW j \in 1 .. NewLen, body'[i] = body'[j]
        PROVE  i = j
    <3>1. i < j \/ j < i \/ i = j
      BY <1>1, <1>5
    <3>2. QED
      BY <2>1, <2>2, <3>1
  <2>3. ASSUME NEW i \in 1 .. NewLen - 1
        PROVE  \E d \in Dirs : body'[i] = Ahead(body'[i + 1], d)
    <3>1. i \in 1 .. Len(body) /\ i + 1 \in 2 .. NewLen /\ body'[i + 1] = body[i]
      BY <1>1, <1>4, <1>5
    <3>2. CASE i = 1
      BY <1>1, <1>4, <1>7, <3>1, <3>2
    <3>3. CASE i # 1
      <4>1. /\ i \in 2 .. NewLen /\ i - 1 \in 1 .. Len(body) - 1 /\ (i - 1) + 1 = i
            /\ body'[i] = body[i - 1]
        BY <1>1, <1>4, <1>5, <3>1, <3>3, SMTT(30)
      <4>2. \E d \in Dirs : body[i - 1] = Ahead(body[i], d)
        BY <4>1 DEF IInv, InOnePiece
      <4>3. QED
        BY <3>1, <4>1, <4>2
    <3>4. QED
      BY <3>2, <3>3
  <2>4. QED
    BY <1>4, <1>9, <2>2, <2>3 DEF InOnePiece
<1>18. NoGhosts'
  <2> SUFFICES ASSUME NewLen < SNAKE_MAX, NEW c \in Cells \ {food'}, screen'[c] # "none"
               PROVE  screen'[c] = IF c = body'[1] THEN "head"
                                   ELSE IF c \in Range(body') THEN "tail" ELSE "none"
    BY <1>4 DEF NoGhosts
  <2>1. screen'[c] = drawn[c]
    BY <1>13, <1>14
  <2>2. CASE c = New
    BY <1>10, <1>13, <2>1, <2>2
  <2>3. CASE c = body[1]
    BY <1>7, <1>10, <1>13, <2>1, <2>3
  <2>4. CASE c # New /\ c # body[1]
    <3>1. screen'[c] = TailErased[c] /\ c # food
      BY <1>13, <1>14, <2>1, <2>4 DEF Ate
    <3>2. screen'[c] = screen[c] /\ (~Ate => c # Last(body))
      BY <1>1, <3>1 DEF TailErased
    <3>3. screen[c] = IF c \in Range(body) THEN "tail" ELSE "none"
      BY <1>1, <1>5, <2>4, <3>1, <3>2 DEF IInv, NoGhosts
    <3>4. c \in Range(body) => c \in Range(body')
      BY <1>1, <1>5, <1>12, <3>2 DEF Grows
    <3>5. QED
      BY <1>10, <2>4, <3>2, <3>3, <3>4
  <2>5. QED
    BY <2>2, <2>3, <2>4
<1>19. FoodClear'
  <2>1. CASE Ate
    BY <1>14, <2>1 DEF FoodClear
  <2>2. CASE ~Ate
    <3>1. NewLen = Len(body) /\ New # food
      BY <2>2 DEF NewLen, Grows, Ate
    <3>2. QED
      BY <1>4, <1>10, <1>14, <2>2, <3>1 DEF FoodClear, IInv
  <2>3. QED
    BY <2>1, <2>2
<1>20. QED
  BY <1>1, <1>4, <1>5, <1>15, <1>16, <1>17, <1>18, <1>19 DEF IInv

LEMMA InvStep == IInv /\ [Next]_vars => IInv'
<1> SUFFICES ASSUME IInv, [Next]_vars PROVE IInv'
  OBVIOUS
<1>1. ASSUME NEW d \in Dirs, Turn(d) PROVE IInv'
  <2>1. /\ UNCHANGED <<body, dir, food, screen, dead>>
        /\ ndir' = d /\ d # Opposite[dir] /\ dir \in Dirs
    BY <1>1 DEF Turn, IInv, TypeOK
  <2>2. Neck'
    <3>1. ndir' # Opposite[dir]
      BY <2>1
    <3>2. QED
      BY <2>1, <3>1 DEF IInv, Neck
  <2>3. QED
    BY <2>1, <2>2 DEF IInv, TypeOK, InOnePiece, NoGhosts, FoodClear
<1>2. CASE Quit
  BY <1>2 DEF Quit, IInv, TypeOK, Neck, InOnePiece, NoGhosts, FoodClear
<1>3. CASE Crash
  BY <1>3 DEF Crash, IInv, TypeOK, Neck, InOnePiece, NoGhosts, FoodClear
<1>4. CASE Move
  BY <1>4, MoveInv
<1>5. ASSUME NEW cells \in SUBSET Cells, screen' = Redrawn(cells),
             UNCHANGED <<body, dir, ndir, food, dead>>
      PROVE  IInv'
  <2>1. /\ screen' \in [Cells -> {"none", "head", "tail", "food"}]
        /\ \A c \in Cells : screen'[c] = screen[c] \/ screen'[c] = "none"
    BY <1>5 DEF IInv, TypeOK, Redrawn
  <2>2. NoGhosts'
    BY <1>5, <2>1 DEF IInv, NoGhosts
  <2>3. QED
    BY <1>5, <2>1, <2>2 DEF IInv, TypeOK, Neck, InOnePiece, FoodClear
<1>6. CASE UNCHANGED vars
  BY <1>6 DEF vars, IInv, TypeOK, Neck, InOnePiece, NoGhosts, FoodClear
<1>7. CASE RedrawCell \/ Wheel
  BY <1>5, <1>7 DEF RedrawCell, Wheel
<1>8. QED
  BY <1>1, <1>2, <1>3, <1>4, <1>6, <1>7 DEF Next

LEMMA Invariance == Spec => []IInv
<1>1. QED
  BY InvInit, InvStep, PTL DEF Spec

-----------------------------------------------------------------------------
(* Theorems                                                                *)

\* The arrays sx and sy of run_snake hold SNAKE_MAX segments and never more are
\* written, every segment and the food are on the board (TypeOK).
THEOREM TypeCorrect == Spec => []TypeOK
<1>1. IInv => TypeOK
  BY DEF IInv
<1>2. QED
  BY <1>1, Invariance, PTL

\* However the snake moves, turns and eats, its segments are distinct cells, each
\* next to the one before (InOnePiece).
THEOREM StaysInOnePiece == Spec => []InOnePiece
<1>1. IInv => InOnePiece
  BY DEF IInv
<1>2. QED
  BY <1>1, Invariance, PTL

\* However fast the keys come, none sends the snake back into its own neck
\* (NeverTurnsBack).
THEOREM NoTurningBack == Spec => []NeverTurnsBack
<1>1. IInv => NeverTurnsBack
  <2> SUFFICES ASSUME IInv, dead = "no" PROVE New # body[2]
    BY DEF NeverTurnsBack
  <2>1. body \in Seq(Cells) /\ Len(body) >= 2 /\ dir \in Dirs /\ ndir \in Dirs
        /\ 2 \in 1 .. Len(body) /\ body[2] \in Cells
    BY SnakeAssumption DEF IInv, TypeOK
  <2>2. PICK x \in Int, y \in Int : body[2] = <<x, y>>
    BY <2>1, CellIs
  <2>3. body[1] = Ahead(body[2], dir) /\ ndir # Opposite[dir]
    BY DEF IInv, Neck
  <2>4. Ahead(Ahead(<<x, y>>, dir), ndir) = <<x, y>> => ndir = Opposite[dir]
    BY <2>1, AheadIs
  <2>5. QED
    BY <2>2, <2>3, <2>4 DEF New
<1>2. QED
  BY <1>1, Invariance, PTL

\* A segment is shown only where the snake has it (NoGhosts), although a move draws
\* three cells only, and the tasks and the wheel paint the console, blank or not, over
\* any part of the board at any time.
THEOREM NothingLeftBehind == Spec => []NoGhosts
<1>1. IInv => NoGhosts
  BY DEF IInv
<1>2. QED
  BY <1>1, Invariance, PTL

\* Food laid during the game is never under the snake (FoodClear).
THEOREM FoodStaysClear == Spec => []FoodClear
<1>1. IInv => FoodClear
  BY DEF IInv
<1>2. QED
  BY <1>1, Invariance, PTL
=============================================================================
