------------------------------- MODULE Snake -------------------------------
(***************************************************************************)
(* The snake game of the shell (run_snake, src/shell/shell.c) and what it  *)
(* draws, while the blinking tasks redraw the screen (src/kernel/kernel.c, *)
(* vga_poke of src/drivers/vga.c) and the mouse wheel moves the view       *)
(* (src/drivers/mouse.c).                                                  *)
(*                                                                         *)
(* A key and a move of the snake are one step each; how many ticks pass    *)
(* between moves, the score and the border are left out.  The game writes  *)
(* to video memory directly, so a redraw paints the view of the console    *)
(* over the board: blanks when it is live, but older lines and the tasks'  *)
(* marks when it is moved back, and at any time the row of a task that was *)
(* preempted in its redraw.  "none" is a cell that shows no part of the    *)
(* game: a blank, or what a redraw has put there.                          *)
(***************************************************************************)
EXTENDS Integers, SequencesExt

CONSTANTS
  Width, Height,  \* the board (78 by 21)
  SNAKE_MAX,      \* the longest snake (100)
  InitLen,        \* its first length (5)
  Start           \* the head's first cell

Cells == (1..Width) \X (1..Height)
Dirs == {"up", "down", "left", "right"}

ASSUME SnakeAssumption ==
  /\ Width \in Nat /\ Height \in Nat
  /\ SNAKE_MAX \in Nat /\ InitLen \in 2 .. SNAKE_MAX - 1
  /\ SNAKE_MAX < Width * Height
  /\ Start \in Cells /\ InitLen <= Start[1]

VARIABLES
  body,        \* sx, sy: the segments' cells, head first
  dir, ndir,   \* the direction of the last move, and of the next one
  food,        \* fx, fy
  screen,      \* what each cell of the board shows
  dead         \* "no", "crashed" or "quit"

vars == <<body, dir, ndir, food, screen, dead>>

InitBody == [i \in 1..InitLen |-> <<Start[1] - (i - 1), Start[2]>>]

\* The first food is drawn last and may be on the snake.
Init ==
  /\ body = InitBody
  /\ dir = "right" /\ ndir = "right"
  /\ food \in Cells
  /\ screen = [c \in Cells |-> CASE c = food -> "food"
                                 [] c # food /\ c = Start -> "head"
                                 [] c # food /\ c # Start /\ c \in Range(InitBody) -> "tail"
                                 [] OTHER -> "none"]
  /\ dead = "no"

Opposite == [up |-> "down", down |-> "up", left |-> "right", right |-> "left"]

Ahead(c, d) ==
  CASE d = "right" -> <<c[1] + 1, c[2]>>
    [] d = "left"  -> <<c[1] - 1, c[2]>>
    [] d = "down"  -> <<c[1], c[2] + 1>>
    [] d = "up"    -> <<c[1], c[2] - 1>>

-----------------------------------------------------------------------------
\* Mutant: the new direction is compared with the one last asked for.
TurnFromAsked(d) ==
  /\ dead = "no" /\ d # Opposite[ndir]
  /\ ndir' = d
  /\ UNCHANGED <<body, dir, food, screen, dead>>

\* W, A, S or D
Turn(d) ==
  /\ dead = "no" /\ d # Opposite[dir]
  /\ ndir' = d
  /\ UNCHANGED <<body, dir, food, screen, dead>>

Quit ==
  /\ dead = "no" /\ dead' = "quit"
  /\ UNCHANGED <<body, dir, ndir, food, screen>>

\* Where the head goes next
New == Ahead(body[1], ndir)

\* Mutant: only the wall kills.
WallOnly == New \notin Cells

\* The wall, or any segment but the head
Collides == New \notin Cells \/ \E i \in 2 .. Len(body) : body[i] = New

Crash ==
  /\ dead = "no" /\ Collides
  /\ dir' = ndir /\ dead' = "crashed"
  /\ UNCHANGED <<body, ndir, food, screen>>

Ate == New = food

\* The body after the move: one segment longer after eating, up to SNAKE_MAX.
Moved == IF Ate /\ Len(body) < SNAKE_MAX THEN <<New>> \o body
                                         ELSE <<New>> \o Front(body)

\* Mutant: the tail is never erased.
TailLeft == screen

\* The tail's cell is erased unless the snake ate.
TailErased == IF Ate THEN screen ELSE [screen EXCEPT ![Last(body)] = "none"]

\* Mutant: the snake is not looked at.
FoodAnywhere == Cells

\* Where the next food may be.  The code gives up after 200 tries, but any 200
\* draws in a row of its generator name at least 166 cells, and the snake covers
\* at most 100.
FoodCells == Cells \ Range(Moved)

Move ==
  /\ dead = "no" /\ ~Collides
  /\ dir' = ndir
  /\ body' = Moved
  /\ LET drawn == [TailErased EXCEPT ![New] = "head", ![body[1]] = "tail"]
     IN  IF Ate
           THEN \E f \in FoodCells :
                   food' = f /\ screen' = [drawn EXCEPT ![f] = "food"]
           ELSE UNCHANGED food /\ screen' = drawn
  /\ UNCHANGED <<ndir, dead>>

Redrawn(cells) == [c \in Cells |-> IF c \in cells THEN "none" ELSE screen[c]]

\* A task's redraw reaches a cell.  Any number of steps may come between its cells.
RedrawCell ==
  /\ dead = "no"
  /\ \E c \in Cells : screen' = Redrawn({c})
  /\ UNCHANGED <<body, dir, ndir, food, dead>>

\* vga_scroll_up or vga_scroll_down, in the mouse's interrupt: the whole board is
\* redrawn.  (Whether there is a line to move the view to is left open.)
Wheel ==
  /\ dead = "no" /\ screen' = Redrawn(Cells)
  /\ UNCHANGED <<body, dir, ndir, food, dead>>

Next == (\E d \in Dirs : Turn(d)) \/ Quit \/ Crash \/ Move \/ RedrawCell \/ Wheel

Spec == Init /\ [][Next]_vars

-----------------------------------------------------------------------------
(* Properties                                                              *)

\* Every variable keeps its type; the arrays sx, sy do not overflow.
TypeOK ==
  /\ body \in Seq(Cells) /\ Len(body) <= SNAKE_MAX
  /\ dir \in Dirs /\ ndir \in Dirs
  /\ food \in Cells
  /\ screen \in [Cells -> {"none", "head", "tail", "food"}]
  /\ dead \in {"no", "crashed", "quit"}

\* After any moves, turns and meals the segments are distinct cells and each
\* touches the next.
InOnePiece ==
  /\ \A i, j \in DOMAIN body : body[i] = body[j] => i = j
  /\ \A i \in 1 .. Len(body) - 1 : \E d \in Dirs : body[i] = Ahead(body[i+1], d)

\* However fast the keys, the snake is never sent back into its own neck:
\* between two moves the keys are judged by the move last made.
NeverTurnsBack == dead = "no" => New # body[2]

\* A cell other than the food's that shows a part of the game shows the segment that
\* is there: wherever the tasks and the wheel have painted the console over the board,
\* the incremental drawing leaves no ghosts behind (until a snake of maximal length
\* eats, when the tail is dropped but not erased).
NoGhosts ==
  Len(body) < SNAKE_MAX =>
    \A c \in Cells \ {food} :
      screen[c] # "none" =>
        screen[c] = IF c = body[1] THEN "head"
                    ELSE IF c \in Range(body) THEN "tail" ELSE "none"

\* Food laid after the first meal is never on the snake, however it moves on:
\* it can be reached, and the tail never erases it.  (The first food may be on
\* the snake.)
FoodClear == Len(body) > InitLen => food \notin Range(body)
=============================================================================
