------------------------------- MODULE Shell -------------------------------
(***************************************************************************)
(* The shell's loop, src/shell/shell.c: keys are taken from the queue that *)
(* the keyboard driver keeps (module CharQueue, which Keyboard implements),*)
(* edited into cmd_buffer and echoed on the console; a return runs the     *)
(* line.  A command prints and returns, or takes keys of its own until it  *)
(* ends (matrix, hack, snake).                                             *)
(*                                                                         *)
(* Every key is a character; a command has a name of one character.  The   *)
(* screen is what Vga's print_char makes of the shadow buffer, the live    *)
(* view of the console, when only this thread prints; the tasks write into *)
(* row 0 at any time.  What the file commands do is module RamFs, what the *)
(* game does module Snake.                                                 *)
(***************************************************************************)
EXTENDS Calc, Matrix

CONSTANTS
  Capacity,             \* of the keyboard's queue: 15
  Rows, Cols, PokeCols, \* of the console; the columns of row 0 the tasks use
  BufferSize,           \* characters a line may have: 254
  WordSize, NameSize,   \* characters a word keeps: 127 and 63
  Cracks, Percents,     \* rounds of hack's two loops: 35 and 21
  Typed,                \* bound of the model: the lines that are typed
  Spoken                \* what the printing commands say: texts

ASSUME ShellAssumption ==
  /\ Capacity \in Nat \ {0} /\ {BufferSize, WordSize, NameSize} \subseteq Nat
  /\ Rows \in Nat \ {0} /\ Cols \in Nat \ {0, 1} /\ PokeCols \subseteq 0 .. Cols - 1
  /\ Rows * Cols > BufferSize + Cols + 1
  /\ \A text \in Spoken : text \in Seq({text[i] : i \in DOMAIN text})

NL == "nl"
BS == "bs"
Old == "old"  \* a cell above the last prompt, or a task's mark
Prompt == <<NL, "$">>

VARIABLES
  queue,       \* the keys struck and not read
  mode,        \* what the thread is doing
  round,       \* the counter of hack's loops
  cmd_buffer,
  screen,      \* the cells of the shadow buffer, and the offset of the cursor
  rain,        \* a column of the matrix; the arrays are run_matrix's own
  ran          \* what execute_command made of the line, until the next key

vars == <<queue, mode, round, cmd_buffer, screen, rain, ran>>

Blank == " "
AllBlank == [r \in 0 .. Rows - 1 |-> [c \in 0 .. Cols - 1 |-> Blank]]
Cleared == [cells |-> AllBlank, at |-> 0]

-----------------------------------------------------------------------------
(* The console                                                             *)

WithCell(s, i, ch) == [s EXCEPT !.cells[i \div Cols][i % Cols] = ch]

\* Below the last row the screen scrolls.
ScrolledUp(s) ==
  IF s.at < Rows * Cols THEN s
  ELSE [cells |-> [r \in 0 .. Rows - 1 |->
                     IF r + 1 < Rows THEN s.cells[r + 1] ELSE AllBlank[0]],
        at |-> s.at - Cols]

\* print_char
Put(s, ch) ==
  ScrolledUp(CASE ch = NL -> [s EXCEPT !.at = (@ \div Cols + 1) * Cols]
               [] ch = BS -> IF s.at > 0
                               THEN [WithCell(s, s.at - 1, Blank) EXCEPT !.at = @ - 1] ELSE s
               [] OTHER -> [WithCell(s, s.at, ch) EXCEPT !.at = @ + 1])

\* kprint: a character at a time
Printed(s, text) ==
  LET done[i \in 0 .. Len(text)] == IF i = 0 THEN s ELSE Put(done[i - 1], text[i])
  IN  done[Len(text)]

\* print_prompt.  What stands above it is no longer told apart.
Prompted(s) ==
  LET t == Printed(s, Prompt)
  IN  [t EXCEPT !.cells = [r \in 0 .. Rows - 1 |->
                             IF r < t.at \div Cols THEN [c \in 0 .. Cols - 1 |-> Old]
                             ELSE t.cells[r]]]

-----------------------------------------------------------------------------
(* The words of a line                                                     *)

Kept(word, size) == SubSeq(word, 1, IF Len(word) < size THEN Len(word) ELSE size)

\* The position of the first character from p on that is a blank, or that is none
FirstFrom(s, p, blank) ==
  LET found == {i \in p .. Len(s) : (s[i] = Blank) = blank}
  IN  IF found = {} THEN Len(s) + 1 ELSE CHOOSE i \in found : \A j \in found : i <= j

\* Mutant: the argument keeps the blanks before it.
SplitKeepingBlanks(line, size) ==
  LET first == FirstFrom(line, 1, FALSE)
      next == FirstFrom(line, first, TRUE)
  IN  <<Kept(SubSeq(line, first, next - 1), size), Kept(SubSeq(line, next, Len(line)), size)>>

\* split_command and split_two_args: the first word, and all that follows it
Split(line, size) ==
  LET first == FirstFrom(line, 1, FALSE)
      next == FirstFrom(line, first, TRUE)
      rest == FirstFrom(line, next, FALSE)
  IN  <<Kept(SubSeq(line, first, next - 1), size), Kept(SubSeq(line, rest, Len(line)), size)>>

split_command(line) == Split(line, WordSize)
split_two_args(arg) == Split(arg, NameSize)

-----------------------------------------------------------------------------
(* execute_command and the loop of run_shell                               *)

NothingRun == [line |-> <<>>, words |-> <<<<>>, <<>>>>, args |-> <<<<>>, <<>>>>, shown |-> <<>>]

Init ==
  /\ queue = <<>> /\ mode = "read" /\ round = 0
  /\ cmd_buffer = <<>>
  /\ screen = Prompted(Cleared)
  /\ rain = Dry /\ ran = NothingRun

\* The command prints a text and returns to the prompt.
Says(s, text) ==
  /\ screen' = Prompted(Printed(s, text)) /\ mode' = "read"
  /\ rain' = Dry /\ UNCHANGED round

\* The command clears the screen and stays.
Takes(m) ==
  /\ screen' = Cleared /\ mode' = m /\ round' = 0 /\ rain' = Dry

Commands == {"c", "e", "f", "h", "k", "m", "p", "s", "z"}

\* run_calc: expr  =  result, or the exception of a divide error, which halts
Calculate(s, arg) ==
  IF arg = <<>> THEN \E text \in Spoken : Says(s, text)
  ELSE IF Calculated(arg).trap
    THEN screen' = s /\ mode' = "halted" /\ UNCHANGED <<round, rain>>
    ELSE Says(s, arg \o <<"=">> \o int_to_ascii(Calculated(arg).v) \o <<NL>>)

Execute(line) ==
  LET words == split_command(line)
      cmd == words[1]
      arg == words[2]
      s == Put(screen, NL)
  IN  /\ ran' = [line |-> line, words |-> words, args |-> split_two_args(arg),
                 shown |-> IF cmd = <<"c">> /\ arg # <<>> /\ ~Calculated(arg).trap
                             THEN int_to_ascii(Calculated(arg).v) ELSE <<>>]
      /\ \/ cmd = <<"c">> /\ Calculate(s, arg)
         \/ cmd = <<"e">> /\ Says(s, Append(arg, NL))
         \/ cmd \in {<<"p">>, <<"f">>} /\ \E text \in Spoken : Says(s, text)
         \/ cmd = <<"k">> /\ Says(Cleared, <<>>)
         \/ cmd = <<"z">> /\ screen' = s /\ mode' = "sleep" /\ UNCHANGED <<round, rain>>
         \/ cmd = <<"m">> /\ Takes("matrix")
         \/ cmd = <<"h">> /\ Takes("hack")
         \/ cmd = <<"s">> /\ Takes("snake")
         \/ cmd = <<>> /\ Says(s, <<>>)
         \/ cmd # <<>> /\ (Len(cmd) > 1 \/ cmd[1] \notin Commands)
              /\ Says(s, <<"'">> \o cmd \o <<"'", NL>>)

\* clear_last_char
KeyTaken == queue # <<>> /\ queue' = Tail(queue)

Return ==
  /\ mode = "read" /\ KeyTaken /\ queue[1] = NL
  /\ Execute(cmd_buffer) /\ cmd_buffer' = <<>>

Backspace ==
  /\ mode = "read" /\ KeyTaken /\ queue[1] = BS
  /\ IF cmd_buffer # <<>>
       THEN cmd_buffer' = SubSeq(cmd_buffer, 1, Len(cmd_buffer) - 1) /\ screen' = Put(screen, BS)
       ELSE UNCHANGED <<cmd_buffer, screen>>
  /\ ran' = NothingRun /\ UNCHANGED <<mode, round, rain>>

\* Mutant: what no longer fits is echoed.
CharacterEchoed ==
  /\ mode = "read" /\ KeyTaken /\ queue[1] \notin {NL, BS}
  /\ cmd_buffer' = IF Len(cmd_buffer) < BufferSize THEN Append(cmd_buffer, queue[1])
                                                    ELSE cmd_buffer
  /\ screen' = Put(screen, queue[1])
  /\ ran' = NothingRun /\ UNCHANGED <<mode, round, rain>>

Character ==
  /\ mode = "read" /\ KeyTaken /\ queue[1] \notin {NL, BS}
  /\ IF Len(cmd_buffer) < BufferSize
       THEN cmd_buffer' = Append(cmd_buffer, queue[1]) /\ screen' = Put(screen, queue[1])
       ELSE UNCHANGED <<cmd_buffer, screen>>
  /\ ran' = NothingRun /\ UNCHANGED <<mode, round, rain>>

-----------------------------------------------------------------------------
(* The commands that stay                                                  *)

\* clear_screen, and back to the prompt
Ends == Says(Cleared, <<>>) /\ UNCHANGED <<cmd_buffer, ran>>

\* sleep(200)
Wake ==
  /\ mode = "sleep" /\ \E text \in Spoken : Says(screen, text)
  /\ UNCHANGED <<queue, cmd_buffer, ran>>

MatrixKey == mode = "matrix" /\ KeyTaken /\ Ends

\* Mutant: a pass does not look for a key first.
MatrixPassUnpolled ==
  /\ mode = "matrix" /\ rain' \in Passes(rain)
  /\ UNCHANGED <<queue, mode, round, cmd_buffer, screen, ran>>

MatrixPass ==
  /\ mode = "matrix" /\ queue = <<>> /\ rain' \in Passes(rain)
  /\ UNCHANGED <<queue, mode, round, cmd_buffer, screen, ran>>

\* run_hack: two loops that a key ends, then any key
HackKey == mode \in {"hack", "bar", "hacked"} /\ KeyTaken /\ Ends

HackRound ==
  /\ mode \in {"hack", "bar"} /\ queue = <<>>
  /\ \E text \in Spoken : screen' = Printed(screen, text)
  /\ LET rounds == IF mode = "hack" THEN Cracks ELSE Percents
     IN  IF round + 1 < rounds
           THEN round' = round + 1 /\ UNCHANGED mode
           ELSE round' = 0 /\ mode' = IF mode = "hack" THEN "bar" ELSE "hacked"
  /\ UNCHANGED <<queue, cmd_buffer, rain, ran>>

\* run_snake reads every key that waits; one of them may quit the game.
SnakeKey ==
  /\ mode = "snake" /\ KeyTaken
  /\ mode' \in {"snake", "over"}
  /\ UNCHANGED <<round, cmd_buffer, screen, rain, ran>>

SnakeDies ==
  /\ mode = "snake" /\ queue = <<>> /\ mode' = "over"
  /\ UNCHANGED <<queue, round, cmd_buffer, screen, rain, ran>>

OverKey == mode = "over" /\ KeyTaken /\ Ends

-----------------------------------------------------------------------------
(* The keyboard and the tasks                                              *)

\* The line the keys that wait will make of cmd_buffer
Intended ==
  FoldLeft(LAMBDA line, c : CASE c = NL -> <<>>
                              [] c = BS -> SubSeq(line, 1, Len(line) - 1)
                              [] OTHER -> Append(line, c), cmd_buffer, queue)

Beginnings == UNION {{SubSeq(line, 1, n) : n \in 0 .. Len(line)} : line \in Typed}
Keys == {NL, BS} \cup UNION {{line[i] : i \in DOMAIN line} : line \in Typed}

\* A key is struck: the next of a line in Typed, a return or a backspace.
Strike ==
  /\ Len(queue) < Capacity
  /\ LET line == Intended
     IN  \E c \in Keys : /\ c \in {NL, BS} \/ Append(line, c) \in Beginnings
                         /\ queue' = Append(queue, c)
  /\ ran' = NothingRun /\ UNCHANGED <<mode, round, cmd_buffer, screen, rain>>

\* vga_poke: a mark or a blank
Poke ==
  /\ mode # "halted"
  /\ \E c \in PokeCols, mark \in {Old, Blank} : screen' = [screen EXCEPT !.cells[0][c] = mark]
  /\ UNCHANGED <<queue, mode, round, cmd_buffer, rain, ran>>

\* A task's redraw reaches a line.  Any number of steps may come between its lines.
RedrawLine ==
  /\ mode # "halted"
  /\ \E i \in Lines : rain' = Redrawn(rain, {i})
  /\ UNCHANGED <<queue, mode, round, cmd_buffer, screen, ran>>

\* vga_scroll_up or vga_scroll_down, in the mouse's interrupt: every line is redrawn.
\* (Whether there is a line to move the view to is left open.)
Wheel ==
  /\ mode # "halted" /\ rain' = Redrawn(rain, Lines)
  /\ UNCHANGED <<queue, mode, round, cmd_buffer, screen, ran>>

-----------------------------------------------------------------------------
Step == \/ Return \/ Backspace \/ Character \/ Wake
        \/ MatrixKey \/ MatrixPass \/ HackKey \/ HackRound
        \/ SnakeKey \/ SnakeDies \/ OverKey

Next == Step \/ Strike \/ Poke \/ RedrawLine \/ Wheel

\* The loops poll without waiting, and the timer ends every sleep.
Busy == \/ mode \notin {"hacked", "over", "halted", "read"}
        \/ mode # "halted" /\ queue # <<>>

\* WF_vars(Step), with Busy for ENABLED Step: the evaluation of a command is too
\* much for TLC's ENABLED.
Fairness == []<>~Busy \/ []<><<Step>>_vars

Spec == Init /\ [][Next]_vars /\ Fairness

-----------------------------------------------------------------------------
(* Properties                                                              *)

\* What stands before the cursor is the prompt and the line that a return would
\* run, in this order and complete, however it was edited and wherever it wrapped
\* or scrolled, but for the cells that the tasks write into.
ShownIsTyped ==
  mode = "read" =>
    LET line == <<"$">> \o cmd_buffer
        start == screen.at - Len(line)
    IN  /\ start >= 0
        /\ \A i \in DOMAIN line :
             LET at == start + i - 1
             IN  at \in PokeCols \/ screen.cells[at \div Cols][at % Cols] = line[i]

\* The words are those of the line, cut at WordSize and NameSize: blanks, a word
\* without any, blanks, and the rest, which begins with none.
WordsOf(line, words, size) ==
  LET Blanks(m, n) == \A i \in m + 1 .. n : line[i] = Blank
      IsCut(word, m, n) == word = Kept(SubSeq(line, m + 1, n), size)
      end == Len(line)
  IN  \E i \in 0 .. end :
        /\ Blanks(0, i) /\ (i = end \/ line[i + 1] # Blank)
        /\ \E j \in i .. end :
             /\ \A n \in i + 1 .. j : line[n] # Blank
             /\ IsCut(words[1], i, j)
             /\ \E k \in j .. end :
                  /\ Blanks(j, k) /\ (k = end \/ (line[k + 1] # Blank /\ k > j))
                  /\ IsCut(words[2], k, end)

SplitRight ==
  /\ WordsOf(ran.line, ran.words, WordSize)
  /\ WordsOf(ran.words[2], ran.args, NameSize)

\* Rain leaves no character of its own behind in a column, whatever the tasks and the
\* wheel redraw meanwhile.  (What a redraw puts there is not the rain's.)
RainsClean == mode = "matrix" => Rains(rain)

\* While the machine runs, a full queue is read, whatever command is running.
FullQueueRead == Len(queue) = Capacity ~> Len(queue) < Capacity \/ mode = "halted"
=============================================================================
