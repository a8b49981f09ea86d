-------------------------------- MODULE Vga --------------------------------
(***************************************************************************)
(* The VGA console, src/drivers/vga.c, while the shell prints, the tasks   *)
(* blink (vga_poke, src/kernel/kernel.c) and the mouse wheel scrolls the   *)
(* view from an interrupt (src/drivers/mouse.c).                           *)
(*                                                                         *)
(* Any thread may be interrupted between any two steps; the wheel's        *)
(* handler runs with interrupts off and is one step.  A cell is a          *)
(* character with its colour.  The loops copy a row at a time: what a      *)
(* preempted copy holds in a register is a row here and a byte in the code.*)
(***************************************************************************)
EXTENDS Integers, Sequences, FiniteSets

CONSTANTS
  MAX_ROWS, MAX_COLS,
  SCROLL_HISTORY_LINES,
  Shell,      \* thread 0, which prints and clears
  Tasks,      \* the threads that call vga_poke
  Chars,      \* what the shell prints
  Marks,      \* what the tasks draw in row 0, a blank among them
  PokeCols,   \* the columns they draw in
  Blank,
  Outside,    \* what is read outside the shadow buffer
  MaxLines    \* bound of the model: how many lines ever scroll off

ASSUME VgaAssumption ==
  /\ MAX_ROWS \in Nat \ {0} /\ MAX_COLS \in Nat \ {0}
  /\ SCROLL_HISTORY_LINES \in Nat \ {0}
  /\ Shell \notin Tasks /\ IsFiniteSet(Tasks)
  /\ PokeCols \subseteq 0 .. MAX_COLS - 1
  /\ MaxLines \in Nat

VARIABLES
  shadow_buffer, scroll_history, history_count, scroll_offset,
  vidmem,   \* the screen
  cursor,   \* offset, in cells; only the shell's print_char uses it
  pc,       \* where each thread is
  row,      \* its loop index i
  idx,      \* history_idx, then shadow_i
  line      \* the row it is copying

history == <<scroll_history, history_count>>
console == <<shadow_buffer, scroll_history, history_count, scroll_offset>>
locals == <<row, idx, line>>
vars == <<shadow_buffer, scroll_history, history_count, scroll_offset, vidmem,
          cursor, pc, row, idx, line>>

Threads == {Shell} \cup Tasks
Rows == 0 .. MAX_ROWS - 1
Cols == 0 .. MAX_COLS - 1
Cells == Chars \cup Marks \cup {Blank}
Lines == [Cols -> Cells]
BlankLine == [c \in Cols |-> Blank]
OutsideLine == [c \in Cols |-> Outside]
End == MAX_ROWS * MAX_COLS

\* kernel_main has called clear_screen.
Init ==
  /\ shadow_buffer = [r \in Rows |-> BlankLine]
  /\ scroll_history = [i \in 0 .. SCROLL_HISTORY_LINES - 1 |-> BlankLine]
  /\ history_count = 0 /\ scroll_offset = 0
  /\ vidmem = [r \in Rows |-> BlankLine]
  /\ cursor = 0
  /\ pc = [t \in Threads |-> "idle"]
  /\ row = [t \in Threads |-> 0]
  /\ idx = [t \in Threads |-> 0]
  /\ line = [t \in Threads |-> BlankLine]

Goto(t, label) == pc' = [pc EXCEPT ![t] = label]
At(t, label) == pc[t] = label
SetRow(t, r) == row' = [row EXCEPT ![t] = r]

-----------------------------------------------------------------------------
(* print_char, called by the shell at the cursor (kprint_color)            *)

SetCell(at, ch) ==
  shadow_buffer' = [shadow_buffer EXCEPT ![at \div MAX_COLS][at % MAX_COLS] = ch]

\* The cursor after a character: below the last row the screen scrolls.
Advance(offset) ==
  /\ cursor' = offset
  /\ IF offset >= End THEN history_count < MaxLines /\ Goto(Shell, "save")
                      ELSE Goto(Shell, "paint")

PrintChar(ch) ==
  /\ At(Shell, "idle")
  /\ SetCell(cursor, ch) /\ Advance(cursor + 1)
  /\ UNCHANGED <<history, scroll_offset, vidmem, locals>>

PrintNewline ==
  /\ At(Shell, "idle")
  /\ Advance((cursor \div MAX_COLS + 1) * MAX_COLS)
  /\ UNCHANGED <<console, vidmem, locals>>

PrintBackspace ==
  /\ At(Shell, "idle")
  /\ IF cursor > 0 THEN SetCell(cursor - 1, Blank) /\ Advance(cursor - 1)
                   ELSE UNCHANGED shadow_buffer /\ Advance(cursor)
  /\ UNCHANGED <<history, scroll_offset, vidmem, locals>>

\* Mutant: the ring has one line fewer.
HistorySlotShort(n) == n % (SCROLL_HISTORY_LINES - 1)
HistorySlot(n) == n % SCROLL_HISTORY_LINES

SaveTop ==
  /\ At(Shell, "save") /\ Goto(Shell, "count")
  /\ scroll_history' = [scroll_history EXCEPT ![HistorySlot(history_count)] = shadow_buffer[0]]
  /\ UNCHANGED <<shadow_buffer, history_count, scroll_offset, vidmem, cursor, locals>>

CountLine ==
  /\ At(Shell, "count") /\ Goto(Shell, "shift") /\ SetRow(Shell, 1)
  /\ history_count' = history_count + 1
  /\ UNCHANGED <<shadow_buffer, scroll_history, scroll_offset, vidmem, cursor, idx, line>>

\* One iteration of the loop that copies row i to row i-1
ShiftRow ==
  /\ At(Shell, "shift") /\ row[Shell] \in Rows
  /\ shadow_buffer' = [shadow_buffer EXCEPT ![row[Shell] - 1] = shadow_buffer[row[Shell]]]
  /\ SetRow(Shell, row[Shell] + 1)
  /\ UNCHANGED <<history, scroll_offset, vidmem, cursor, pc, idx, line>>

\* After the loop: the last row is blanked and the cursor moved up.
BlankLast ==
  /\ At(Shell, "shift") /\ row[Shell] \notin Rows
  /\ shadow_buffer' = [shadow_buffer EXCEPT ![MAX_ROWS - 1] = BlankLine]
  /\ cursor' = cursor - MAX_COLS
  /\ SetRow(Shell, 0) /\ Goto(Shell, "paint")
  /\ UNCHANGED <<history, scroll_offset, vidmem, idx, line>>

\* The fast path when the view is live, else vga_redraw_screen
Paint ==
  /\ At(Shell, "paint")
  /\ Goto(Shell, IF scroll_offset = 0 THEN "copy" ELSE "load_count")
  /\ UNCHANGED <<console, vidmem, cursor, locals>>

-----------------------------------------------------------------------------
(* clear_screen                                                            *)

ClearRow ==
  /\ pc[Shell] \in {"idle", "clear"} /\ row[Shell] \in Rows
  /\ shadow_buffer' = [shadow_buffer EXCEPT ![row[Shell]] = BlankLine]
  /\ SetRow(Shell, row[Shell] + 1) /\ Goto(Shell, "clear")
  /\ UNCHANGED <<history, scroll_offset, vidmem, cursor, idx, line>>

\* scroll_offset = 0.  The cursor is set here and not after the redraw:
\* nobody but this thread looks at it.
ClearView ==
  /\ At(Shell, "clear") /\ row[Shell] \notin Rows
  /\ scroll_offset' = 0 /\ cursor' = 0
  /\ SetRow(Shell, 0) /\ Goto(Shell, "load_count")
  /\ UNCHANGED <<shadow_buffer, history, vidmem, idx, line>>

-----------------------------------------------------------------------------
(* vga_poke by a task, and vga_redraw_screen by any thread                 *)

Poke(t, col, ch) ==
  /\ t \in Tasks /\ At(t, "idle") /\ Goto(t, "load_count")
  /\ shadow_buffer' = [shadow_buffer EXCEPT ![0][col] = ch]
  /\ UNCHANGED <<history, scroll_offset, vidmem, cursor, locals>>

\* Thread t computes an index, or loads a row.
Compute(t, from, to, value) ==
  /\ At(t, from) /\ Goto(t, to)
  /\ idx' = [idx EXCEPT ![t] = value]
  /\ UNCHANGED <<console, vidmem, cursor, row, line>>

Load(t, from, to, value) ==
  /\ At(t, from) /\ Goto(t, to)
  /\ line' = [line EXCEPT ![t] = value]
  /\ UNCHANGED <<console, vidmem, cursor, row, idx>>

CopyLoad(t) == Load(t, "copy", "copy_store", shadow_buffer[row[t]])

\* Mutant: rows are counted from one.
LoadOffsetFromOne(t) ==
  Compute(t, "load_offset", "test", idx[t] - scroll_offset + row[t] + 1)

\* history_idx = history_count - scroll_offset + i: two loads
LoadCount(t) == Compute(t, "load_count", "load_offset", history_count)
LoadOffset(t) == Compute(t, "load_offset", "test", idx[t] - scroll_offset + row[t])

\* Before the history (the blank line is drawn), in it, or on the live screen
Test(t) ==
  /\ At(t, "test")
  /\ Goto(t, IF idx[t] < 0 THEN "store"
             ELSE IF idx[t] < history_count THEN "history" ELSE "live")
  /\ UNCHANGED <<console, vidmem, cursor, locals>>

FromHistory(t) == Load(t, "history", "store", scroll_history[HistorySlot(idx[t])])

\* shadow_i = history_idx - history_count, which is loaded again
LiveIndex(t) == Compute(t, "live", "shadow", idx[t] - history_count)

FromShadow(t) ==
  Load(t, "shadow", "store", IF idx[t] \in Rows THEN shadow_buffer[idx[t]] ELSE OutsideLine)

\* The row goes to the screen; then the next one, or the call returns.
StoreRow(t) ==
  /\ pc[t] \in {"store", "copy_store"}
  /\ vidmem' = [vidmem EXCEPT ![row[t]] = line[t]]
  /\ IF row[t] + 1 \in Rows
       THEN SetRow(t, row[t] + 1) /\ Goto(t, IF At(t, "store") THEN "load_count" ELSE "copy")
       ELSE SetRow(t, 0) /\ Goto(t, "idle")
  /\ idx' = [idx EXCEPT ![t] = 0] /\ line' = [line EXCEPT ![t] = BlankLine]
  /\ UNCHANGED <<console, cursor>>

Redraw(t) == \/ LoadCount(t) \/ LoadOffset(t) \/ Test(t) \/ FromHistory(t)
             \/ LiveIndex(t) \/ FromShadow(t) \/ StoreRow(t)

-----------------------------------------------------------------------------
(* The wheel                                                               *)

\* What vga_redraw_screen draws when nothing interrupts it
View(offset) ==
  [r \in Rows |->
     LET n == history_count - offset + r
     IN  CASE n < 0 -> BlankLine
           [] n \in 0 .. history_count - 1 -> scroll_history[HistorySlot(n)]
           [] OTHER -> shadow_buffer[n - history_count]]

Scrolled(offset) ==
  /\ scroll_offset' = offset
  /\ vidmem' = View(offset)
  /\ UNCHANGED <<shadow_buffer, history, cursor, pc, locals>>

\* Mutant: only the size of the ring limits the view.
MayScrollUpTo(n) == n <= SCROLL_HISTORY_LINES
MayScrollUp(n) == n <= SCROLL_HISTORY_LINES /\ n <= history_count

vga_scroll_up == MayScrollUp(scroll_offset + 1) /\ Scrolled(scroll_offset + 1)

\* Mutant: the screen is not redrawn.
ScrolledSilently ==
  /\ scroll_offset > 0 /\ scroll_offset' = scroll_offset - 1
  /\ UNCHANGED <<shadow_buffer, history, vidmem, cursor, pc, locals>>

vga_scroll_down == scroll_offset > 0 /\ Scrolled(scroll_offset - 1)

-----------------------------------------------------------------------------
Printing == (\E ch \in Chars : PrintChar(ch)) \/ PrintNewline \/ PrintBackspace

ScrollScreen == SaveTop \/ CountLine \/ ShiftRow \/ BlankLast

ShellStep == \/ Printing \/ ScrollScreen \/ Paint \/ CopyLoad(Shell) \/ ClearRow \/ ClearView
             \/ Redraw(Shell)

TaskStep(t) == Redraw(t) \/ \E col \in PokeCols, ch \in Marks : Poke(t, col, ch)

Wheel == vga_scroll_up \/ vga_scroll_down

Next == ShellStep \/ (\E t \in Tasks : TaskStep(t)) \/ Wheel

Spec == Init /\ [][Next]_vars

-----------------------------------------------------------------------------
(* Properties                                                              *)

Labels == {"idle", "save", "count", "shift", "paint", "copy", "copy_store", "clear",
           "load_count", "load_offset", "test", "history", "live", "shadow", "store"}

\* Every variable keeps its type.
TypeOK ==
  /\ shadow_buffer \in [Rows -> Lines]
  /\ scroll_history \in [0 .. SCROLL_HISTORY_LINES - 1 -> Lines]
  /\ history_count \in 0 .. MaxLines
  /\ scroll_offset \in 0 .. SCROLL_HISTORY_LINES
  /\ vidmem \in [Rows -> Lines \cup {OutsideLine}]
  /\ cursor \in 0 .. End + MAX_COLS - 1
  /\ pc \in [Threads -> Labels]
  /\ row \in [Threads -> 0 .. MAX_ROWS]
  /\ idx \in [Threads -> Int]
  /\ line \in [Threads -> Lines \cup {OutsideLine}]

\* While lines only scroll off in the shell's own calls, its redraws never miss
\* a line, wherever the wheel moves the view in between: the line looked for is
\* still in the ring, or a row of the shadow buffer.
ShellSeesEveryLine ==
  /\ At(Shell, "test") => idx[Shell] >= 0
  /\ pc[Shell] \in {"test", "history"} => idx[Shell] >= history_count - SCROLL_HISTORY_LINES
  /\ At(Shell, "shadow") => idx[Shell] \in Rows

\* A task's redraw never reads beyond the shadow buffer's end, however the shell's
\* scrolling and the wheel come between its loads.  It can read before the buffer's
\* start, and look for a line older than the history: history_count is loaded up to
\* three times per row, and the shell may scroll the screen between the loads.
TasksReadNotBeyond ==
  \A t \in Tasks : At(t, "shadow") => idx[t] < MAX_ROWS

StaleRows == {r \in Rows : vidmem[r] # View(scroll_offset)[r]}

\* When nobody draws and the view is live, the screen shows the shadow buffer
\* but for one row per thread: the row a thread was copying when it was
\* interrupted is the only one its redraw does not bring up to date.  (A view
\* moved back may stay mixed: print_char has tested scroll_offset once.)
OneStaleRowPerThread ==
  (\A t \in Threads : At(t, "idle")) /\ scroll_offset = 0
    => Cardinality(StaleRows) <= Cardinality(Threads)

\* The console is a scroll-back (module Scrollback).  A line has scrolled off as
\* soon as it is saved: from then on its old place in the shadow buffer is only
\* the source and target of the copying.
Saved == pc[Shell] \in {"count", "shift"}
Shifted == IF At(Shell, "shift") THEN row[Shell] - 1 ELSE 0

LiveLines ==
  IF ~Saved THEN shadow_buffer
  ELSE [r \in Rows |-> IF r < Shifted THEN shadow_buffer[r]
                       ELSE IF r + 1 \in Rows THEN shadow_buffer[r + 1] ELSE BlankLine]

OldLines ==
  LET count == history_count + (IF At(Shell, "count") THEN 1 ELSE 0)
      kept == IF count < SCROLL_HISTORY_LINES THEN count ELSE SCROLL_HISTORY_LINES
  IN  [k \in 1 .. kept |-> scroll_history[(count - kept + k - 1) % SCROLL_HISTORY_LINES]]

Console == INSTANCE Scrollback WITH
  live <- LiveLines, old <- OldLines, back <- scroll_offset,
  pos <- cursor - (IF Saved THEN MAX_COLS ELSE 0),
  History <- SCROLL_HISTORY_LINES
ImplementsScrollback == Console!Spec
=============================================================================
