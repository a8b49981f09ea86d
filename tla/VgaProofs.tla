----------------------------- MODULE VgaProofs -----------------------------
(***************************************************************************)
(* Theorems about Vga, for a screen, a history, sets of characters and of  *)
(* tasks of any size.                                                      *)
(***************************************************************************)
EXTENDS Vga, FiniteSetTheorems, TLAPS

\* Where a thread is inside the loop over the rows of the screen
Drawing == {"copy", "copy_store", "load_count", "load_offset", "test", "history",
            "live", "shadow", "store"}

\* The loop index starts at 0 and stays a row while the loop runs.
RowsRight ==
  \A t \in Threads :
    /\ pc[t] \in {"idle", "save", "count", "paint"} => row[t] = 0
    /\ pc[t] = "shift" => row[t] # 0
    /\ pc[t] \in Drawing => row[t] \in Rows

\* The cursor is on the screen, but while the screen scrolls.
CursorRight ==
  /\ pc[Shell] \in {"save", "count", "shift"} => cursor >= End
  /\ pc[Shell] \notin {"save", "count", "shift"} => cursor < End

\* The view is never moved back beyond what has scrolled off, and a line scrolls
\* off only below the bound of the model.
ViewRight ==
  /\ scroll_offset <= history_count
  /\ pc[Shell] \in {"save", "count"} => history_count < MaxLines

\* Whatever a thread has computed from history_count lags behind it, because it
\* only grows: an index is at most that of the row to be drawn.
IndexNotBeyond ==
  \A t \in Threads :
    /\ At(t, "load_offset") => idx[t] <= history_count
    /\ pc[t] \in {"test", "history", "live"} => idx[t] <= history_count + row[t]
    /\ At(t, "shadow") => idx[t] <= row[t]

\* The shell itself makes history_count grow, so in its own redraw it is the
\* value that was loaded.
ShellIndex ==
  /\ At(Shell, "load_offset") => idx[Shell] = history_count
  /\ At(Shell, "live") => idx[Shell] >= history_count
  /\ At(Shell, "shadow") => idx[Shell] >= 0
  /\ pc[Shell] \in {"test", "history"} =>
       idx[Shell] >= 0 /\ idx[Shell] >= history_count - SCROLL_HISTORY_LINES

IInv == TypeOK /\ RowsRight /\ CursorRight /\ ViewRight /\ IndexNotBeyond /\ ShellIndex

-----------------------------------------------------------------------------
(* The geometry of the screen                                              *)

LEMMA Sizes ==
  /\ 0 \in Rows /\ 0 \in Cols /\ End \in Nat /\ End > 0
  /\ MAX_ROWS - 1 \in Rows
<1>1. MAX_ROWS \in Nat /\ MAX_ROWS > 0 /\ MAX_COLS \in Nat /\ MAX_COLS > 0
  BY VgaAssumption
<1>2. MAX_ROWS * MAX_COLS \in Nat /\ MAX_ROWS * MAX_COLS > 0
  BY <1>1
<1>3. QED
  BY <1>1, <1>2 DEF Rows, Cols, End

\* The row after a cell's begins on the screen or just below it.
LEMMA NextRowStart ==
  ASSUME NEW R \in Nat, NEW C \in Nat \ {0}, NEW n \in Nat, n < R * C
  PROVE  /\ (n \div C + 1) * C \in Nat
         /\ (n \div C + 1) * C <= R * C
<1> DEFINE q == n \div C
<1>1. q \in Nat /\ C * q <= n
  OBVIOUS
<1>2. q < R
  <2>1. SUFFICES ASSUME q >= R PROVE FALSE
    BY <1>1
  <2>2. q * C >= R * C
    BY <1>1, <2>1
  <2>3. QED
    BY <1>1, <2>2
<1>3. q + 1 \in Nat /\ q + 1 <= R
  BY <1>1, <1>2
<1>4. (q + 1) * C <= R * C
  BY <1>3
<1>5. QED
  BY <1>3, <1>4

\* A screen is at least one line long.
LEMMA EndIsWhole == End >= MAX_COLS
<1>1. MAX_ROWS \in Nat /\ MAX_ROWS >= 1 /\ MAX_COLS \in Nat
  BY VgaAssumption
<1>2. MAX_ROWS * MAX_COLS >= 1 * MAX_COLS
  BY <1>1
<1>3. QED
  BY <1>1, <1>2 DEF End

\* A line stays a line when one of its cells is changed, and the buffer a buffer.
LEMMA CellSet ==
  ASSUME shadow_buffer \in [Rows -> Lines], NEW r, NEW c, NEW ch \in Cells
  PROVE  [shadow_buffer EXCEPT ![r][c] = ch] \in [Rows -> Lines]
BY DEF Lines

LEMMA BlankIsLine == BlankLine \in Lines /\ Blank \in Cells
BY DEF BlankLine, Lines, Cells

-----------------------------------------------------------------------------
(* The invariant is inductive                                              *)

LEMMA InvInit == Init => IInv
<1> SUFFICES ASSUME Init PROVE IInv
  OBVIOUS
<1>1. BlankLine \in Lines
  BY BlankIsLine
<1>2. TypeOK
  BY <1>1, Sizes, VgaAssumption DEF Init, TypeOK, Labels
<1>3. RowsRight /\ IndexNotBeyond /\ ShellIndex
  BY Sizes DEF Init, RowsRight, IndexNotBeyond, ShellIndex, At, Drawing, Threads
<1>4. CursorRight /\ ViewRight
  BY Sizes DEF Init, CursorRight, ViewRight, Threads
<1>5. QED
  BY <1>2, <1>3, <1>4 DEF IInv

\* A character is printed: only the buffer and the cursor move.
LEMMA PrintInv ==
  ASSUME IInv, Printing PROVE IInv'
<1> USE DEF At, Goto, history, console, locals
<1>1. pc[Shell] = "idle" /\ cursor \in 0 .. End - 1 /\ Shell \in Threads
  BY Sizes DEF Printing, PrintChar, PrintNewline, PrintBackspace, IInv, TypeOK,
    CursorRight, Threads
<1>2. PICK at \in Nat :
        /\ at <= End /\ Advance(at)
        /\ shadow_buffer' \in [Rows -> Lines]
        /\ UNCHANGED <<scroll_history, history_count, scroll_offset, vidmem, row, idx, line>>
  <2>1. CASE \E ch \in Chars : PrintChar(ch)
    <3>1. PICK ch \in Chars : PrintChar(ch)
      BY <2>1
    <3>2. shadow_buffer' \in [Rows -> Lines]
      BY <3>1, CellSet DEF PrintChar, SetCell, IInv, TypeOK, Cells
    <3>3. cursor + 1 \in Nat /\ cursor + 1 <= End /\ Advance(cursor + 1)
      BY <1>1, <3>1, Sizes DEF PrintChar
    <3>4. QED
      BY <3>1, <3>2, <3>3 DEF PrintChar
  <2>2. CASE PrintNewline
    <3> DEFINE next == (cursor \div MAX_COLS + 1) * MAX_COLS
    <3>1. next \in Nat /\ next <= End
      <4>1. cursor \in Nat /\ cursor < MAX_ROWS * MAX_COLS
        BY <1>1, Sizes DEF End
      <4>2. MAX_ROWS \in Nat /\ MAX_COLS \in Nat \ {0}
        BY VgaAssumption
      <4>3. QED
        BY <4>1, <4>2, NextRowStart DEF End
    <3>2. Advance(next)
      BY <2>2 DEF PrintNewline
    <3>3. shadow_buffer' \in [Rows -> Lines]
      BY <2>2 DEF PrintNewline, IInv, TypeOK
    <3>4. UNCHANGED <<scroll_history, history_count, scroll_offset, vidmem, row, idx, line>>
      BY <2>2 DEF PrintNewline
    <3> HIDE DEF next
    <3>5. QED
      BY <3>1, <3>2, <3>3, <3>4
  <2>3. CASE PrintBackspace
    <3>1. shadow_buffer' \in [Rows -> Lines]
      <4>1. shadow_buffer \in [Rows -> Lines]
        BY DEF IInv, TypeOK
      <4>2. ASSUME SetCell(cursor - 1, Blank) PROVE shadow_buffer' \in [Rows -> Lines]
        BY <4>1, <4>2, CellSet, BlankIsLine DEF SetCell
      <4>3. SetCell(cursor - 1, Blank) \/ shadow_buffer' = shadow_buffer
        BY <2>3 DEF PrintBackspace
      <4>4. QED
        BY <4>1, <4>2, <4>3
    <3>2. UNCHANGED <<scroll_history, history_count, scroll_offset, vidmem, row, idx, line>>
      BY <2>3 DEF PrintBackspace
    <3>3. CASE cursor > 0
      <4>1. cursor - 1 \in Nat /\ cursor - 1 <= End /\ Advance(cursor - 1)
        BY <1>1, <2>3, <3>3, Sizes DEF PrintBackspace
      <4>2. QED
        BY <3>1, <3>2, <4>1
    <3>4. CASE ~(cursor > 0)
      <4>1. cursor \in Nat /\ cursor <= End /\ Advance(cursor)
        BY <1>1, <2>3, <3>4, Sizes DEF PrintBackspace
      <4>2. QED
        BY <3>1, <3>2, <4>1
    <3>5. QED
      BY <3>3, <3>4
  <2>4. QED
    BY <2>1, <2>2, <2>3 DEF Printing
<1>3. /\ cursor' = at
      /\ \/ at >= End /\ pc' = [pc EXCEPT ![Shell] = "save"] /\ history_count < MaxLines
         \/ at < End /\ pc' = [pc EXCEPT ![Shell] = "paint"]
  BY <1>2, Sizes DEF Advance
<1>4. TypeOK'
  <2>1. cursor' \in 0 .. End + MAX_COLS - 1
    BY <1>2, <1>3, Sizes, VgaAssumption
  <2>2. pc' \in [Threads -> Labels]
    BY <1>1, <1>3 DEF IInv, TypeOK, Labels
  <2>3. QED
    BY <1>2, <2>1, <2>2 DEF IInv, TypeOK
<1>5. RowsRight' /\ IndexNotBeyond' /\ ShellIndex'
  BY <1>1, <1>2, <1>3 DEF IInv, TypeOK, RowsRight, IndexNotBeyond, ShellIndex, Drawing
<1>6. CursorRight' /\ ViewRight'
  BY <1>1, <1>2, <1>3 DEF IInv, TypeOK, CursorRight, ViewRight
<1>7. QED
  BY <1>4, <1>5, <1>6 DEF IInv

\* The screen scrolls: the loop over the rows of the buffer, by the shell.
LEMMA ScrollInv ==
  ASSUME IInv, ScrollScreen PROVE IInv'
<1> USE DEF At, Goto, SetRow, history, console, locals
<1>1. Shell \in Threads /\ BlankLine \in Lines
  BY BlankIsLine DEF Threads
<1>2. CASE SaveTop
  <2>1. shadow_buffer[0] \in Lines
    BY Sizes DEF IInv, TypeOK
  <2>2. TypeOK'
    BY <1>1, <1>2, <2>1 DEF SaveTop, IInv, TypeOK, Labels
  <2>3. RowsRight' /\ IndexNotBeyond' /\ ShellIndex'
    BY <1>1, <1>2 DEF SaveTop, IInv, TypeOK, RowsRight, IndexNotBeyond, ShellIndex, Drawing
  <2>4. CursorRight' /\ ViewRight'
    BY <1>1, <1>2 DEF SaveTop, IInv, TypeOK, CursorRight, ViewRight
  <2>5. QED
    BY <2>2, <2>3, <2>4 DEF IInv
<1>3. CASE CountLine
  <2>1. history_count' = history_count + 1 /\ history_count + 1 \in 0 .. MaxLines
    BY <1>3, VgaAssumption DEF CountLine, IInv, TypeOK, ViewRight
  <2>2. TypeOK'
    BY <1>1, <1>3, <2>1, VgaAssumption DEF CountLine, IInv, TypeOK, Labels
  <2>3. RowsRight' /\ ShellIndex'
    BY <1>1, <1>3 DEF CountLine, IInv, TypeOK, RowsRight, ShellIndex, Drawing
  <2>4. IndexNotBeyond'
    BY <1>1, <1>3, <2>1 DEF CountLine, IInv, TypeOK, IndexNotBeyond
  <2>5. CursorRight' /\ ViewRight'
    BY <1>1, <1>3, <2>1 DEF CountLine, IInv, TypeOK, CursorRight, ViewRight
  <2>6. QED
    BY <2>2, <2>3, <2>4, <2>5 DEF IInv
<1>4. CASE ShiftRow
  <2>1. shadow_buffer[row[Shell]] \in Lines /\ row[Shell] + 1 \in 0 .. MAX_ROWS /\ row[Shell] + 1 # 0
    BY <1>1, <1>4, VgaAssumption DEF ShiftRow, IInv, TypeOK, Rows
  <2>2. TypeOK'
    BY <1>1, <1>4, <2>1 DEF ShiftRow, IInv, TypeOK
  <2>3. RowsRight' /\ IndexNotBeyond' /\ ShellIndex'
    BY <1>1, <1>4, <2>1 DEF ShiftRow, IInv, TypeOK, RowsRight, IndexNotBeyond, ShellIndex, Drawing
  <2>4. CursorRight' /\ ViewRight'
    BY <1>4 DEF ShiftRow, IInv, CursorRight, ViewRight
  <2>5. QED
    BY <2>2, <2>3, <2>4 DEF IInv
<1>5. CASE BlankLast
  <2>1. cursor' \in 0 .. End - 1
    <3>1. cursor \in End .. End + MAX_COLS - 1 /\ cursor' = cursor - MAX_COLS
      BY <1>5, Sizes, VgaAssumption DEF BlankLast, IInv, TypeOK, CursorRight
    <3>2. QED
      BY <3>1, Sizes, VgaAssumption, EndIsWhole
  <2>2. cursor' \in 0 .. End + MAX_COLS - 1
    BY <2>1, Sizes, VgaAssumption
  <2>3. TypeOK'
    <3>1. shadow_buffer' \in [Rows -> Lines]
      BY <1>1, <1>5, Sizes DEF BlankLast, IInv, TypeOK
    <3>2. row' \in [Threads -> 0 .. MAX_ROWS]
      BY <1>1, <1>5, VgaAssumption DEF BlankLast, IInv, TypeOK
    <3>3. pc' \in [Threads -> Labels]
      BY <1>1, <1>5 DEF BlankLast, IInv, TypeOK, Labels
    <3>4. QED
      BY <1>5, <2>2, <3>1, <3>2, <3>3 DEF BlankLast, IInv, TypeOK
  <2>4. RowsRight' /\ IndexNotBeyond' /\ ShellIndex'
    BY <1>1, <1>5 DEF BlankLast, IInv, TypeOK, RowsRight, IndexNotBeyond, ShellIndex, Drawing
  <2>5. CursorRight' /\ ViewRight'
    BY <1>1, <1>5, <2>1, Sizes DEF BlankLast, IInv, TypeOK, CursorRight, ViewRight
  <2>6. QED
    BY <2>3, <2>4, <2>5 DEF IInv
<1>6. QED
  BY <1>2, <1>3, <1>4, <1>5 DEF ScrollScreen

\* Paint, clear_screen's loop and its end: where the shell goes next.
LEMMA ShellMovesInv ==
  ASSUME IInv, Paint \/ ClearRow \/ ClearView PROVE IInv'
<1> USE DEF At, Goto, SetRow, history, console, locals
<1>1. Shell \in Threads /\ BlankLine \in Lines
  BY BlankIsLine DEF Threads
<1>2. CASE Paint
  <2>1. TypeOK'
    BY <1>1, <1>2 DEF Paint, IInv, TypeOK, Labels
  <2>2. RowsRight' /\ IndexNotBeyond' /\ ShellIndex'
    BY <1>1, <1>2, Sizes DEF Paint, IInv, TypeOK, RowsRight, IndexNotBeyond, ShellIndex, Drawing
  <2>3. CursorRight' /\ ViewRight'
    BY <1>1, <1>2 DEF Paint, IInv, TypeOK, CursorRight, ViewRight
  <2>4. QED
    BY <2>1, <2>2, <2>3 DEF IInv
<1>3. CASE ClearRow
  <2>1. row[Shell] + 1 \in 0 .. MAX_ROWS
    BY <1>3, VgaAssumption DEF ClearRow, Rows
  <2>2. TypeOK'
    BY <1>1, <1>3, <2>1 DEF ClearRow, IInv, TypeOK, Labels
  <2>3. RowsRight' /\ IndexNotBeyond' /\ ShellIndex'
    BY <1>1, <1>3 DEF ClearRow, IInv, TypeOK, RowsRight, IndexNotBeyond, ShellIndex, Drawing
  <2>4. CursorRight' /\ ViewRight'
    BY <1>1, <1>3 DEF ClearRow, IInv, TypeOK, CursorRight, ViewRight
  <2>5. QED
    BY <2>2, <2>3, <2>4 DEF IInv
<1>4. CASE ClearView
  <2>1. TypeOK'
    BY <1>1, <1>4, Sizes, VgaAssumption DEF ClearView, IInv, TypeOK, Labels
  <2>2. RowsRight' /\ IndexNotBeyond' /\ ShellIndex'
    BY <1>1, <1>4, Sizes DEF ClearView, IInv, TypeOK, RowsRight, IndexNotBeyond, ShellIndex, Drawing
  <2>3. CursorRight' /\ ViewRight'
    BY <1>1, <1>4, Sizes DEF ClearView, IInv, TypeOK, CursorRight, ViewRight
  <2>4. QED
    BY <2>1, <2>2, <2>3 DEF IInv
<1>5. QED
  BY <1>2, <1>3, <1>4

\* A task draws its mark.
LEMMA PokeInv ==
  ASSUME IInv, NEW t \in Tasks, NEW col \in PokeCols, NEW ch \in Marks, Poke(t, col, ch)
  PROVE  IInv'
<1> USE DEF At, Goto, history, console, locals
<1>1. t \in Threads /\ t # Shell
  BY VgaAssumption DEF Threads
<1>2. shadow_buffer' \in [Rows -> Lines]
  BY CellSet DEF Poke, IInv, TypeOK, Cells
<1>3. TypeOK'
  BY <1>1, <1>2 DEF Poke, IInv, TypeOK, Labels
<1>4. RowsRight' /\ IndexNotBeyond' /\ ShellIndex'
  BY <1>1, Sizes DEF Poke, IInv, TypeOK, RowsRight, IndexNotBeyond, ShellIndex, Drawing
<1>5. CursorRight' /\ ViewRight'
  BY <1>1 DEF Poke, IInv, TypeOK, CursorRight, ViewRight
<1>6. QED
  BY <1>3, <1>4, <1>5 DEF IInv

\* A step inside the loop over the rows moves neither rows, cursor nor view.
LEMMA DrawKeeps ==
  ASSUME IInv, NEW t \in Threads, NEW label \in Drawing, pc[t] \in Drawing,
         pc' = [pc EXCEPT ![t] = label],
         row' = row, cursor' = cursor, scroll_offset' = scroll_offset,
         history_count' = history_count
  PROVE  /\ RowsRight' /\ CursorRight' /\ ViewRight'
         /\ pc' \in [Threads -> Labels]
<1>1. pc \in [Threads -> Labels] /\ Shell \in Threads
  BY DEF IInv, TypeOK, Threads
<1>2. \A u \in Threads : pc'[u] = IF u = t THEN label ELSE pc[u]
  BY <1>1
<1>3. RowsRight'
  BY <1>2 DEF IInv, RowsRight, Drawing
<1>4. CursorRight' /\ ViewRight'
  BY <1>1, <1>2 DEF IInv, CursorRight, ViewRight, Drawing
<1>5. pc' \in [Threads -> Labels]
  BY <1>1 DEF Drawing, Labels
<1>6. QED
  BY <1>3, <1>4, <1>5

\* The steps of a redraw that compute an index: the two loads of the row's
\* index, and the third of history_count.
LEMMA ComputeInv ==
  ASSUME IInv, NEW t \in Threads, LoadCount(t) \/ LoadOffset(t) \/ LiveIndex(t)
  PROVE  IInv'
<1> USE DEF At, Goto, history, console, Compute
<1>1. /\ row[t] \in Rows /\ row[t] \in Nat
      /\ history_count \in Nat /\ scroll_offset \in Nat /\ idx[t] \in Int
  BY DEF LoadCount, LoadOffset, LiveIndex, IInv, TypeOK, RowsRight, Drawing, Rows
<1>2. \A u \in Threads : idx[u] \in Int
  BY DEF IInv, TypeOK
<1>3. CASE LoadCount(t)
  <2>1. RowsRight' /\ CursorRight' /\ ViewRight' /\ pc' \in [Threads -> Labels]
    BY <1>3, DrawKeeps DEF LoadCount, Drawing
  <2>2. TypeOK'
    BY <1>1, <1>3, <2>1 DEF LoadCount, IInv, TypeOK
  <2>3. IndexNotBeyond' /\ ShellIndex'
    BY <1>1, <1>3 DEF LoadCount, IInv, TypeOK, IndexNotBeyond, ShellIndex
  <2>4. QED
    BY <2>1, <2>2, <2>3 DEF IInv
<1>4. CASE LoadOffset(t)
  <2>1. RowsRight' /\ CursorRight' /\ ViewRight' /\ pc' \in [Threads -> Labels]
    BY <1>4, DrawKeeps DEF LoadOffset, Drawing
  <2>2. TypeOK'
    BY <1>1, <1>4, <2>1 DEF LoadOffset, IInv, TypeOK
  <2>3. /\ idx' = [idx EXCEPT ![t] = idx[t] - scroll_offset + row[t]]
        /\ pc' = [pc EXCEPT ![t] = "test"] /\ pc[t] = "load_offset"
        /\ UNCHANGED <<history_count, row>>
    BY <1>4 DEF LoadOffset
  <2>4. /\ idx[t] - scroll_offset + row[t] <= history_count + row[t]
    BY <1>1, <2>3 DEF IInv, IndexNotBeyond
  <2>5. IndexNotBeyond'
    BY <1>1, <2>3, <2>4 DEF IInv, TypeOK, IndexNotBeyond
  <2>6. ASSUME t = Shell
        PROVE  /\ idx[t] - scroll_offset + row[t] >= 0
               /\ idx[t] - scroll_offset + row[t] >= history_count - SCROLL_HISTORY_LINES
    BY <1>1, <2>3, <2>6, VgaAssumption DEF IInv, TypeOK, ShellIndex, ViewRight
  <2>7. ShellIndex'
    BY <2>3, <2>6 DEF IInv, TypeOK, ShellIndex, Threads
  <2>8. QED
    BY <2>1, <2>2, <2>5, <2>7 DEF IInv
<1>5. CASE LiveIndex(t)
  <2>1. RowsRight' /\ CursorRight' /\ ViewRight' /\ pc' \in [Threads -> Labels]
    BY <1>5, DrawKeeps DEF LiveIndex, Drawing
  <2>2. TypeOK'
    BY <1>1, <1>5, <2>1 DEF LiveIndex, IInv, TypeOK
  <2>3. IndexNotBeyond'
    BY <1>1, <1>5 DEF LiveIndex, IInv, TypeOK, IndexNotBeyond
  <2>4. ShellIndex'
    BY <1>1, <1>5 DEF LiveIndex, IInv, TypeOK, ShellIndex
  <2>5. QED
    BY <2>1, <2>2, <2>3, <2>4 DEF IInv
<1>6. QED
  BY <1>3, <1>4, <1>5

LEMMA TestInv ==
  ASSUME IInv, NEW t \in Threads, Test(t) PROVE IInv'
<1> USE DEF At, Goto, history, console, locals
<1>1. row[t] \in Rows
  BY DEF Test, IInv, RowsRight, Drawing
<1>2. TypeOK'
  BY DEF Test, IInv, TypeOK, Labels
<1>3. RowsRight' /\ CursorRight' /\ ViewRight'
  BY <1>1 DEF Test, IInv, TypeOK, RowsRight, CursorRight, ViewRight, Drawing
<1>4. IndexNotBeyond' /\ ShellIndex'
  BY DEF Test, IInv, TypeOK, IndexNotBeyond, ShellIndex
<1>5. QED
  BY <1>2, <1>3, <1>4 DEF IInv

\* The steps that load a row.
LEMMA LoadInv ==
  ASSUME IInv, NEW t \in Threads, CopyLoad(t) \/ FromHistory(t) \/ FromShadow(t)
  PROVE  IInv'
<1> USE DEF At, Goto, history, console, Load
<1>1. row[t] \in Rows
  BY DEF CopyLoad, FromHistory, FromShadow, IInv, RowsRight, Drawing
<1>2. line' \in [Threads -> Lines \cup {OutsideLine}]
  <2>1. CASE CopyLoad(t)
    BY <1>1, <2>1 DEF CopyLoad, IInv, TypeOK
  <2>2. CASE FromHistory(t)
    <3>1. HistorySlot(idx[t]) \in 0 .. SCROLL_HISTORY_LINES - 1
      BY VgaAssumption DEF HistorySlot, IInv, TypeOK
    <3>2. QED
      BY <2>2, <3>1 DEF FromHistory, IInv, TypeOK
  <2>3. CASE FromShadow(t)
    BY <2>3 DEF FromShadow, IInv, TypeOK
  <2>4. QED
    BY <2>1, <2>2, <2>3
<1>3. RowsRight' /\ CursorRight' /\ ViewRight' /\ pc' \in [Threads -> Labels]
  <2>1. CASE CopyLoad(t)
    BY <2>1, DrawKeeps DEF CopyLoad, Drawing
  <2>2. CASE FromHistory(t)
    BY <2>2, DrawKeeps DEF FromHistory, Drawing
  <2>3. CASE FromShadow(t)
    BY <2>3, DrawKeeps DEF FromShadow, Drawing
  <2>4. QED
    BY <2>1, <2>2, <2>3
<1>4. TypeOK'
  BY <1>2, <1>3 DEF CopyLoad, FromHistory, FromShadow, IInv, TypeOK
<1>5. /\ pc' = [pc EXCEPT ![t] = "store"] \/ pc' = [pc EXCEPT ![t] = "copy_store"]
      /\ UNCHANGED <<history_count, row, idx>>
  BY DEF CopyLoad, FromHistory, FromShadow
<1>6. \A u \in Threads : pc'[u] \in {pc[u], "store", "copy_store"}
  BY <1>5 DEF IInv, TypeOK
<1>7. IndexNotBeyond'
  BY <1>5, <1>6 DEF IInv, IndexNotBeyond
<1>8. ShellIndex'
  BY <1>5, <1>6 DEF IInv, ShellIndex, Threads
<1>9. QED
  BY <1>3, <1>4, <1>7, <1>8 DEF IInv

\* The row is drawn, and the loop goes on or ends.
LEMMA StoreInv ==
  ASSUME IInv, NEW t \in Threads, StoreRow(t) PROVE IInv'
<1> USE DEF At, Goto, SetRow, history, console
<1>1. /\ row[t] \in Rows /\ row[t] \in Nat /\ BlankLine \in Lines /\ Shell \in Threads
      /\ pc[t] \in {"store", "copy_store"} /\ pc \in [Threads -> Labels]
  BY BlankIsLine DEF StoreRow, IInv, TypeOK, RowsRight, Drawing, Rows, Threads
<1>2. PICK label \in {"idle", "load_count", "copy"}, r \in Rows :
        /\ pc' = [pc EXCEPT ![t] = label] /\ row' = [row EXCEPT ![t] = r]
        /\ label = "idle" => r = 0
  <2>1. CASE row[t] + 1 \in Rows
    BY <2>1 DEF StoreRow
  <2>2. CASE row[t] + 1 \notin Rows
    BY <2>2, Sizes DEF StoreRow
  <2>3. QED
    BY <2>1, <2>2
<1>3. \A u \in Threads :
        /\ pc'[u] = IF u = t THEN label ELSE pc[u]
        /\ row'[u] = IF u = t THEN r ELSE row[u]
  BY <1>1, <1>2 DEF IInv, TypeOK
<1>4. TypeOK'
  <2>1. r \in 0 .. MAX_ROWS
    BY VgaAssumption DEF Rows
  <2>2. row' \in [Threads -> 0 .. MAX_ROWS]
    BY <1>2, <2>1 DEF IInv, TypeOK
  <2>3. vidmem' \in [Rows -> Lines \cup {OutsideLine}]
    BY <1>1 DEF StoreRow, IInv, TypeOK
  <2>4. pc' \in [Threads -> Labels]
    BY <1>1, <1>2 DEF Labels
  <2>5. idx' \in [Threads -> Int] /\ line' \in [Threads -> Lines \cup {OutsideLine}]
    BY <1>1 DEF StoreRow, IInv, TypeOK
  <2>6. QED
    BY <2>2, <2>3, <2>4, <2>5 DEF StoreRow, IInv, TypeOK
<1>5. RowsRight'
  BY <1>2, <1>3 DEF IInv, RowsRight, Drawing
<1>6. CursorRight' /\ ViewRight'
  BY <1>1, <1>2, <1>3 DEF StoreRow, IInv, CursorRight, ViewRight
<1>7. IndexNotBeyond'
  BY <1>1, <1>2, <1>3 DEF StoreRow, IInv, TypeOK, IndexNotBeyond
<1>8. ShellIndex'
  BY <1>1, <1>2, <1>3 DEF StoreRow, IInv, TypeOK, ShellIndex
<1>9. QED
  BY <1>4, <1>5, <1>6, <1>7, <1>8 DEF IInv

\* What an undisturbed redraw draws are lines.
LEMMA ViewIsLines ==
  ASSUME IInv, NEW offset \in Nat, offset <= history_count
  PROVE  View(offset) \in [Rows -> Lines]
<1>1. SUFFICES ASSUME NEW r \in Rows
               PROVE  View(offset)[r] \in Lines
  BY DEF View
<1> DEFINE n == history_count - offset + r
<1>2. n \in Nat /\ n <= history_count + r /\ r \in Nat /\ history_count \in Nat
  BY DEF IInv, TypeOK, Rows
<1>3. CASE n \in 0 .. history_count - 1
  <2>1. HistorySlot(n) \in 0 .. SCROLL_HISTORY_LINES - 1
    BY <1>2, VgaAssumption DEF HistorySlot
  <2>2. scroll_history[HistorySlot(n)] \in Lines
    BY <2>1 DEF IInv, TypeOK
  <2>3. QED
    BY <1>2, <1>3, <2>2 DEF View
<1>4. CASE n \notin 0 .. history_count - 1
  <2>1. n - history_count \in Rows
    BY <1>2, <1>4, VgaAssumption DEF Rows
  <2>2. shadow_buffer[n - history_count] \in Lines
    BY <2>1 DEF IInv, TypeOK
  <2>3. QED
    BY <1>2, <1>4, <2>2 DEF View
<1>5. QED
  BY <1>3, <1>4

\* The wheel moves the view, in one step, within what has scrolled off.
LEMMA WheelInv ==
  ASSUME IInv, Wheel PROVE IInv'
<1> USE DEF history, console, locals
<1>1. PICK offset \in 0 .. SCROLL_HISTORY_LINES : offset <= history_count /\ Scrolled(offset)
  BY VgaAssumption DEF Wheel, vga_scroll_up, vga_scroll_down, MayScrollUp, IInv, TypeOK,
    ViewRight
<1>2. View(offset) \in [Rows -> Lines]
  BY <1>1, ViewIsLines, VgaAssumption
<1>3. TypeOK'
  BY <1>1, <1>2 DEF Scrolled, IInv, TypeOK
<1>4. RowsRight' /\ CursorRight' /\ ViewRight' /\ IndexNotBeyond' /\ ShellIndex'
  BY <1>1 DEF Scrolled, IInv, RowsRight, CursorRight, ViewRight, IndexNotBeyond,
    ShellIndex, At
<1>5. QED
  BY <1>3, <1>4 DEF IInv

LEMMA InvStep == IInv /\ [Next]_vars => IInv'
<1> SUFFICES ASSUME IInv, [Next]_vars PROVE IInv'
  OBVIOUS
<1>1. ASSUME NEW t \in Threads, Redraw(t) \/ CopyLoad(t) PROVE IInv'
  BY <1>1, ComputeInv, TestInv, LoadInv, StoreInv DEF Redraw
<1>2. CASE ShellStep
  <2>1. Shell \in Threads
    BY DEF Threads
  <2>2. QED
    BY <1>1, <1>2, <2>1, PrintInv, ScrollInv, ShellMovesInv DEF ShellStep
<1>3. ASSUME NEW t \in Tasks, TaskStep(t) PROVE IInv'
  <2>1. t \in Threads
    BY DEF Threads
  <2>2. QED
    BY <1>1, <1>3, <2>1, PokeInv DEF TaskStep
<1>4. CASE Wheel
  BY <1>4, WheelInv
<1>5. CASE UNCHANGED vars
  BY <1>5 DEF vars, IInv, TypeOK, RowsRight, CursorRight, ViewRight, IndexNotBeyond,
    ShellIndex, At
<1>6. QED
  BY <1>2, <1>3, <1>4, <1>5 DEF Next

LEMMA Inductive == Spec => []IInv
BY InvInit, InvStep, PTL DEF Spec

-----------------------------------------------------------------------------
(* Which rows are stale, and whose they are                                *)

\* Where a thread is between loading a row, or its index, and storing it
InFlight == {"copy_store", "load_offset", "test", "history", "live", "shadow", "store"}

\* What thread t has loaded is still what it should draw in its row of the live view.
Fresh(t) ==
  /\ pc[t] \in {"copy_store", "store"} => line[t] = shadow_buffer[row[t]]
  /\ At(t, "load_offset") => idx[t] = history_count
  /\ pc[t] \in {"test", "live"} => idx[t] = history_count + row[t]
  /\ At(t, "shadow") => idx[t] = row[t]
  /\ pc[t] # "history"

\* Thread t, if nothing more is drawn, will still draw row r right.
Owes(t, r) ==
  \/ pc[t] \in {"save", "count", "shift", "paint", "clear"}
  \/ pc[t] \in {"copy", "load_count"} /\ r >= row[t]
  \/ pc[t] \in InFlight /\ (r > row[t] \/ (r = row[t] /\ Fresh(t)))

\* left[t] is the row that t has left stale since the screen's contents changed
\* last, or -1: it has carried at most one over the change.
Accounted(left) ==
  /\ \A r \in Rows : vidmem[r] = shadow_buffer[r]
                     \/ \E t \in Threads : Owes(t, r) \/ left[t] = r
  /\ \A t \in Threads : pc[t] \in InFlight /\ ~Fresh(t) => left[t] \in {-1, row[t]}

StaleAccounted ==
  scroll_offset = 0 => \E left \in [Threads -> Rows \cup {-1}] : Accounted(left)

\* A thread that still has the whole screen to draw answers for every row.
LEMMA AllOwed ==
  ASSUME NEW t \in Threads, \A r \in Rows : Owes(t, r)'
  PROVE  StaleAccounted'
<1> DEFINE left == [u \in Threads |-> -1]
<1>1. left \in [Threads -> Rows \cup {-1}]
  OBVIOUS
<1>2. Accounted(left)'
  BY DEF Accounted
<1>3. QED
  BY <1>1, <1>2 DEF StaleAccounted

LEMMA ShellOwesAll ==
  ASSUME pc'[Shell] \in {"save", "count", "shift", "paint", "clear"}
  PROVE  StaleAccounted'
<1>1. Shell \in Threads
  BY DEF Threads
<1>2. \A r : Owes(Shell, r)'
  BY DEF Owes
<1>3. QED
  BY <1>1, <1>2, AllOwed

LEMMA StartsOver ==
  ASSUME NEW t \in Threads, pc'[t] \in {"copy", "load_count"}, row'[t] = 0
  PROVE  StaleAccounted'
<1>1. \A r \in Rows : Owes(t, r)'
  BY DEF Owes, Rows
<1>2. QED
  BY <1>1, AllOwed

\* Only the row being drawn changes hands when its thread goes on.
LEMMA GoesOn ==
  ASSUME IInv, StaleAccounted, NEW t \in Threads, NEW label,
         pc' = [pc EXCEPT ![t] = label],
         UNCHANGED <<shadow_buffer, history_count, scroll_offset, vidmem, row>>,
         \A u \in Threads \ {t} : idx'[u] = idx[u] /\ line'[u] = line[u],
         \A r \in Rows : Owes(t, r) => Owes(t, r)',
         label \in InFlight /\ ~Fresh(t)' => pc[t] \in InFlight /\ ~Fresh(t)
  PROVE  StaleAccounted'
<1>1. \A u \in Threads : pc'[u] = IF u = t THEN label ELSE pc[u]
  BY DEF IInv, TypeOK
<1>2. ASSUME NEW u \in Threads, u # t
      PROVE  (Fresh(u)' <=> Fresh(u)) /\ \A r : Owes(u, r)' <=> Owes(u, r)
  BY <1>1, <1>2 DEF Fresh, Owes, At
<1>3. ASSUME NEW left \in [Threads -> Rows \cup {-1}], Accounted(left)
      PROVE  Accounted(left)'
  BY <1>1, <1>2, <1>3 DEF Accounted
<1>4. QED
  BY <1>3 DEF StaleAccounted

LEMMA StaleInit == Init => StaleAccounted
<1> SUFFICES ASSUME Init PROVE StaleAccounted
  OBVIOUS
<1> DEFINE left == [u \in Threads |-> -1]
<1>1. left \in [Threads -> Rows \cup {-1}]
  OBVIOUS
<1>2. Accounted(left)
  <2>1. \A r \in Rows : vidmem[r] = shadow_buffer[r]
    BY DEF Init
  <2>2. \A t \in Threads : pc[t] \notin InFlight
    BY DEF Init, InFlight
  <2>3. QED
    BY <2>1, <2>2 DEF Accounted
<1>3. QED
  BY <1>1, <1>2 DEF StaleAccounted

\* The shell prints, scrolls, paints or clears: it has the whole screen before it.
LEMMA ShellMovesStale ==
  ASSUME IInv, Printing \/ ScrollScreen \/ Paint \/ ClearRow \/ ClearView
  PROVE  StaleAccounted'
<1> USE DEF At, Goto, SetRow
<1>1. Shell \in Threads /\ pc \in [Threads -> Labels] /\ row \in [Threads -> 0 .. MAX_ROWS]
  BY DEF IInv, TypeOK, Threads
<1>2. CASE Printing
  <2>1. \E at : Advance(at)
    BY <1>2 DEF Printing, PrintChar, PrintNewline, PrintBackspace
  <2>2. pc'[Shell] \in {"save", "paint"}
    BY <1>1, <2>1 DEF Advance
  <2>3. QED
    BY <2>2, ShellOwesAll
<1>3. CASE ScrollScreen
  <2>1. pc'[Shell] \in {"count", "shift", "paint"}
    BY <1>1, <1>3 DEF ScrollScreen, SaveTop, CountLine, ShiftRow, BlankLast
  <2>2. QED
    BY <2>1, ShellOwesAll
<1>4. CASE Paint
  <2>1. pc'[Shell] \in {"copy", "load_count"} /\ row'[Shell] = 0
    BY <1>1, <1>4 DEF Paint, locals, IInv, RowsRight
  <2>2. QED
    BY <1>1, <2>1, StartsOver
<1>5. CASE ClearRow
  <2>1. pc'[Shell] = "clear"
    BY <1>1, <1>5 DEF ClearRow
  <2>2. QED
    BY <2>1, ShellOwesAll
<1>6. CASE ClearView
  <2>1. pc'[Shell] = "load_count" /\ row'[Shell] = 0
    BY <1>1, <1>6 DEF ClearView
  <2>2. QED
    BY <1>1, <2>1, StartsOver
<1>7. QED
  BY <1>2, <1>3, <1>4, <1>5, <1>6

LEMMA PokeStale ==
  ASSUME IInv, NEW t \in Tasks, NEW col, NEW ch, Poke(t, col, ch)
  PROVE  StaleAccounted'
<1>1. t \in Threads /\ pc \in [Threads -> Labels]
  BY DEF IInv, TypeOK, Threads
<1>2. pc'[t] = "load_count" /\ row'[t] = 0
  BY <1>1 DEF Poke, At, Goto, locals, IInv, RowsRight
<1>3. QED
  BY <1>1, <1>2, StartsOver

\* The steps that load or compute: with the view live, what was loaded in time
\* leads to the right row of the shadow buffer.
LEMMA LoadStale ==
  ASSUME IInv, StaleAccounted, NEW t \in Threads,
         CopyLoad(t) \/ LoadCount(t) \/ LoadOffset(t) \/ Test(t) \/ FromHistory(t)
         \/ LiveIndex(t) \/ FromShadow(t)
  PROVE  StaleAccounted'
<1> USE DEF At, Goto, history, console, locals, Load, Compute
<1>1. UNCHANGED <<shadow_buffer, history_count, scroll_offset, vidmem, row>>
  BY DEF CopyLoad, LoadCount, LoadOffset, Test, FromHistory, LiveIndex, FromShadow
<1>2. CASE scroll_offset # 0
  BY <1>1, <1>2 DEF StaleAccounted
<1>3. CASE scroll_offset = 0
  <2>1. /\ row[t] \in Rows /\ row[t] \in Nat /\ history_count \in Nat /\ idx[t] \in Int
        /\ pc[t] \in Drawing
    BY DEF CopyLoad, LoadCount, LoadOffset, Test, FromHistory, LiveIndex, FromShadow,
      IInv, TypeOK, RowsRight, Drawing, Rows
  <2>2. /\ pc \in [Threads -> Labels] /\ idx \in [Threads -> Int]
        /\ line \in [Threads -> Lines \cup {OutsideLine}]
    BY DEF IInv, TypeOK
  <2>3. PICK label :
          /\ pc' = [pc EXCEPT ![t] = label]
          /\ \A u \in Threads \ {t} : idx'[u] = idx[u] /\ line'[u] = line[u]
          /\ \A r \in Rows : Owes(t, r) => Owes(t, r)'
          /\ label \in InFlight /\ ~Fresh(t)' => pc[t] \in InFlight /\ ~Fresh(t)
    <3>1. CASE CopyLoad(t)
      <4>1. pc[t] = "copy" /\ pc'[t] = "copy_store" /\ Fresh(t)'
        BY <1>1, <2>1, <2>2, <3>1 DEF CopyLoad, Fresh
      <4>2. \A r \in Rows : Owes(t, r) => Owes(t, r)'
        BY <1>1, <2>1, <4>1 DEF Owes, InFlight, Rows
      <4>3. QED
        BY <2>2, <3>1, <4>1, <4>2 DEF CopyLoad
    <3>2. CASE LoadCount(t)
      <4>1. pc[t] = "load_count" /\ pc'[t] = "load_offset" /\ Fresh(t)'
        BY <1>1, <2>1, <2>2, <3>2 DEF LoadCount, Fresh
      <4>2. \A r \in Rows : Owes(t, r) => Owes(t, r)'
        BY <1>1, <2>1, <4>1 DEF Owes, InFlight, Rows
      <4>3. QED
        BY <2>2, <3>2, <4>1, <4>2 DEF LoadCount
    <3>3. CASE LoadOffset(t)
      <4>1. pc[t] = "load_offset" /\ pc'[t] = "test" /\ (Fresh(t) => Fresh(t)')
        BY <1>1, <1>3, <2>1, <2>2, <3>3 DEF LoadOffset, Fresh
      <4>2. \A r \in Rows : Owes(t, r) => Owes(t, r)'
        BY <1>1, <2>1, <4>1 DEF Owes, InFlight
      <4>3. QED
        BY <2>2, <3>3, <4>1, <4>2 DEF LoadOffset, InFlight
    <3>4. CASE Test(t)
      <4>1. /\ pc[t] = "test" /\ pc'[t] \in {"store", "history", "live"}
            /\ Fresh(t) => Fresh(t)'
        BY <1>1, <2>1, <2>2, <3>4 DEF Test, Fresh
      <4>2. \A r \in Rows : Owes(t, r) => Owes(t, r)'
        BY <1>1, <2>1, <4>1 DEF Owes, InFlight
      <4>3. pc' = [pc EXCEPT ![t] = pc'[t]] /\ idx' = idx /\ line' = line
        BY <2>2, <3>4 DEF Test
      <4>4. QED
        BY <4>1, <4>2, <4>3 DEF InFlight
    <3>5. CASE FromHistory(t)
      <4>1. pc[t] = "history" /\ pc'[t] = "store" /\ ~Fresh(t)
        BY <2>2, <3>5 DEF FromHistory, Fresh
      <4>2. \A r \in Rows : Owes(t, r) => Owes(t, r)'
        BY <1>1, <2>1, <4>1 DEF Owes, InFlight
      <4>3. QED
        BY <2>2, <3>5, <4>1, <4>2 DEF FromHistory, InFlight
    <3>6. CASE LiveIndex(t)
      <4>1. pc[t] = "live" /\ pc'[t] = "shadow" /\ (Fresh(t) => Fresh(t)')
        BY <1>1, <2>1, <2>2, <3>6 DEF LiveIndex, Fresh
      <4>2. \A r \in Rows : Owes(t, r) => Owes(t, r)'
        BY <1>1, <2>1, <4>1 DEF Owes, InFlight
      <4>3. QED
        BY <2>2, <3>6, <4>1, <4>2 DEF LiveIndex, InFlight
    <3>7. CASE FromShadow(t)
      <4>1. pc[t] = "shadow" /\ pc'[t] = "store" /\ (Fresh(t) => Fresh(t)')
        BY <1>1, <2>1, <2>2, <3>7 DEF FromShadow, Fresh
      <4>2. \A r \in Rows : Owes(t, r) => Owes(t, r)'
        BY <1>1, <2>1, <4>1 DEF Owes, InFlight
      <4>3. QED
        BY <2>2, <3>7, <4>1, <4>2 DEF FromShadow, InFlight
    <3>8. QED
      BY <3>1, <3>2, <3>3, <3>4, <3>5, <3>6, <3>7
  <2>4. QED
    BY <1>1, <2>3, GoesOn
<1>4. QED
  BY <1>2, <1>3

\* A thread stores its row: rightly, or it is now the row it has left stale.
LEMMA StoreStale ==
  ASSUME IInv, StaleAccounted, NEW t \in Threads, StoreRow(t)
  PROVE  StaleAccounted'
<1> USE DEF At, Goto, SetRow, history, console
<1>1. UNCHANGED <<shadow_buffer, history_count, scroll_offset>>
  BY DEF StoreRow
<1>2. CASE scroll_offset # 0
  BY <1>1, <1>2 DEF StaleAccounted
<1>3. CASE scroll_offset = 0
  <2>1. /\ row[t] \in Rows /\ row[t] \in Nat /\ pc[t] \in {"store", "copy_store"}
        /\ pc[t] \in InFlight
    BY DEF StoreRow, IInv, RowsRight, Drawing, Rows, InFlight
  <2>2. /\ pc \in [Threads -> Labels] /\ idx \in [Threads -> Int]
        /\ row \in [Threads -> 0 .. MAX_ROWS]
        /\ line \in [Threads -> Lines \cup {OutsideLine}]
        /\ vidmem \in [Rows -> Lines \cup {OutsideLine}]
    BY DEF IInv, TypeOK
  <2>3. PICK left \in [Threads -> Rows \cup {-1}] : Accounted(left)
    BY <1>3 DEF StaleAccounted
  <2>4. PICK kept \in [Threads -> Rows \cup {-1}] :
          kept = IF Fresh(t) THEN left ELSE [left EXCEPT ![t] = row[t]]
    BY <2>1
  <2>5. ASSUME NEW u \in Threads, u # t
        PROVE  /\ pc'[u] = pc[u] /\ row'[u] = row[u] /\ kept[u] = left[u]
               /\ idx'[u] = idx[u] /\ line'[u] = line[u]
    BY <2>2, <2>4, <2>5 DEF StoreRow
  <2>6. ASSUME NEW u \in Threads, u # t
        PROVE  (Fresh(u)' <=> Fresh(u)) /\ \A r : Owes(u, r)' <=> Owes(u, r)
    BY <1>1, <2>5, <2>6 DEF Fresh, Owes
  <2>7. ASSUME NEW r \in Rows, r # row[t], Owes(t, r) PROVE Owes(t, r)'
    <3>1. r > row[t] /\ r \in Nat
      BY <2>1, <2>7 DEF Owes, Rows
    <3>2. row[t] + 1 \in Rows
      BY <2>1, <3>1, VgaAssumption DEF Rows
    <3>3. pc'[t] \in {"load_count", "copy"} /\ row'[t] = row[t] + 1
      BY <2>2, <3>2 DEF StoreRow
    <3>4. QED
      BY <2>1, <3>1, <3>3 DEF Owes
  <2>8. pc'[t] \notin InFlight
    BY <2>2 DEF StoreRow, InFlight
  <2>9. left[t] \in {-1, row[t]} \/ Fresh(t)
    BY <2>1, <2>3 DEF Accounted
  <2>10. \A u \in Threads : pc'[u] \in InFlight /\ ~Fresh(u)' => kept[u] \in {-1, row'[u]}
    BY <2>3, <2>5, <2>6, <2>8 DEF Accounted
  <2>11. ASSUME NEW r \in Rows
         PROVE  vidmem'[r] = shadow_buffer'[r] \/ \E u \in Threads : Owes(u, r)' \/ kept[u] = r
    <3>1. CASE r = row[t] /\ Fresh(t)
      <4>1. vidmem'[r] = line[t] /\ line[t] = shadow_buffer[row[t]]
        BY <2>1, <2>2, <3>1 DEF StoreRow, Fresh
      <4>2. QED
        BY <1>1, <3>1, <4>1
    <3>2. CASE r = row[t] /\ ~Fresh(t)
      <4>1. kept[t] = r
        BY <2>4, <3>2
      <4>2. QED
        BY <4>1
    <3>3. CASE r # row[t]
      <4>1. vidmem'[r] = vidmem[r]
        BY <2>2, <3>3 DEF StoreRow
      <4>2. CASE vidmem[r] = shadow_buffer[r]
        BY <1>1, <4>1, <4>2
      <4>3. CASE \E u \in Threads : Owes(u, r) \/ left[u] = r
        <5>1. PICK u \in Threads : Owes(u, r) \/ left[u] = r
          BY <4>3
        <5>2. CASE u # t
          BY <2>5, <2>6, <5>1, <5>2
        <5>3. CASE u = t
          <6>1. CASE Owes(t, r)
            BY <2>7, <3>3, <6>1
          <6>2. CASE left[t] = r
            <7>1. r # -1
              BY DEF Rows
            <7>2. Fresh(t)
              BY <2>9, <3>3, <6>2, <7>1
            <7>3. kept[t] = r
              BY <2>4, <6>2, <7>2
            <7>4. QED
              BY <7>3
          <6>3. QED
            BY <5>1, <5>3, <6>1, <6>2
        <5>4. QED
          BY <5>2, <5>3
      <4>4. QED
        BY <2>3, <4>2, <4>3 DEF Accounted
    <3>4. QED
      BY <3>1, <3>2, <3>3
  <2>12. Accounted(kept)'
    BY <2>10, <2>11 DEF Accounted
  <2>13. QED
    BY <2>12 DEF StaleAccounted
<1>4. QED
  BY <1>2, <1>3

\* The live view is the shadow buffer.
LEMMA LiveView ==
  ASSUME IInv, NEW r \in Rows PROVE View(0)[r] = shadow_buffer[r]
<1>1. history_count \in Nat /\ r \in Nat
  BY DEF IInv, TypeOK, Rows
<1>2. /\ ~(history_count - 0 + r < 0)
      /\ history_count - 0 + r \notin 0 .. history_count - 1
      /\ (history_count - 0 + r) - history_count = r
  BY <1>1
<1>3. QED
  BY <1>2 DEF View

\* The wheel draws the whole screen while nobody else can.
LEMMA WheelStale ==
  ASSUME IInv, Wheel PROVE StaleAccounted'
<1>1. PICK offset : Scrolled(offset)
  BY DEF Wheel, vga_scroll_up, vga_scroll_down
<1>2. CASE offset # 0
  BY <1>1, <1>2 DEF Scrolled, StaleAccounted
<1>3. CASE offset = 0
  <2>1. PICK left \in [Threads -> Rows \cup {-1}] :
          \A u \in Threads : pc[u] \in InFlight => left[u] = row[u]
    <3> DEFINE rows == [u \in Threads |-> IF pc[u] \in InFlight THEN row[u] ELSE -1]
    <3>1. rows \in [Threads -> Rows \cup {-1}]
      BY DEF InFlight, IInv, RowsRight, Drawing
    <3>2. QED
      BY <3>1
  <2>2. \A r \in Rows : vidmem'[r] = shadow_buffer'[r]
    BY <1>1, <1>3, LiveView DEF Scrolled
  <2>3. \A u \in Threads : pc'[u] \in InFlight => left[u] = row'[u]
    BY <1>1, <2>1 DEF Scrolled, locals
  <2>4. Accounted(left)'
    BY <2>2, <2>3 DEF Accounted
  <2>5. QED
    BY <2>4 DEF StaleAccounted
<1>4. QED
  BY <1>2, <1>3

LEMMA StaleStep == IInv /\ StaleAccounted /\ [Next]_vars => StaleAccounted'
<1> SUFFICES ASSUME IInv, StaleAccounted, [Next]_vars PROVE StaleAccounted'
  OBVIOUS
<1>1. ASSUME NEW t \in Threads, Redraw(t) \/ CopyLoad(t) PROVE StaleAccounted'
  BY <1>1, LoadStale, StoreStale DEF Redraw
<1>2. CASE ShellStep
  <2>1. Shell \in Threads
    BY DEF Threads
  <2>2. QED
    BY <1>1, <1>2, <2>1, ShellMovesStale DEF ShellStep
<1>3. ASSUME NEW t \in Tasks, TaskStep(t) PROVE StaleAccounted'
  <2>1. t \in Threads
    BY DEF Threads
  <2>2. QED
    BY <1>1, <1>3, <2>1, PokeStale DEF TaskStep
<1>4. CASE Wheel
  BY <1>4, WheelStale
<1>5. CASE UNCHANGED vars
  BY <1>5 DEF vars, StaleAccounted, Accounted, Owes, Fresh, At
<1>6. QED
  BY <1>2, <1>3, <1>4, <1>5 DEF Next

\* A set whose elements are all values of a function on a finite set is no larger.
LEMMA ValuesAreFew ==
  ASSUME NEW S, IsFiniteSet(S), NEW T, NEW f \in [S -> T],
         NEW V, \A v \in V : \E x \in S : f[x] = v
  PROVE  Cardinality(V) <= Cardinality(S)
<1> DEFINE Hit == {x \in S : f[x] \in V}
           onto == [x \in Hit |-> f[x]]
<1>1. IsFiniteSet(Hit) /\ Cardinality(Hit) <= Cardinality(S)
  BY FS_Subset
<1>2. onto \in Surjection(Hit, V)
  BY DEF Surjection
<1>3. IsFiniteSet(V) /\ Cardinality(V) <= Cardinality(Hit)
  BY <1>1, <1>2, FS_Surjection
<1>4. Cardinality(V) \in Nat /\ Cardinality(Hit) \in Nat /\ Cardinality(S) \in Nat
  BY <1>1, <1>3, FS_CardinalityType
<1> HIDE DEF Hit, onto
<1>5. QED
  BY <1>1, <1>3, <1>4

LEMMA FewStaleRows == IInv /\ StaleAccounted => OneStaleRowPerThread
<1> SUFFICES ASSUME IInv, StaleAccounted, \A t \in Threads : At(t, "idle"), scroll_offset = 0
             PROVE  Cardinality(StaleRows) <= Cardinality(Threads)
  BY DEF OneStaleRowPerThread
<1>1. PICK left \in [Threads -> Rows \cup {-1}] : Accounted(left)
  BY DEF StaleAccounted
<1>2. \A r \in StaleRows : \E t \in Threads : left[t] = r
  <2> SUFFICES ASSUME NEW r \in StaleRows PROVE \E t \in Threads : left[t] = r
    OBVIOUS
  <2>1. r \in Rows /\ vidmem[r] # shadow_buffer[r]
    BY LiveView DEF StaleRows
  <2>2. \A t \in Threads : ~Owes(t, r)
    BY DEF Owes, At, InFlight
  <2>3. QED
    BY <1>1, <2>1, <2>2 DEF Accounted
<1>3. IsFiniteSet(Threads)
  <2>1. IsFiniteSet(Tasks \cup {Shell})
    BY FS_AddElement, VgaAssumption
  <2>2. Threads = Tasks \cup {Shell}
    BY DEF Threads
  <2>3. QED
    BY <2>1, <2>2
<1>4. QED
  BY <1>1, <1>2, <1>3, ValuesAreFew

-----------------------------------------------------------------------------
(* The refinement of Scrollback                                            *)

\* Where the next character goes, as the scroll-back counts it
Position == cursor - (IF Saved THEN MAX_COLS ELSE 0)

\* How many lines have scrolled off, and how many of them are kept
Gone == history_count + (IF At(Shell, "count") THEN 1 ELSE 0)
Kept == IF Gone < SCROLL_HISTORY_LINES THEN Gone ELSE SCROLL_HISTORY_LINES

Same == /\ LiveLines' = LiveLines /\ OldLines' = OldLines
        /\ Position' = Position /\ scroll_offset' = scroll_offset

LEMMA SameStutters == Same => UNCHANGED Console!vars
BY DEF Same, Position, Console!vars

LEMMA OldLinesAre ==
  /\ OldLines = [k \in 1 .. Kept |-> scroll_history[(Gone - Kept + k - 1) % SCROLL_HISTORY_LINES]]
  /\ OldLines' = [k \in 1 .. Kept' |-> scroll_history'[(Gone' - Kept' + k - 1) % SCROLL_HISTORY_LINES]]
BY DEF OldLines, Gone, Kept

\* Outside the loop that scrolls the screen, its lines are those of the buffer.
LEMMA NotScrolling ==
  ASSUME cursor \in Int, ~Saved PROVE LiveLines = shadow_buffer /\ Position = cursor
BY VgaAssumption DEF LiveLines, Position

LEMMA NotScrollingNext ==
  ASSUME cursor' \in Int, ~Saved' PROVE LiveLines' = shadow_buffer' /\ Position' = cursor'
BY VgaAssumption DEF LiveLines, Position

LEMMA OldLinesKept ==
  ASSUME UNCHANGED <<scroll_history, Gone>> PROVE OldLines' = OldLines
<1>1. Kept' = Kept
  BY DEF Kept
<1>2. QED
  BY <1>1, OldLinesAre

\* A step that moves neither the buffers nor the shell into or out of the loop.
LEMMA DrawsOnly ==
  ASSUME UNCHANGED <<console, cursor>>,
         \/ pc'[Shell] = pc[Shell] /\ row'[Shell] = row[Shell]
         \/ pc[Shell] \notin {"count", "shift"} /\ pc'[Shell] \notin {"count", "shift"}
  PROVE  UNCHANGED Console!vars
<1>1. Gone' = Gone /\ scroll_history' = scroll_history
  BY DEF Gone, console, At
<1>2. Position' = Position
  BY DEF Position, Saved
<1>3. LiveLines' = LiveLines
  BY DEF LiveLines, Saved, Shifted, At, console
<1>4. QED
  BY <1>1, <1>2, <1>3, OldLinesKept, SameStutters DEF Same, console

LEMMA ScrollbackInit == Init => Console!Init
<1> SUFFICES ASSUME Init PROVE Console!Init
  OBVIOUS
<1>1. pc[Shell] = "idle"
  BY DEF Init, Threads
<1>2. LiveLines = shadow_buffer /\ Position = 0
  BY <1>1, NotScrolling DEF Saved, Init
<1>3. OldLines = <<>>
  <2>1. Gone = 0 /\ Kept = 0
    BY <1>1, VgaAssumption DEF Gone, Kept, At, Init
  <2>2. OldLines = [k \in 1 .. 0 |-> scroll_history[(Gone - Kept + k - 1) % SCROLL_HISTORY_LINES]]
    BY <2>1, OldLinesAre
  <2>3. QED
    BY <2>2
<1>4. QED
  BY <1>2, <1>3 DEF Init, Position, Console!Init, Console!Rows, Console!Cols, Console!BlankLine,
    Rows, Cols, BlankLine

\* Printing: a character is put, a line is ended, a character is rubbed out.
LEMMA PrintScrollback ==
  ASSUME IInv, IInv', Printing PROVE Console!Next \/ UNCHANGED Console!vars
<1> USE DEF At, Goto
<1>1. /\ Shell \in Threads /\ pc \in [Threads -> Labels] /\ pc[Shell] = "idle"
      /\ cursor \in Nat /\ cursor' \in Nat /\ cursor < End
  BY Sizes, VgaAssumption DEF IInv, TypeOK, Threads, Printing, PrintChar, PrintNewline, PrintBackspace,
    CursorRight
<1>2. pc'[Shell] \in {"save", "paint"} /\ UNCHANGED <<scroll_history, history_count, scroll_offset>>
  BY <1>1 DEF Printing, PrintChar, PrintNewline, PrintBackspace, Advance, history, console
<1>3. /\ LiveLines = shadow_buffer /\ Position = cursor
      /\ LiveLines' = shadow_buffer' /\ Position' = cursor'
  BY <1>1, <1>2, NotScrolling, NotScrollingNext DEF Saved
<1>4. OldLines' = OldLines
  BY <1>1, <1>2, OldLinesKept DEF Gone
<1>5. ASSUME NEW ch \in Chars, PrintChar(ch) PROVE Console!Put(ch)
  BY <1>1, <1>2, <1>3, <1>4, <1>5
  DEF PrintChar, SetCell, Advance, Console!Put, Console!SetCell, Console!End, End, Position
<1>6. CASE PrintNewline
  BY <1>1, <1>2, <1>3, <1>4, <1>6
  DEF PrintNewline, Advance, Console!Next, Console!Newline, Console!End, End, Position, console
<1>7. CASE PrintBackspace
  <2>1. CASE cursor > 0
    <3>1. SetCell(cursor - 1, Blank) /\ cursor' = cursor - 1
      BY <1>7, <2>1 DEF PrintBackspace, Advance
    <3>2. cursor \in 1 .. End - 1
      BY <1>1, <2>1, Sizes
    <3>3. Console!Rubout
      BY <1>2, <1>3, <1>4, <3>1, <3>2
      DEF SetCell, Console!Rubout, Console!SetCell, Console!End, End, Position
    <3>4. QED
      BY <3>3 DEF Console!Next
  <2>2. CASE ~(cursor > 0)
    <3>1. shadow_buffer' = shadow_buffer /\ cursor' = cursor
      BY <1>7, <2>2 DEF PrintBackspace, Advance
    <3>2. QED
      BY <1>2, <1>3, <1>4, <3>1, SameStutters DEF Same
  <2>3. QED
    BY <2>1, <2>2
<1>8. QED
  BY <1>5, <1>6, <1>7 DEF Printing, Console!Next

\* Two numbers less than H apart are in different slots of a ring of H.
LEMMA DifferentSlots ==
  ASSUME NEW H \in Nat \ {0}, NEW a \in Nat, NEW b \in Nat, a < b, b - a < H
  PROVE  a % H # b % H
<1> DEFINE p == a \div H
           q == b \div H
<1>1. p \in Int /\ q \in Int /\ a = H * p + (a % H) /\ b = H * q + (b % H)
  OBVIOUS
<1>2. a % H \in Nat /\ b % H \in Nat
  OBVIOUS
<1> HIDE DEF p, q
<1>3. SUFFICES ASSUME a % H = b % H PROVE FALSE
  OBVIOUS
<1>4. H * q - H * p > 0 /\ H * q - H * p < H
  BY <1>1, <1>2, <1>3
<1>5. CASE q <= p
  <2>1. H * q <= H * p
    BY <1>1, <1>5
  <2>2. QED
    BY <1>1, <1>4, <2>1
<1>6. CASE q >= p + 1
  <2>1. H * q >= H * (p + 1)
    BY <1>1, <1>6
  <2>2. H * (p + 1) = H * p + H
    BY <1>1
  <2>3. QED
    BY <1>1, <1>4, <2>1, <2>2
<1>7. QED
  BY <1>1, <1>5, <1>6

\* The line saved over the oldest, when the ring is full, or after the newest.
LEMMA LineSaved ==
  ASSUME IInv, SaveTop
  PROVE  LET all == Append(OldLines, shadow_buffer[0])
         IN  OldLines' = IF Len(all) > SCROLL_HISTORY_LINES THEN Tail(all) ELSE all
<1> DEFINE H == SCROLL_HISTORY_LINES
           h == history_count
           top == shadow_buffer[0]
           slot == h % H
<1>1. /\ H \in Nat \ {0} /\ h \in Nat /\ slot \in 0 .. H - 1 /\ top \in Lines
      /\ scroll_history \in [0 .. H - 1 -> Lines]
  BY VgaAssumption, Sizes DEF IInv, TypeOK
<1>2. scroll_history' = [scroll_history EXCEPT ![slot] = top]
  BY DEF SaveTop, HistorySlot
<1>3. Gone = h /\ Gone' = h + 1
  BY <1>1 DEF SaveTop, Gone, At, Goto, IInv, TypeOK, Threads
<1> HIDE DEF H, h, top, slot
<1> DEFINE Old(k) == scroll_history[(Gone - Kept + k - 1) % H]
<1>4. OldLines = [k \in 1 .. Kept |-> Old(k)]
  BY OldLinesAre DEF H
<1>5. /\ scroll_history'[slot] = top
      /\ \A i \in 0 .. H - 1 : i # slot => scroll_history'[i] = scroll_history[i]
  BY <1>1, <1>2
<1>6. CASE h < H
  <2>1. Kept = h /\ Kept' = h + 1
    BY <1>1, <1>3, <1>6 DEF Kept, H
  <2>2. slot = h
    BY <1>1, <1>6 DEF slot
  <2>3. OldLines = [k \in 1 .. h |-> scroll_history[k - 1]]
    <3>1. \A k \in 1 .. h : (h - h + k - 1) % H = k - 1
      BY <1>1, <1>6
    <3>2. QED
      BY <1>3, <2>1, <3>1, OldLinesAre DEF H
  <2>4. OldLines' = [k \in 1 .. h + 1 |-> IF k = h + 1 THEN top ELSE scroll_history[k - 1]]
    <3>1. \A k \in 1 .. h + 1 : ((h + 1) - (h + 1) + k - 1) % H = k - 1
      BY <1>1, <1>6
    <3>2. OldLines' = [k \in 1 .. h + 1 |-> scroll_history'[k - 1]]
      BY <1>3, <2>1, <3>1, OldLinesAre DEF H
    <3>3. \A k \in 1 .. h + 1 : scroll_history'[k - 1]
                                = IF k = h + 1 THEN top ELSE scroll_history[k - 1]
      BY <1>1, <1>5, <1>6, <2>2
    <3>4. QED
      BY <3>2, <3>3
  <2>5. OldLines \in Seq(Lines) /\ Len(OldLines) = h
    BY <1>1, <1>6, <2>3
  <2>6. Append(OldLines, top) = OldLines' /\ Len(Append(OldLines, top)) = h + 1
    BY <1>1, <2>3, <2>4, <2>5
  <2>7. QED
    BY <1>1, <1>6, <2>6 DEF H, top
<1>7. CASE h >= H
  <2>1. Kept = H /\ Kept' = H
    BY <1>1, <1>3, <1>7 DEF Kept, H
  <2>2. PICK first \in Nat : first = h - H
    BY <1>1, <1>7
  <2>3. OldLines = [k \in 1 .. H |-> scroll_history[(first + k - 1) % H]]
    BY <1>3, <2>1, <2>2, OldLinesAre DEF H
  <2>4. OldLines' = [k \in 1 .. H |-> IF k = H THEN top ELSE scroll_history[(first + k) % H]]
    <3>1. OldLines' = [k \in 1 .. H |-> scroll_history'[(first + k) % H]]
      <4>1. \A k \in 1 .. H : Gone' - Kept' + k - 1 = first + k
        BY <1>1, <1>3, <2>1, <2>2
      <4>2. QED
        BY <2>1, <4>1, OldLinesAre DEF H
    <3>2. ASSUME NEW k \in 1 .. H
          PROVE  scroll_history'[(first + k) % H]
                 = IF k = H THEN top ELSE scroll_history[(first + k) % H]
      <4>1. (first + k) % H \in 0 .. H - 1 /\ first + k \in Nat
        BY <1>1
      <4>2. CASE k = H
        BY <1>1, <1>5, <2>2, <4>2 DEF slot
      <4>3. CASE k # H
        <5>1. first + k < h /\ h - (first + k) < H
          BY <1>1, <2>2, <4>3
        <5>2. (first + k) % H # slot
          BY <1>1, <4>1, <5>1, DifferentSlots DEF slot
        <5>3. QED
          BY <1>5, <4>1, <4>3, <5>2
      <4>4. QED
        BY <4>2, <4>3
    <3>3. QED
      BY <3>1, <3>2
  <2>5. OldLines \in Seq(Lines) /\ Len(OldLines) = H
    <3>1. \A k \in 1 .. H : scroll_history[(first + k - 1) % H] \in Lines
      BY <1>1
    <3>2. QED
      BY <1>1, <2>3, <3>1
  <2>6. Append(OldLines, top) = [k \in 1 .. H + 1 |->
          IF k = H + 1 THEN top ELSE scroll_history[(first + k - 1) % H]]
    BY <1>1, <2>3, <2>5
  <2>7. Len(Append(OldLines, top)) = H + 1
    BY <2>5, <1>1
  <2>8. Tail(Append(OldLines, top)) = [k \in 1 .. H |-> Append(OldLines, top)[k + 1]]
    BY <1>1, <2>5, <2>7
  <2>9. \A k \in 1 .. H : Append(OldLines, top)[k + 1]
                          = IF k = H THEN top ELSE scroll_history[(first + k) % H]
    BY <1>1, <2>2, <2>6
  <2>10. Tail(Append(OldLines, top)) = OldLines'
    BY <2>4, <2>8, <2>9
  <2>11. QED
    BY <1>1, <2>7, <2>10 DEF H, top
<1>8. QED
  BY <1>1, <1>6, <1>7, SMTT(30)

\* The screen scrolls when its top line is saved; the counting and the copying that
\* follow change nothing of what is promised.
LEMMA ScrollScrollback ==
  ASSUME IInv, IInv', ScrollScreen PROVE Console!Next \/ UNCHANGED Console!vars
<1> USE DEF At, Goto, SetRow
<1>1. /\ Shell \in Threads /\ pc \in [Threads -> Labels] /\ row \in [Threads -> 0 .. MAX_ROWS]
      /\ cursor \in Int /\ cursor' \in Int /\ history_count \in Int
      /\ MAX_ROWS \in Nat \ {0} /\ MAX_COLS \in Nat \ {0}
      /\ shadow_buffer \in [Rows -> Lines]
  BY VgaAssumption, Sizes DEF IInv, TypeOK, Threads
<1>2. CASE SaveTop
  <2>1. pc[Shell] = "save" /\ pc'[Shell] = "count" /\ UNCHANGED <<shadow_buffer, scroll_offset, cursor>>
    BY <1>1, <1>2 DEF SaveTop
  <2>2. LiveLines = shadow_buffer /\ Position = cursor
    BY <1>1, <2>1, NotScrolling DEF Saved
  <2>3. Position' = cursor - MAX_COLS /\ cursor >= End
    BY <1>1, <2>1 DEF Position, Saved, IInv, CursorRight
  <2>4. LiveLines' = [r \in Rows |-> IF r + 1 \in Rows THEN shadow_buffer[r + 1] ELSE BlankLine]
    <3>1. Saved' /\ Shifted' = 0
      BY <2>1 DEF Saved, Shifted
    <3>2. \A r \in Rows : ~(r < 0)
      BY DEF Rows
    <3>3. QED
      BY <2>1, <3>1, <3>2 DEF LiveLines
  <2>5. Console!Scroll
    BY <1>2, <2>1, <2>2, <2>3, <2>4, LineSaved
    DEF Console!Scroll, Console!End, Console!Rows, Console!Cols, Console!BlankLine,
      End, Rows, Cols, BlankLine, Position
  <2>6. QED
    BY <2>5 DEF Console!Next
<1>3. CASE CountLine
  <2>1. /\ pc[Shell] = "count" /\ pc'[Shell] = "shift" /\ row'[Shell] = 1
        /\ history_count' = history_count + 1
        /\ UNCHANGED <<shadow_buffer, scroll_history, scroll_offset, cursor>>
    BY <1>1, <1>3 DEF CountLine
  <2>2. Saved /\ Saved' /\ Shifted = 0 /\ Shifted' = 0
    BY <2>1 DEF Saved, Shifted
  <2>3. Gone' = Gone
    BY <1>1, <2>1 DEF Gone
  <2>4. LiveLines' = LiveLines /\ Position' = Position
    BY <2>1, <2>2 DEF LiveLines, Position
  <2>5. QED
    BY <2>1, <2>3, <2>4, OldLinesKept, SameStutters DEF Same
<1>4. CASE ShiftRow
  <2>1. /\ pc[Shell] = "shift" /\ pc'[Shell] = "shift" /\ row[Shell] \in Rows
        /\ row'[Shell] = row[Shell] + 1
        /\ shadow_buffer' = [shadow_buffer EXCEPT ![row[Shell] - 1] = shadow_buffer[row[Shell]]]
        /\ UNCHANGED <<scroll_history, history_count, scroll_offset, cursor>>
    BY <1>1, <1>4 DEF ShiftRow, history
  <2>2. PICK i \in Nat : i = row[Shell] - 1
    BY <1>1, <2>1 DEF IInv, RowsRight, Rows
  <2>3. i \in Rows /\ i + 1 \in Rows /\ row[Shell] = i + 1
    BY <1>1, <2>1, <2>2 DEF Rows
  <2>4. Saved /\ Saved' /\ Shifted = i /\ Shifted' = i + 1
    BY <2>1, <2>2, <2>3 DEF Saved, Shifted
  <2>5. \A r \in Rows : shadow_buffer'[r] = IF r = i THEN shadow_buffer[i + 1] ELSE shadow_buffer[r]
    BY <1>1, <2>1, <2>2, <2>3
  <2>6. LiveLines' = LiveLines
    <3>1. ASSUME NEW r \in Rows
          PROVE  (IF r < i + 1 THEN shadow_buffer'[r]
                  ELSE IF r + 1 \in Rows THEN shadow_buffer'[r + 1] ELSE BlankLine)
                 = (IF r < i THEN shadow_buffer[r]
                    ELSE IF r + 1 \in Rows THEN shadow_buffer[r + 1] ELSE BlankLine)
      <4>1. r \in Nat
        BY DEF Rows
      <4>2. CASE r < i
        BY <2>5, <4>1, <4>2
      <4>3. CASE r = i
        BY <2>3, <2>5, <4>1, <4>3
      <4>4. CASE r > i
        <5>1. r + 1 \in Rows => shadow_buffer'[r + 1] = shadow_buffer[r + 1]
          BY <2>5, <4>1, <4>4
        <5>2. ~(r < i) /\ ~(r < i + 1)
          BY <4>1, <4>4
        <5>3. QED
          BY <5>1, <5>2
      <4>5. QED
        BY <4>1, <4>2, <4>3, <4>4
    <3>2. LiveLines' = [r \in Rows |-> IF r < i + 1 THEN shadow_buffer'[r]
                          ELSE IF r + 1 \in Rows THEN shadow_buffer'[r + 1] ELSE BlankLine]
      BY <2>4 DEF LiveLines
    <3>3. LiveLines = [r \in Rows |-> IF r < i THEN shadow_buffer[r]
                         ELSE IF r + 1 \in Rows THEN shadow_buffer[r + 1] ELSE BlankLine]
      BY <2>4 DEF LiveLines
    <3>4. QED
      BY <3>1, <3>2, <3>3
  <2>7. Gone' = Gone /\ Position' = Position
    BY <2>1, <2>4 DEF Gone, Position
  <2>8. QED
    BY <2>1, <2>6, <2>7, OldLinesKept, SameStutters DEF Same
<1>5. CASE BlankLast
  <2>1. /\ pc[Shell] = "shift" /\ pc'[Shell] = "paint" /\ row[Shell] \notin Rows
        /\ shadow_buffer' = [shadow_buffer EXCEPT ![MAX_ROWS - 1] = BlankLine]
        /\ cursor' = cursor - MAX_COLS
        /\ UNCHANGED <<scroll_history, history_count, scroll_offset>>
    BY <1>1, <1>5 DEF BlankLast, history
  <2>2. row[Shell] = MAX_ROWS /\ row[Shell] - 1 = MAX_ROWS - 1
    BY <1>1, <2>1 DEF Rows
  <2>3. Saved /\ ~Saved' /\ Shifted = MAX_ROWS - 1
    BY <2>1, <2>2 DEF Saved, Shifted
  <2>4. Position' = Position
    BY <1>1, <2>1, <2>3, NotScrollingNext DEF Position
  <2>5. LiveLines' = LiveLines
    <3>1. LiveLines' = shadow_buffer'
      BY <1>1, <2>3, NotScrollingNext
    <3>2. ASSUME NEW r \in Rows
          PROVE  shadow_buffer'[r]
                 = IF r < MAX_ROWS - 1 THEN shadow_buffer[r]
                   ELSE IF r + 1 \in Rows THEN shadow_buffer[r + 1] ELSE BlankLine
      <4>1. r \in Nat /\ r <= MAX_ROWS - 1
        BY <1>1 DEF Rows
      <4>2. CASE r < MAX_ROWS - 1
        BY <1>1, <2>1, <4>1, <4>2
      <4>3. CASE r = MAX_ROWS - 1
        <5>1. r + 1 \notin Rows /\ ~(r < MAX_ROWS - 1)
          BY <1>1, <4>3 DEF Rows
        <5>2. shadow_buffer'[r] = BlankLine
          BY <1>1, <2>1, <4>3
        <5>3. QED
          BY <5>1, <5>2
      <4>4. QED
        BY <1>1, <4>1, <4>2, <4>3
    <3>3. shadow_buffer' \in [Rows -> Lines]
      BY DEF IInv, TypeOK
    <3>4. LiveLines = [r \in Rows |-> IF r < MAX_ROWS - 1 THEN shadow_buffer[r]
                         ELSE IF r + 1 \in Rows THEN shadow_buffer[r + 1] ELSE BlankLine]
      BY <2>3 DEF LiveLines
    <3>5. QED
      BY <3>1, <3>2, <3>3, <3>4
  <2>6. Gone' = Gone
    BY <2>1 DEF Gone
  <2>7. QED
    BY <2>1, <2>4, <2>5, <2>6, OldLinesKept, SameStutters DEF Same
<1>6. QED
  BY <1>2, <1>3, <1>4, <1>5 DEF ScrollScreen

\* Clearing erases line after line, then goes home.
LEMMA ClearScrollback ==
  ASSUME IInv, IInv', ClearRow \/ ClearView PROVE Console!Next
<1> USE DEF At, Goto, SetRow
<1>1. /\ Shell \in Threads /\ pc \in [Threads -> Labels] /\ row \in [Threads -> 0 .. MAX_ROWS]
      /\ cursor \in Int /\ cursor' \in Int
  BY VgaAssumption, Sizes DEF IInv, TypeOK, Threads
<1>2. CASE ClearRow
  <2>1. pc[Shell] \in {"idle", "clear"} /\ pc'[Shell] = "clear" /\ row[Shell] \in Rows
    BY <1>1, <1>2 DEF ClearRow
  <2>2. /\ LiveLines = shadow_buffer /\ Position = cursor
        /\ LiveLines' = shadow_buffer' /\ Position' = cursor'
    BY <1>1, <2>1, NotScrolling, NotScrollingNext DEF Saved
  <2>3. OldLines' = OldLines
    BY <1>2, <2>1, OldLinesKept DEF ClearRow, history, Gone
  <2>4. Console!Erase(row[Shell])
    BY <1>2, <2>2, <2>3
    DEF ClearRow, Console!Erase, Console!BlankLine, Console!Cols, BlankLine, Cols, Position
  <2>5. QED
    BY <2>1, <2>4 DEF Console!Next, Console!Rows, Rows
<1>3. CASE ClearView
  <2>1. pc[Shell] = "clear" /\ pc'[Shell] = "load_count"
    BY <1>1, <1>3 DEF ClearView
  <2>2. /\ LiveLines = shadow_buffer /\ Position = cursor
        /\ LiveLines' = shadow_buffer' /\ Position' = cursor'
    BY <1>1, <2>1, NotScrolling, NotScrollingNext DEF Saved
  <2>3. OldLines' = OldLines
    BY <1>3, <2>1, OldLinesKept DEF ClearView, history, Gone
  <2>4. Console!Home
    BY <1>3, <2>2, <2>3 DEF ClearView, Console!Home, Position
  <2>5. QED
    BY <2>4 DEF Console!Next
<1>4. QED
  BY <1>2, <1>3

\* A task marks the top line, unless that has just been saved: then its place in the
\* buffer is about to be overwritten.
LEMMA PokeScrollback ==
  ASSUME IInv, IInv', NEW t \in Tasks, NEW col \in PokeCols, NEW ch \in Marks, Poke(t, col, ch)
  PROVE  Console!Next \/ UNCHANGED Console!vars
<1>1. /\ Shell \in Threads /\ t # Shell /\ pc \in [Threads -> Labels]
      /\ row \in [Threads -> 0 .. MAX_ROWS]
      /\ cursor \in Int /\ cursor' \in Int
      /\ shadow_buffer \in [Rows -> Lines] /\ 0 \in Rows
  BY VgaAssumption, Sizes, SMTT(30) DEF IInv, TypeOK, Threads
<1>2. /\ pc'[Shell] = pc[Shell] /\ row'[Shell] = row[Shell]
      /\ shadow_buffer' = [shadow_buffer EXCEPT ![0][col] = ch]
      /\ UNCHANGED <<scroll_history, history_count, scroll_offset, cursor>>
  BY <1>1 DEF Poke, Goto, history, locals
<1>3. Gone' = Gone /\ Position' = Position /\ Shifted' = Shifted /\ (Saved' <=> Saved)
  BY <1>2 DEF Gone, Position, Shifted, Saved, At
<1>4. OldLines' = OldLines
  BY <1>2, <1>3, OldLinesKept
<1>5. \A r \in Rows : r # 0 => shadow_buffer'[r] = shadow_buffer[r]
  BY <1>1, <1>2
<1>6. shadow_buffer'[0] = [shadow_buffer[0] EXCEPT ![col] = ch]
  BY <1>1, <1>2
<1>7. ASSUME LiveLines' = [LiveLines EXCEPT ![0][col] = ch] PROVE Console!Next
  <2>1. Console!Mark(col, ch)
    BY <1>2, <1>3, <1>4, <1>7 DEF Console!Mark, Position
  <2>2. col \in Console!Cols
    BY VgaAssumption DEF Console!Cols
  <2>3. QED
    BY <2>1, <2>2 DEF Console!Next
<1>8. CASE ~Saved
  <2>1. LiveLines = shadow_buffer /\ LiveLines' = shadow_buffer'
    BY <1>1, <1>3, <1>8, NotScrolling, NotScrollingNext
  <2>2. QED
    BY <1>2, <1>7, <2>1
<1>9. CASE Saved
  <2>1. LiveLines = [r \in Rows |-> IF r < Shifted THEN shadow_buffer[r]
                       ELSE IF r + 1 \in Rows THEN shadow_buffer[r + 1] ELSE BlankLine]
    BY <1>9 DEF LiveLines
  <2>2. LiveLines' = [r \in Rows |-> IF r < Shifted THEN shadow_buffer'[r]
                       ELSE IF r + 1 \in Rows THEN shadow_buffer'[r + 1] ELSE BlankLine]
    BY <1>3, <1>9 DEF LiveLines
  <2>3. Shifted \in Nat
    <3>1. row[Shell] \in Nat /\ (pc[Shell] = "shift" => row[Shell] # 0)
      BY <1>1, VgaAssumption DEF IInv, RowsRight
    <3>2. QED
      BY <3>1 DEF Shifted, At
  <2>4. \A r \in Rows : r \in Nat /\ r + 1 # 0
    BY DEF Rows
  <2>5. CASE Shifted = 0
    <3>1. LiveLines' = LiveLines
      BY <1>5, <2>1, <2>2, <2>4, <2>5
    <3>2. QED
      BY <1>2, <1>3, <1>4, <3>1, SameStutters DEF Same
  <2>6. CASE Shifted # 0
    <3>1. LiveLines[0] = shadow_buffer[0] /\ LiveLines'[0] = shadow_buffer'[0]
      BY <1>1, <2>1, <2>2, <2>3, <2>6
    <3>2. ASSUME NEW r \in Rows, r # 0 PROVE LiveLines'[r] = LiveLines[r]
      BY <1>5, <2>1, <2>2, <2>4, <3>2
    <3>3. [LiveLines EXCEPT ![0][col] = ch]
            = [r \in Rows |-> IF r = 0 THEN [shadow_buffer[0] EXCEPT ![col] = ch] ELSE LiveLines[r]]
      BY <1>1, <2>1, <3>1
    <3>4. LiveLines' = [r \in Rows |-> LiveLines'[r]]
      BY <2>2
    <3>5. \A r \in Rows : LiveLines'[r]
                          = IF r = 0 THEN [shadow_buffer[0] EXCEPT ![col] = ch] ELSE LiveLines[r]
      BY <1>6, <3>1, <3>2
    <3>6. LiveLines' = [LiveLines EXCEPT ![0][col] = ch]
      BY <3>3, <3>4, <3>5
    <3>7. QED
      BY <1>7, <3>6
  <2>7. QED
    BY <2>5, <2>6
<1>10. QED
  BY <1>8, <1>9

\* The wheel moves the view within the lines that are kept.
LEMMA WheelScrollback ==
  ASSUME IInv, Wheel PROVE Console!Next
<1>1. /\ history_count \in Nat /\ SCROLL_HISTORY_LINES \in Nat \ {0} /\ scroll_offset \in Nat
      /\ scroll_offset <= history_count /\ scroll_offset <= SCROLL_HISTORY_LINES
  BY VgaAssumption DEF IInv, TypeOK, ViewRight
<1>2. PICK offset \in {scroll_offset - 1, scroll_offset + 1} :
        /\ offset \in Nat /\ offset <= history_count /\ offset <= SCROLL_HISTORY_LINES
        /\ Scrolled(offset)
  <2>1. CASE vga_scroll_up
    BY <1>1, <2>1 DEF vga_scroll_up, MayScrollUp
  <2>2. CASE vga_scroll_down
    BY <1>1, <2>2 DEF vga_scroll_down
  <2>3. QED
    BY <2>1, <2>2 DEF Wheel
<1>3. Kept \in Nat /\ offset <= Kept
  BY <1>1, <1>2 DEF Kept, Gone
<1>4. Len(OldLines) = Kept
  BY <1>3, OldLinesAre
<1>5. /\ scroll_offset' = offset
      /\ UNCHANGED <<shadow_buffer, scroll_history, history_count, cursor, pc, row>>
  BY <1>2 DEF Scrolled, history, locals
<1>6. LiveLines' = LiveLines /\ Position' = Position /\ Gone' = Gone
  BY <1>5 DEF LiveLines, Saved, Shifted, Position, Gone, At
<1>7. OldLines' = OldLines
  BY <1>5, <1>6, OldLinesKept
<1>8. scroll_offset' \in {scroll_offset - 1, scroll_offset + 1} \cap 0 .. Len(OldLines)
  BY <1>2, <1>3, <1>4, <1>5
<1>9. Console!MoveView
  BY <1>6, <1>7, <1>8 DEF Console!MoveView, Position
<1>10. QED
  BY <1>9 DEF Console!Next

\* Drawing changes nothing but the screen.
LEMMA DrawScrollback ==
  ASSUME IInv, NEW t \in Threads, Redraw(t) \/ CopyLoad(t) PROVE UNCHANGED Console!vars
<1> USE DEF At, Goto, SetRow, console, locals, Compute, Load
<1>1. /\ UNCHANGED <<console, cursor>>
      /\ pc[t] \notin {"count", "shift"}
  BY DEF Redraw, LoadCount, LoadOffset, Test, FromHistory, LiveIndex, FromShadow, StoreRow,
    CopyLoad
<1>2. PICK label :
        /\ label \notin {"count", "shift"} /\ pc' = [pc EXCEPT ![t] = label]
        /\ \A u \in Threads : u # t => row'[u] = row[u]
  <2>1. pc \in [Threads -> Labels] /\ row \in [Threads -> 0 .. MAX_ROWS]
    BY DEF IInv, TypeOK
  <2>2. \A u \in Threads : u # t => row'[u] = row[u]
    BY <2>1 DEF Redraw, LoadCount, LoadOffset, Test, FromHistory, LiveIndex, FromShadow,
      StoreRow, CopyLoad
  <2>3. \E label : label \notin {"count", "shift"} /\ pc' = [pc EXCEPT ![t] = label]
    <3>1. CASE StoreRow(t)
      BY <3>1 DEF StoreRow
    <3>2. CASE Test(t)
      BY <3>2 DEF Test
    <3>3. CASE LoadCount(t) \/ LoadOffset(t) \/ LiveIndex(t)
      BY <3>3 DEF LoadCount, LoadOffset, LiveIndex
    <3>4. CASE FromHistory(t) \/ FromShadow(t) \/ CopyLoad(t)
      BY <3>4 DEF FromHistory, FromShadow, CopyLoad
    <3>5. QED
      BY <3>1, <3>2, <3>3, <3>4 DEF Redraw
  <2>4. QED
    BY <2>2, <2>3
<1>3. Shell \in Threads /\ pc \in [Threads -> Labels]
  BY DEF IInv, TypeOK, Threads
<1>4. CASE t = Shell
  <2>1. pc[Shell] \notin {"count", "shift"} /\ pc'[Shell] \notin {"count", "shift"}
    BY <1>1, <1>2, <1>3, <1>4
  <2>2. QED
    BY <1>1, <2>1, DrawsOnly
<1>5. CASE t # Shell
  <2>1. pc'[Shell] = pc[Shell] /\ row'[Shell] = row[Shell]
    BY <1>2, <1>3, <1>5
  <2>2. QED
    BY <1>1, <2>1, DrawsOnly
<1>6. QED
  BY <1>4, <1>5

LEMMA ScrollbackStep == IInv /\ IInv' /\ [Next]_vars => [Console!Next]_Console!vars
<1> SUFFICES ASSUME IInv, IInv', [Next]_vars
             PROVE  Console!Next \/ UNCHANGED Console!vars
  OBVIOUS
<1>1. CASE ShellStep
  <2>1. Shell \in Threads /\ pc \in [Threads -> Labels]
    BY DEF IInv, TypeOK, Threads
  <2>2. CASE Paint
    <3>1. pc[Shell] = "paint" /\ pc'[Shell] \in {"copy", "load_count"} /\ UNCHANGED <<console, cursor>>
      BY <2>1, <2>2 DEF Paint, At, Goto
    <3>2. QED
      BY <3>1, DrawsOnly
  <2>3. QED
    BY <1>1, <2>1, <2>2, PrintScrollback, ScrollScrollback, ClearScrollback, DrawScrollback
    DEF ShellStep
<1>2. ASSUME NEW t \in Tasks, TaskStep(t) PROVE Console!Next \/ UNCHANGED Console!vars
  <2>1. t \in Threads
    BY DEF Threads
  <2>2. QED
    BY <1>2, <2>1, PokeScrollback, DrawScrollback DEF TaskStep
<1>3. CASE Wheel
  BY <1>3, WheelScrollback
<1>4. CASE UNCHANGED vars
  BY <1>4, DrawsOnly DEF vars, console
<1>5. QED
  BY <1>1, <1>2, <1>3, <1>4 DEF Next

-----------------------------------------------------------------------------
\* Every variable keeps its type (TypeOK): no row is written below the screen,
\* wherever the shell is interrupted.
THEOREM TypeCorrect == Spec => []TypeOK
BY Inductive, PTL DEF IInv

\* A task's redraw never reads beyond the end of the shadow buffer
\* (TasksReadNotBeyond), however often the screen scrolls under it.
THEOREM TasksStayInside == Spec => []TasksReadNotBeyond
<1>1. IInv => TasksReadNotBeyond
  <2> SUFFICES ASSUME IInv, NEW t \in Tasks, At(t, "shadow") PROVE idx[t] < MAX_ROWS
    BY DEF TasksReadNotBeyond
  <2>1. idx[t] <= row[t] /\ row[t] \in Rows /\ idx[t] \in Int
    BY DEF IInv, TypeOK, IndexNotBeyond, RowsRight, Drawing, Threads, At
  <2>2. QED
    BY <2>1, VgaAssumption DEF Rows
<1>2. QED
  BY Inductive, <1>1, PTL

\* The shell's own redraw finds every line in the ring or in the shadow buffer
\* (ShellSeesEveryLine), wherever the wheel moves the view in between.
THEOREM ShellReadsRight == Spec => []ShellSeesEveryLine
<1>1. IInv => ShellSeesEveryLine
  <2> SUFFICES ASSUME IInv PROVE ShellSeesEveryLine
    OBVIOUS
  <2>1. Shell \in Threads
    BY DEF Threads
  <2>2. At(Shell, "shadow") => idx[Shell] \in Rows
    BY <2>1, VgaAssumption
    DEF IInv, TypeOK, IndexNotBeyond, ShellIndex, RowsRight, Drawing, Rows, At
  <2>3. QED
    BY <2>2 DEF ShellSeesEveryLine, IInv, ShellIndex, At
<1>2. QED
  BY Inductive, <1>1, PTL

\* When nobody draws and the view is live, at most one row per thread is stale on
\* the screen (OneStaleRowPerThread), for any number of tasks that draw and however
\* they and the shell interrupt one another.
THEOREM StaleRowsBounded == Spec => []OneStaleRowPerThread
BY Inductive, InvStep, StaleInit, StaleStep, FewStaleRows, PTL DEF Spec

\* The console is a scroll-back (ImplementsScrollback): the lines that scroll off are
\* kept in order, the oldest is dropped when the ring is full, and none is lost or
\* changed while the copying that scrolls the screen is interrupted.
THEOREM ConsoleScrollsBack == Spec => ImplementsScrollback
BY Inductive, InvStep, ScrollbackInit, ScrollbackStep, PTL DEF Spec, ImplementsScrollback, Console!Spec
=============================================================================
