# Hamro OS in TLA+

A verification development of Hamro OS, a 32-bit x86 teaching kernel: a boot
loader, a preemptive round-robin scheduler, a first-fit heap, keyboard, mouse,
timer and VGA drivers, and a shell with a RAM file system.  The modules here
model the kernel's own logic, TLC checks them on small instances, and TLAPS
proves the main invariants for every instance.

## 1. The system

| part | state | operations | interacts with |
|---|---|---|---|
| Scheduler `process/process.c` | `processes[]`, `current_process_idx`, `process_count`, `next_pid` | `init_scheduler`, `create_process`, `schedule`, `process_sleep`, `process_exit` | called by the timer interrupt; returns the stack pointer that `interrupt.asm` loads; calls `kmalloc` |
| Timer `drivers/timer.c` | `tick_count` | `timer_callback`, `get_ticks`, `sleep` | IRQ 0, scheduler |
| Interrupt path `kernel/interrupt.asm`, `kernel/isr.c` | handler table | `irq_common_stub`, `irq_handler` | saves a frame on the current stack, runs the handler, switches to the frame it returns |
| Heap `memory/mem.c` | the block list | `init_mem`, `kmalloc`, `kfree`, totals | scheduler (stacks), shell (`memtest`, `meminfo`) |
| Keyboard `drivers/keyboard.c` | ring `kb_buf`, `kb_head`, `kb_tail`, `shift_pressed` | IRQ 1 callback, `get_last_char`, `clear_last_char` | the shell polls it |
| RAM file system in `shell/shell.c` | `fs[]`, `fs_count`, `cwd` | `touch write mkdir ls cd cat cp mv rm` | shell only |
| Shell loop, `calc`, `snake`, `matrix`, `hack` in `shell/shell.c` | line buffer, game state | one command at a time | keyboard, timer, VGA |
| VGA `drivers/vga.c` | `shadow_buffer`, `scroll_history`, `history_count`, `scroll_offset`, the screen | `print_char`, `vga_poke`, scroll, redraw | shell, both tasks, mouse interrupt |
| Mouse `drivers/mouse.c` | `mouse_byte`, `mouse_cycle`, position | IRQ 12 callback | VGA |
| Kernel main `kernel/kernel.c` | - | starts everything, creates `task1`, `task2`, becomes the shell | all |
| Boot loader `boot/` | - | loads the image, enters protected mode | - |

There is one processor.  Concurrency is the timer switching between thread 0
(the shell) and the tasks, and the interrupt handlers, which run with
interrupts off.  The build uses no optimisation (`Makefile`, `CFLAGS`), so
loads and stores happen in program order.

What is hard, and what makes each part right:

* scheduler: the table is shared by every thread and the timer with no lock.
  One slot runs, every dispatchable slot has its own thread's frame, slots are
  not taken while in use, READY threads are dispatched, sleepers return;
* heap: splitting and merging edit the list being walked.  The blocks tile the
  heap, pieces are disjoint, failure means full;
* keyboard: an interrupt produces, a polling loop consumes in two calls.  A
  bounded queue, and the reader removes what it read;
* file system: long sequences of commands, each of which resolves paths and
  edits a table.  A tree, one node per name, everything in it can be listed;
* VGA: drawing is interrupted by scrolling and by other drawing, and re-reads
  shared counters row by row.  A scroll-back whose lines are whole, indexes
  inside the arrays, a screen that shows the buffer when nobody draws;
* mouse: one output register for two devices, packets without a mark of their
  start, polls that give up.  Driver and device agree, the pointer is one cell,
  start-up ends and the register never stays full;
* shell: the line that is run is the one on the screen, its words and the value
  of an expression are right, and a command that loops still reads the keys.

`PROJECT.json` lists every such hazard at its line with the properties that
cover it.

## 2. Modules

| module | models | specified by |
|---|---|---|
| `Scheduler` | scheduler, timer, interrupt path, the calls of `kernel_main`, the tasks and the shell | - |
| `SchedulerProofs` | theorems about it | |
| `Allocator` | what `kmalloc`/`kfree` promise | abstract |
| `Heap` | `mem.c`, loop iteration by loop iteration | implements `Allocator` |
| `HeapProofs` | theorems, the refinement among them | |
| `CharQueue` | a bounded queue that drops when full and only then | abstract |
| `Keyboard` | the ring, the interrupt, the polling reader | implements `CharQueue` |
| `KeyboardProofs` | theorems, the refinement among them | |
| `Scrollback` | live lines, the lines scrolled off, a view on them | abstract |
| `Vga` | `vga.c`: printing, scrolling, clearing, `vga_poke`, redraw, wheel | implements `Scrollback` |
| `VgaProofs` | theorems, the refinement among them | |
| `Mouse`, `MCMouse` | `mouse.c`, with the PS/2 controller and its two devices | - |
| `MouseProofs` | theorems | |
| `FileTree` | a tree of files and directories | abstract |
| `RamFs`, `MCRamFs` | the table, the path resolver, the commands | implements `FileTree` (moves to a free place) |
| `RamFsProofs` | theorems, the refinement among them | |
| `Shell`, `MCShell` | the line editor, the splitting of a line, the commands that loop | - |
| `Calc` | `calc`: parser, arithmetic, decimal text; extended by `Shell` | `Arithmetic` |
| `Matrix` | a column of the rain; extended by `Shell` | - |
| `Arithmetic` | what `calc` promises: the meaning of expression trees | abstract |
| `ShellProofs` | theorems about `Shell`, `Matrix` and `Calc` | |
| `Snake`, `MCSnake` | the game loop, what it draws, the redraws over it | - |
| `SnakeProofs` | theorems | |

Definitions keep the source's names; each carries its lines in `PROJECT.json`
under `map`.  Operators whose comment begins with "Mutant" are deliberate bugs:
each property is checked to fail when its mutant takes the place of the real
definition.

How the modules fit together: `Shell` reads keys from a queue of the kind that
`Keyboard` is shown to implement, and prints on a console that behaves as `Vga`
does while only the shell prints; what a file command does to the table is
`RamFs`, what the game does is `Snake`, and how long a nap lasts is `Scheduler`.
The tasks of `Scheduler` appear in `Vga` as `Poke` and `Redraw`, in `Shell` as
`Poke` (the mark in row 0) and `RedrawLine`, in `Snake` as `RedrawCell`; the wheel of
`Mouse` is `vga_scroll_up` and `vga_scroll_down` in `Vga`, and `Wheel` in `Shell` and
`Snake`.  The mouse pointer, an attribute that `mouse_callback` writes into a cell of
video memory, is `Mouse`'s alone: the cells of `Vga` are what its own code writes.

**Scheduler.**  A thread's program counter `pc[t]` says which access comes next.
Every load and store that an interrupt can come between is an action
(`process_count++` is a load and a store); an interrupt handler is one action.
`cpu` is the thread whose code is executing and `esp[p]` the thread whose frame
slot `p` points to, so loading a wrong or never-stored stack pointer is visible
as `cpu # id[current_process_idx]` or `cpu = NoFrame`; after `NoFrame` the
machine is lost and the model stops, which is why those runs do not check
deadlock.  `Picked` states the result of schedule's scan (the first
dispatchable slot after the current one) instead of its loop; the loop's
demotion of the running slot, its waking of the sleepers it passes and its
fallback are in `Switched` and `Dispatchable`.  A sleeper that the scan passes
is either woken and taken or left asleep: the scan stops at the first READY slot.

**Heap.**  Addresses are offsets from `HEAP_START`; a block is named by its
header's address and the list is three functions over the headers.  Only thread
0 allocates, so calls do not interleave, but each loop iteration is a step, so that a
list broken in mid-walk would show.

**Keyboard.**  A scan code is either a shift key's, a character's (a member of
`Keys`) or one the code ignores.  The reader is the loop every consumer in
`shell.c` runs.  `lost` is a history variable: it flips when a key's character does
not enter the ring, so that a drop is a step of its own in `CharQueue`, allowed only
when the queue is full, and not a stutter.

**Vga.**  A cell is a character with its colour and a copy of a row is a load and
a store; everything that reads or writes `history_count`, `scroll_offset` or a
row of the buffer is a step of its own, because a tick or the wheel's interrupt
may come between.  The shell prints, scrolls and clears; a task's `vga_poke`
writes a cell and redraws; both run the same `Redraw`, with `pc`, `row`, `idx`
and `line` as each thread's registers.  The wheel's handler runs with interrupts
off and is one step, its redraw included.  `Outside` stands for what a read
before or behind the buffer returns.  The refinement counts a line as scrolled
off once `SaveTop` has copied it; until the copying is over, the live lines are
read where they have got to.

**Mouse.**  `Script` is `init_mouse` as a sequence of port accesses; each is a step,
with interrupts off, and what the controller raises meanwhile stays latched until
`kernel_main` enables interrupts.  `obf` is the controller's one output register.
The controller, mouse and keyboard are external; they are modelled as the driver
uses them.  A poll may give up at any time, whether or not an answer is still to come
(`InitGivesUp`: 100000 polls are a time the devices know nothing of).  `mixed`
becomes true when a byte was lost or read by whom it was not for: the driver has no
means to recover, so what is promised in step is stated under `~mixed`, and what
holds in any case (`TypeOK`, `OnePointer`, `InitEnds`, `PortDrains`) is stated
without it.

**RamFs.**  Commands are atomic: nothing but the shell uses the table.  A path
is the sequence of its components.  "/" is the empty sequence, and `Slashed`
spells out that a name made by appending to "/" gets an empty first component
("//x"), which is what `mv` of a directory onto "/" does.  The resolver keeps
`STACK` folders (8 in the code), drops what is beyond, and is a recursive
function over the components (`Resolve`).  Arguments that overflow the code's
buffers are outside the model.  There are two specifications: `Spec` has every
command as the code has it; `TameSpec` leaves out the moves for which `mv` lacks a
check (`Tame`), and is what the tree properties are about.

**Snake.** A key, a move, a fatal move and quitting are actions. The board is the
set of play cells and what each shows of the game; the random generator is a
free choice of cell (of a cell off the snake after the first food: the code
retries up to 200 times on a board where at most 100 of 1638 cells are taken).
The game draws to video memory directly, and two things paint the console over it
while it runs: `vga_poke` of `task1` and `task2`, which may be preempted between any
two cells of its redraw (`RedrawCell`), and the wheel's interrupt (`Wheel`).  What
they paint need not be blank: with the view moved back (`scroll_offset` # 0) older
lines and row 0 with the tasks' marks come to stand on the play cells, and a task
that is preempted in a row may paint an old one.  So a cell that was repainted is
"none", no part of the game, whatever character it has: what is claimed is about the
snake and the food only. `FoodCells` leaves
the snake's cells out because the code's generator (`rand`) names at least 166
different cells in any 200 draws in a row: this was computed over its whole
period, and a snake covers at most 100.

**Shell, Calc, Matrix.**  A key is a character, a line a sequence of them, a command
a name of one character; commands that only print are a choice of texts, put on
the console character by character.  The loops of `sleep`, `matrix`, `hack` and
`snake` are modes of the shell's thread, because what matters there is whether
they take keys.  `Calc` has the recursive-descent parser as it is written, over
positions in the line, with `int` arithmetic of an adjustable width
(`IntHalf` is 2^31 in the code), division that traps, and `int_to_ascii`.  The
parser's functions call each other; they are the rules of one recursive function
(`parse` in `Calculated`) of the rule, the value on its left and the position.
`Arithmetic` compares its result, as the shell prints it and as a reader reads it
(`Stands`), with the meaning of expression trees, which knows nothing of parsing.
A tree may have the unary minus of a group ("neg"); `CalcAsPromised` is about all
trees, `CalcIsRight` about those without it (`plain`).  A column of the rain is what
its cells show of the rain: as in `Snake`, a line that a task (`RedrawLine`) or the
wheel (`Wheel`) has repainted is "none" and may show anything of the console, the
marks in the columns 76 to 79 of row 0 among it.
`Trees` holds the nodes of any number of expressions, each after its operands, so
that the text and the meaning of a node are recursive functions of its index.

## 3. Runs

| run | instance | checks |
|---|---|---|
| `scheduler_table` | 3 slots, 3 stacks, one task created; thread 0 creates and sleeps, tasks sleep and exit; counter wraps at 3 | `AtMostOneRunning`, `FrameOfOwner`, `WrongThreadOnlyInCreateWindow`, `TurnApproaches`, `OnlyFreeSlotsTaken` |
| `scheduler_live` | 3 slots, both tasks created and sleeping, wrap at 5 | `ParkedUntilDeadline`, `ReadyRuns`, `SleepReturns` |
| `scheduler_garbage` | 4 slots, nothing created yet | `EaxPointsToFrame` fails |
| `heap` | 88 bytes, the real header and alignment, requests of 1, 8 and 17 bytes | `Tiled`, `Coalesced`, `FailsOnlyWhenFull`, `ImplementsAllocator` |
| `keyboard` | ring of 4, two keys, two shift keys | `ConsumesWhatItRead`, `ImplementsQueue`, `EventuallyRead` |
| `keyboard_drop` | the same | `NeverDropped` fails |
| `vga` | 3 rows of one column, a history of 2 lines, one task, 3 lines scroll off | `ShellSeesEveryLine`, `TasksReadNotBeyond`, `OneStaleRowPerThread`, `ImplementsScrollback` |
| `mouse` | 4 by 3 cells, no mouse, a plain or a wheel mouse, two movements, three scan codes, one history line | `TypeOK`, `InStep`, `OnePointer`, `FollowsMouse`, `InitEnds`, `PortDrains` |
| `ramfs_tree` | 4 slots, 2 names, 2 folders deep and names of up to 4 components, every command (`TameSpec`), every argument of up to two components, absolute or relative, with `..` | `TypeOK`, `LsShowsAll`, `NamesUnique`, `ParentsExist`, `MovesTogether`, `ImplementsFileTree` |
| `shell` | a console of 4 by 4, lines of up to 9 characters, a queue of 3, the command lines and `calc` expressions of `MCShell`, in 7-bit arithmetic | `ShownIsTyped`, `SplitRight`, `CalcIsRight`, `RainsClean`, `FullQueueRead` |
| `shell_negated` | the same | `CalcAsPromised` fails |
| `snake` | 3 by 3 cells, snakes of 3 to 5 segments | `InOnePiece`, `NeverTurnsBack`, `NoGhosts`, `FoodClear` |

The type invariants of `Scheduler`, `Heap`, `Keyboard`, `Vga` and `Snake` are proved
for every instance, so no run repeats them, and that of `Shell` is part of its
inductive invariant; the same goes for `OnlyCreateRevives`,
`OwnedMatchesBlocks`, `HeadersSafe` and `ShiftNotStuck` (section 5).  `mouse` and
`ramfs_tree` check theirs because they say more than types: the pointer stays on the
screen whatever bytes arrive, and the resolver yields paths.

Why the bounds are enough.  Three slots hold the current, a next and a third
thread, so a turn can be taken, skipped or stolen; three stacks let slots be
reused after an exit; a counter that wraps at 3 or 5 makes every order of
deadline and wrap occur within a few ticks.  An 88-byte heap holds up to five
blocks, enough for a free block between used ones, a merge of three, an exact
fit, a remainder too small to split and exhaustion.  A ring of four wraps and
fills.  Three lines that scroll off overwrite a history of two, so the ring
wraps, the view can be at either end and in the middle, and a task may be
preempted in any row while the shell scrolls; rows are whole lines, so a second
column would only repeat the first.  The two movements of the mouse differ in
both signs, leave the screen, need rounding and turn the wheel both ways; the
scan codes are one that reads as an identification, one that reads as a
configuration byte which switches the keyboard off and one that does neither.
Two names and two levels give siblings, a nested directory, prefixes, moves of a
directory with what is under it and, with `cp` and `mv` into a directory at the
limit, names beyond it (the code's limit is eight; the resolver treats every depth
alike); two of the four slots are taken at the start, and two are left to be filled.
`ramfs_tree` identifies states that differ only in inactive entries, which no
command looks at, or in the order of the others, which no command can see while
names are unique (`MCView`; `NamesUnique` is checked in the same run, and a state
with two entries of one name has a view of its own).  The typed lines
wrap and scroll a console of 16 cells, are longer than the buffer, have blanks
everywhere and words longer than their arrays; the expressions are both shapes
of two operators, so precedence and order show, with wrap-around, the smallest
`int`, its quotient that traps, division by zero, and the unary minus of a group.
A snake of five on nine cells turns, meets itself, eats, and reaches its
maximal length.

Named bounds: `NumStacks` (how many stacks the heap gives out), `TickMod` (2^32
in the code), `MaxLines` (lines that scroll off), `Undisturbed` (after one byte
went astray, no other does while `init_mouse` runs, and none is lost), `NameMax`
(the longest path; `char name[64]`), `MAX_FILES`, `KB_BUF_SIZE`, `HEAP_SIZE`,
`SNAKE_MAX`, `Typed` and `Trees` (the lines typed), `IntHalf`.

Deadlock is checked wherever the system cannot stop.  It is off for the runs
with creation (a lost `esp` ends the behaviour), for the file system (a full
table and no further legal command is a legal end), for the game, which ends, for
the shell, which a division error halts, and for the mouse, whose ports may fall
silent.

Fairness.  `scheduler_live`: weak fairness of the timer interrupt (the PIT is
periodic and handlers return), and strong fairness of a sleeping thread's wait
loop, because each time it is dispatched it has a whole slice of 10 ms; nothing
obliges a thread to call anything.  `keyboard`: weak fairness of the polling
loop; keys are not obliged to come.  `mouse`: weak fairness of both interrupts
and of the controller's delivery, and strong fairness of `init_mouse`, because
`mouse_wait` counts its polls and ends even if what it waits for comes and goes;
no device is obliged to send. `shell`: weak fairness of the thread's own loop,
which never waits for anything but the keys and, in `sleep`, the timer; it is
written with `Busy` in the place of `ENABLED Step`, which TLC would have to
evaluate through every command.  Keys are not obliged to come there either.

## 4. What the checks show

Holds: everything the passing runs list.  Does not hold, each with its run:

* a tick between `state = PROCESS_READY` and `esp = ...` of `create_process`
  switches to a stack pointer that was never stored (`scheduler_garbage`).
  `WrongThreadOnlyInCreateWindow` shows, and TLAPS proves, that this window is
  the only way a wrong frame is ever loaded;
* a key struck while the ring is full is dropped (`keyboard_drop`), although the
  comment at `keyboard.c:7-9` says that the ring keeps keypresses from ever being
  dropped because the shell was busy: the ring of 16 holds 15 characters, and
  `ImplementsQueue` shows that the 16th and later ones are the only ones lost;
* `-(2)` is 0 (`shell_negated`), although the comment at `shell.c:675` promises
  parentheses and unary minus, because only a number may follow the sign.

Found while modelling and not stated as a run:

* Scheduler and timer: with exits, the two updates of `process_count` race and
  the count can stay off by one; a sleeper whose deadline is within
  `MAX_PROCESSES` ticks of the wrap can be passed over and then sleeps for a
  whole period of the counter (`SleepReturns` excludes exactly these); `sleep`
  of thread 0 returns at once when its end tick wraps; a thread that is created,
  runs and sleeps before `create_process` has stored `sleep_ticks = 0` loses its
  deadline (`ParkedUntilDeadline` is therefore checked on the running system,
  after the creations); a tick in `process_sleep` between `SLEEPING` and the store of
  the deadline can cut the sleep short (`ParkedUntilDeadline` begins after that store).
* VGA: a task's redraw loads `history_count` up to three times per row, and while the
  shell scrolls in between it can index the shadow buffer before its start
  (`TasksReadNotBeyond` is about its end only) or look for a line older than the
  history, although the comment at `vga.c:224-225` calls `vga_poke` "safe for
  background tasks"; `print_char` tests `scroll_offset` once,
  so a view that is moved back meanwhile may stay mixed until the next redraw
  (`OneStaleRowPerThread` is about the live view); with a full ring and the view
  fully back, the oldest line shows the newest while the shell is between saving
  and counting it; `history_count` is an `int` and overflows after 2^31 lines.
* Mouse: a key struck while `init_mouse` polls is taken for the configuration
  byte, an acknowledgement or the identification; it can switch the keyboard's
  interrupt off, hide the wheel, or leave an acknowledgement that the first
  packet is taken to begin with.  The reply to the configuration command latches
  the keyboard's interrupt line, so `keyboard_callback`, which does not ask whose
  byte it reads, may take the first byte of a packet after `sti`.  A lost byte
  shifts every later packet.
* File system: `mv` checks nothing of its destination (it never calls
  `parent_exists`, `shell.c:219`, as the other commands do), so it makes orphans,
  moves a directory into itself and, moving onto an existing file, leaves two
  entries with one name; `mv` of a directory onto "/" renames its contents to
  "//name", which no argument resolves to.  With `Spec` in the place of `TameSpec` in
  `RamFsTree.cfg`, `ParentsExist` and `NamesUnique` fail after one or two commands;
  `cp` into a directory at the depth limit makes a file one level deeper than any
  path reaches; `rm -rf` of the
  working directory leaves `cwd` naming nothing, and `LsShowsAll` shows that
  nothing can be created there afterwards.
* Shell: what follows a complete
  expression is ignored; division by zero gives 0, but the smallest `int` divided
  by -1 is a divide error and halts the kernel; `int_to_ascii` has no text for
  the smallest `int`; hack's progress bar (`shell.c:494`) is 79 bytes of UTF-8 and
  only 39 are erased; a typed character in the last columns of row 0 can be
  overwritten by the tasks (`ShownIsTyped` leaves these cells out).
* Snake and matrix: each blink of a task, and each turn of the wheel, paints the
  console over what they have drawn, so the board has gaps, and in the rain the marks
  of row 0 or, with the view moved back, older lines show between the drops; the first
  food may lie on the snake, and the tail then erases it (`NoGhosts` leaves the
  food's cell out, `FoodClear` begins with the first meal); a snake of `SNAKE_MAX`
  segments that eats leaves its last segment on the screen (`NoGhosts` stops at
  that length).

## 5. Proofs

All theorems hold for every value of the constants that satisfies the named
assumptions (`SchedulerAssumption`, `HeapAssumption`, `KeyboardAssumption`,
`VgaAssumption`, `MouseAssumption`, `SnakeAssumption`, `RamFsAssumption`,
`InitFsAssumption`, `CalcAssumption`, `TreesAssumption`, `MatrixAssumption`,
`ShellAssumption`).  They
say that sizes are natural numbers and not zero where the code's arrays are not
empty, that requests stay clear of the 32-bit limit, that bytes and movements have
their ranges, that the first snake fits the board, that `init_fs` makes a tree,
and that an operand of an expression is a node before it.
The less obvious ones: what the resolver keeps fits a name (`STACK <= NameMax`: a
path that did not fit `name[64]` would be outside the model); there are finitely
many tasks, and "no byte" is no byte; the console has at least two columns and, but
for one row, room for a prompt, the longest line and one cell more (80 by 25 against
255 in the code: a shorter console would scroll the prompt away); a drop is at least
four cells long (`rand() % 12 + 5`), because its third shade is painted three cells
above its head; an `int` has at most 32 bits, so that its decimal text has at most
ten digits, and at least the digits fit it.

*SchedulerProofs.*  The inductive invariant `IInv` strengthens the checked
properties with `MainRunnable` (slot 0 is RUNNING or READY, so schedule's
fallback is never taken), `SlotReserved` (the slot `create_process` has chosen
is still free, because nobody else creates) and `DeadIsExiting` (the thread in a
dead slot that is still executing is inside `process_exit`).  Without the first,
the fallback would have to be shown harmless from states that never occur;
without the second, the late stores of `create_process` could hit a slot in
use.  `AtMostOneRunning`, `FrameOfOwner` and `WrongThreadOnlyInCreateWindow` are
conjuncts; the action properties `TurnApproaches`, `OnlyFreeSlotsTaken` and
`OnlyCreateRevives` follow from it step by step.  `WokenNoEarlier` needs one fact
more, `DeadlineKept`: the deadline a parked thread has computed is the one in its
slot's `sleep_ticks`.  `create_process` can break it with a late store, so the theorem
has the hypothesis `"create" \notin MainCalls`, which is the running system:
`kernel_main` creates the tasks before it becomes the shell.

*HeapProofs.*  `IInv` adds to the checked invariants where the cursor of each
loop can be: everything behind kfree's cursor is already merged, everything
behind kmalloc's does not fit.  From it follow tiling, ownership, coalescing,
the completeness of first fit, and the refinement of `Allocator`: every step is
a `Grant`, a `Release` or leaves the callers' pointers alone.

*KeyboardProofs.*  `IInv` adds that every slot between tail and head holds a
character; the interrupt only writes at the head and never when the next slot is
the tail, so the tail's character stays put between the reader's two calls.
`Refinement` shows that the ring is the queue of `CharQueue` for every size: the
lemmas `WriteAppends` and `MoveTakes` turn the two index updates, with their
wrap-around, into `Append` and `Tail` of the sequence between tail and head, and
`FullHolds` that a character is lost only when `Capacity` of them are pending.

*VgaProofs.*  What a thread computed from `history_count` may be old.
`IndexNotBeyond` says how old: `history_count` only grows, so an index lags
behind and never runs ahead of the row to be drawn, which keeps a task's read
below the buffer's end; `ShellIndex` says that in the shell's own redraw it is
current, because only the shell makes the counter grow, and with `ViewRight` (the
view is never further back than what has scrolled off) every line it looks for
exists.  `RowsRight` and `CursorRight` are the loop invariants of the copying.
`StaleRowsBounded` counts: by `StaleAccounted` every stale row is one that some thread
still has to draw from what the buffer holds now, or the one row that a thread
carried, loaded and not yet stored, over the last change of the buffer.
`ConsoleScrollsBack` is the refinement of `Scrollback`: `SaveTop` is its scroll, and
the copying that follows changes nothing there, because a live line is read from its
old place until it has been copied to its new one.

*MouseProofs.*  `NoneBefore` (no byte of a packet is stored while `init_mouse`
runs) is what keeps `mouse_cycle` below the packet's length when that length is
set; bytes may otherwise be lost, stolen or out of step.  The pointer is one cell
because every path that moves it redraws or clears the old cell first.
`StaysInStep` follows `init_mouse` through its script: as long as `~mixed`, `StepInv`
says for each position of the script what the mouse has been told, what it has
answered and what is still on its way, and after the script that the bytes on their
way are the rest of one packet and then whole packets.  `PointerFollows` uses that the
bytes the driver has stored are the first ones of the very packet that the byte in
the register ends.

*SnakeProofs.*  `Neck` says that the head is where the last move took it and that
the next move does not lead back; judging a key by the last move protects the
neck only because of it.  `NoGhosts` is preserved because the head's new cell is
no segment's, the dropped tail is erased before it is forgotten, and a redraw only
removes parts of the game.

*RamFsProofs.*  With every command: `TypeCorrect`, for which the resolver has to
yield at most `STACK` names (`ResolveIs`), and `DirectoriesMoveWhole`, for which the
suffix of a name under a directory has to be the same before and after the move,
with "//x" as a name (`SuffixSplits`).  Without `mv`: uniqueness of names is what makes
"the first entry of that name" the entry (`IInv`); for `ParentsExist`, `TreeInv` adds
that every entry is inside an active directory, and the lemma `ChildIsUnder` (the
name of a child continues that of its parent) shows that a removal leaves no
orphan.  `NothingHidden` goes from there down to every entry, by the length of its
name.  With `mv` these are false (section 4).  `TameMovesKeepTree` says when they
survive it: as long as every `mv` the user types is `Tame`, that is, goes to a free
name inside an existing directory, not into what it moves, and takes no directory to
"/".  Its proof needs that nothing is below a name that no directory has (`NothingBelow`), so that what moves along
meets nothing where it goes, and that the directory of each entry under a moved one
moves to the directory of its new name (`TameParents`).  `TableImplementsTree` is the
refinement of `FileTree` under the same condition: a command is a `Create`, an
`Update`, a `Delete` or a `Move` of a whole subtree, or leaves the tree alone.  Every
condition counts: without the first two, `mv` makes a second entry of a name or an
orphan, without the third it moves a directory into itself, and without the last its
contents become "//name".  `DirectoriesMoveWhole` needs none of them.

*ShellProofs.*  `ShellInv` is inductive: the console is a grid with a cursor on it, the
prompt and the line stand before the cursor (`LineOn`), the line is empty in every
mode but reading, and a column of the rain has not left the screen (`RainOK`).  `LineOn`
survives a scroll in the middle of a line because every cell moves up by a whole
row of offsets (`DivMod`, `PutChar`) and because the console is longer than a line.
What `kprint` makes of a text is a recursive function; `PrintedIs` shows that it has a
value, a screen after each character.

`CalcComputes` is about every expression without a negated group, numbers of any
length and every width of `int` up to 32 bits.  Its invariant `RanOK` needs nothing of the console: if
the command that ran last was `calc` with an argument, the number shown is that of
`Calculated`, and the shell has halted if and only if a division trapped in it.  The
rest is about the parser.

* It computes something: a call's `Weight` is smaller than that of the call that
  makes it, because a rule calls a lower one at the same place or one further on in
  the text; so `parse` has a value at every call, and its equation holds (`Defined`).
  Every call returns an `int` and a position that is not before its own.
* It computes the right thing: when the text of a tree stands in the line and no digit
  follows it, the rule for the tree's strength (`cl_prim`, `cl_term` or `cl_eval`)
  reads it to its end and has the tree's meaning there (`TreesRead`).  This cannot be
  shown for `cl_term` alone: its loop has a left operand already, so the claim speaks of
  the loop as it goes on after the text with the meaning on its left.  The operands of a
  tree come before it, and the first node for which the claim fails is shown not to
  exist.
* It is printed right: the digits of `Written` stand for the number (`ReadBack`), and
  the width is that of the number, so there is no leading zero.

Induction.  The induction theorems of the library take an operator and cannot be
used here.  Where a proof goes through the characters of a text, the components of a
path, the rounds of `ls`, the nodes of a tree or the calls of the parser, it takes the
first number for which the claim would fail (`LeastNat`, from the well-foundedness of
the naturals, and `UpTo`).

Only model-checked: liveness (`ReadyRuns`, `SleepReturns`, `EventuallyRead`,
`InitEnds`, `PortDrains`, `FullQueueRead`), which is outside the prover's reach, as is
`ENABLED`.  Every other property of a passing run is stated by a theorem.

## 6. Not modelled

* `neofetch`, `help`, `echo`, `clear`, `uptime`, `meminfo` and the like as texts of
  their own: they only print, and the shell's model runs them as a choice of
  texts.  Colours, wording and layout are left out.
* `kprint_at`, `print_char_at_color`, `get_char_at`, `get_color_at` and
  `get_shadow_buffer` of `vga.c`: nothing calls them.
* Boot loader, GDT/IDT/PIC set-up, PIT programming, port I/O: straight-line
  initialisation that is never repeated.  `HEAP_START` is a constant in `mem.h`
  and nothing in `linker.ld` keeps `.bss` below it; that is a property of the
  linked image, not of steps.
* Paths longer than 63 characters, which do not fit `name[64]`, and other arguments
  that overflow the shell's buffers: undefined behaviour of the strings, outside
  the models' data.
* `scratch.c` is not part of the build.

## 7. What could follow

1. An abstract round-robin specification that `Scheduler` implements outside the
   create window.
2. `kmalloc` called by `create_process` while thread 0 is preempted: composition of
   `Scheduler` and `Heap` (only thread 0 allocates today).
