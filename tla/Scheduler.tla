----------------------------- MODULE Scheduler -----------------------------
(***************************************************************************)
(* The preemptive scheduler of Hamro OS: src/process/process.c, the timer  *)
(* interrupt that drives it (src/drivers/timer.c) and the interrupt path   *)
(* that switches stacks (src/kernel/isr.c, src/kernel/interrupt.asm).      *)
(*                                                                         *)
(* One processor executes one thread at a time, cpu.  Every load or store  *)
(* of a variable that interrupt handlers or other threads also use is a    *)
(* step of its own, because the timer may interrupt between any two of     *)
(* them; a handler runs with interrupts off (interrupt gates) and is one   *)
(* step.                                                                   *)
(*                                                                         *)
(* A thread is named by its pid: 0 is kernel_main and the shell, t > 0 the *)
(* thread created with the t-th stack.  esp[p] holds the name of the       *)
(* thread whose interrupt frame processes[p].esp points to.                *)
(***************************************************************************)
EXTENDS Integers

CONSTANTS
  MAX_PROCESSES,  \* slots of the process table
  NumStacks,      \* stacks kmalloc can hand out before the heap is full
  TickMod,        \* tick_count is unsigned and wraps at this value (2^32)
  Durations,      \* arguments of sleep and process_sleep
  MainCalls,      \* what thread 0 calls: "create" (kernel_main), "sleep" (shell)
  TaskCalls,      \* what a created thread may call: "sleep", "exit"
  InitTasks       \* threads already created when the behaviour starts

ASSUME SchedulerAssumption ==
  /\ MAX_PROCESSES \in Nat \ {0}
  /\ NumStacks \in Nat
  /\ TickMod \in Nat \ {0}
  /\ Durations \subseteq Nat
  /\ MainCalls \subseteq {"create", "sleep"}
  /\ TaskCalls \subseteq {"sleep", "exit"}
  /\ InitTasks \in 0..NumStacks
  /\ InitTasks < MAX_PROCESSES

VARIABLES
  \* @type: process_t processes[MAX_PROCESSES], field by field
  state, esp, sleep_ticks, id,
  current_process_idx, process_count, next_pid, tick_count,
  cpu,   \* the thread being executed, NoFrame once a wrong esp was loaded
  pc,    \* where each thread is, in its own code
  reg,   \* each thread's register or stack temporary
  slot   \* i, then p_idx, of create_process (only thread 0 creates)

processes == <<state, esp, sleep_ticks, id>>
vars == <<state, esp, sleep_ticks, id, current_process_idx, process_count,
          next_pid, tick_count, cpu, pc, reg, slot>>

Slots == 0 .. MAX_PROCESSES - 1
Threads == 0 .. NumStacks
NoFrame == -1
States == {"EMPTY", "READY", "RUNNING", "SLEEPING", "DEAD"}

\* Where a thread can be.  "*_hlt": about to execute hlt; "*_halted": in it.
MainPC == {"idle", "scan", "alloc", "ready", "frame", "ticks", "inc_load",
           "inc_store", "nap_check", "nap_hlt", "nap_halted"}
TaskPC == {"work", "sleep_load", "sleep_store", "sleep_check", "sleep_hlt",
           "sleep_halted", "exit_load", "exit_store", "exit_int"}

\* init_scheduler has run and interrupts are on; InitTasks calls of
\* create_process have completed.
Init ==
  /\ state = [p \in Slots |-> IF p = 0 THEN "RUNNING"
                              ELSE IF p <= InitTasks THEN "READY" ELSE "EMPTY"]
  /\ esp = [p \in Slots |-> IF p \in 1..InitTasks THEN p ELSE NoFrame]
  /\ sleep_ticks = [p \in Slots |-> 0]
  /\ id = [p \in Slots |-> IF p \in 1..InitTasks THEN p ELSE 0]
  /\ current_process_idx = 0
  /\ process_count = 1 + InitTasks
  /\ next_pid = 1 + InitTasks
  /\ tick_count = 0
  /\ cpu = 0
  /\ pc = [t \in Threads |-> IF t = 0 THEN "idle" ELSE "work"]
  /\ reg = [t \in Threads |-> 0]
  /\ slot = 0

At(t, label) == cpu = t /\ pc[t] = label
Goto(t, label) == pc' = [pc EXCEPT ![t] = label]

-----------------------------------------------------------------------------
(* create_process, called by thread 0                                      *)

CreateCheck ==
  /\ At(0, "idle") /\ "create" \in MainCalls
  /\ process_count < MAX_PROCESSES
  /\ slot' = 0
  /\ Goto(0, "scan")
  /\ UNCHANGED <<processes, current_process_idx, process_count, next_pid,
                 tick_count, cpu, reg>>

\* Mutant: a sleeping slot is taken for a free one.
NotReadyNow(p) == state[p] \notin {"READY", "RUNNING"}

Vacant(p) == state[p] \in {"EMPTY", "DEAD"}

\* One iteration of the search for a free slot; none free returns -1.
CreateScan ==
  /\ At(0, "scan")
  /\ \/ Vacant(slot) /\ Goto(0, "alloc") /\ UNCHANGED slot
     \/ /\ ~Vacant(slot)
        /\ IF slot + 1 \in Slots THEN slot' = slot + 1 /\ UNCHANGED pc
                                ELSE Goto(0, "idle") /\ UNCHANGED slot
  /\ UNCHANGED <<processes, current_process_idx, process_count, next_pid,
                 tick_count, cpu, reg>>

\* kmalloc (only thread 0 calls it), the first frame of the new stack and
\* id = next_pid++; no stack left returns -1.
CreateAlloc ==
  /\ At(0, "alloc")
  /\ \/ /\ next_pid \in Threads
        /\ id' = [id EXCEPT ![slot] = next_pid]
        /\ next_pid' = next_pid + 1
        /\ Goto(0, "ready")
     \/ /\ next_pid \notin Threads
        /\ Goto(0, "idle")
        /\ UNCHANGED <<id, next_pid>>
  /\ UNCHANGED <<state, esp, sleep_ticks, current_process_idx, process_count,
                 tick_count, cpu, reg, slot>>

CreateReady ==
  /\ At(0, "ready")
  /\ state' = [state EXCEPT ![slot] = "READY"]
  /\ Goto(0, "frame")
  /\ UNCHANGED <<esp, sleep_ticks, id, current_process_idx, process_count,
                 next_pid, tick_count, cpu, reg, slot>>

\* stack_base is stored with esp: nothing reads it.
CreateFrame ==
  /\ At(0, "frame")
  /\ esp' = [esp EXCEPT ![slot] = id[slot]]
  /\ Goto(0, "ticks")
  /\ UNCHANGED <<state, sleep_ticks, id, current_process_idx, process_count,
                 next_pid, tick_count, cpu, reg, slot>>

CreateTicks ==
  /\ At(0, "ticks")
  /\ sleep_ticks' = [sleep_ticks EXCEPT ![slot] = 0]
  /\ Goto(0, "inc_load")
  /\ UNCHANGED <<state, esp, id, current_process_idx, process_count, next_pid,
                 tick_count, cpu, reg, slot>>

CountLoad(t, from, to, delta) ==
  /\ At(t, from)
  /\ reg' = [reg EXCEPT ![t] = process_count + delta]
  /\ Goto(t, to)
  /\ UNCHANGED <<processes, current_process_idx, process_count, next_pid,
                 tick_count, cpu, slot>>

CountStore(t, from, to) ==
  /\ At(t, from)
  /\ process_count' = reg[t]
  /\ reg' = [reg EXCEPT ![t] = 0]
  /\ Goto(t, to)
  /\ UNCHANGED <<processes, current_process_idx, next_pid, tick_count, cpu,
                 slot>>

\* process_count++ is a load, an add and a store
CreateIncLoad == CountLoad(0, "inc_load", "inc_store", 1)
CreateIncStore == CountStore(0, "inc_store", "idle")

-----------------------------------------------------------------------------
(* sleep of timer.c, the busy wait of the shell's commands (thread 0)      *)

Deadline(d) == (tick_count + d) % TickMod

NapStart ==
  /\ At(0, "idle") /\ "sleep" \in MainCalls
  /\ \E d \in Durations : reg' = [reg EXCEPT ![0] = Deadline(d)]
  /\ Goto(0, "nap_check")
  /\ UNCHANGED <<processes, current_process_idx, process_count, next_pid,
                 tick_count, cpu, slot>>

NapDone == tick_count >= reg[0]

NapCheck ==
  /\ At(0, "nap_check")
  /\ \/ ~NapDone /\ Goto(0, "nap_hlt") /\ UNCHANGED reg
     \/ NapDone /\ Goto(0, "idle") /\ reg' = [reg EXCEPT ![0] = 0]
  /\ UNCHANGED <<processes, current_process_idx, process_count, next_pid,
                 tick_count, cpu, slot>>

-----------------------------------------------------------------------------
(* process_sleep and process_exit, called by a created thread              *)

SetCurrent(label) == state' = [state EXCEPT ![current_process_idx] = label]

SleepState(t) ==
  /\ At(t, "work") /\ "sleep" \in TaskCalls
  /\ SetCurrent("SLEEPING")
  /\ Goto(t, "sleep_load")
  /\ UNCHANGED <<esp, sleep_ticks, id, current_process_idx, process_count,
                 next_pid, tick_count, cpu, reg, slot>>

SleepLoad(t) ==
  /\ At(t, "sleep_load")
  /\ \E d \in Durations : reg' = [reg EXCEPT ![t] = Deadline(d)]
  /\ Goto(t, "sleep_store")
  /\ UNCHANGED <<processes, current_process_idx, process_count, next_pid,
                 tick_count, cpu, slot>>

SleepStore(t) ==
  /\ At(t, "sleep_store")
  /\ sleep_ticks' = [sleep_ticks EXCEPT ![current_process_idx] = reg[t]]
  /\ Goto(t, "sleep_check")
  /\ UNCHANGED <<state, esp, id, current_process_idx, process_count, next_pid,
                 tick_count, cpu, reg, slot>>

SleepCheck(t) ==
  /\ At(t, "sleep_check")
  /\ \/ /\ state[current_process_idx] = "SLEEPING"
        /\ Goto(t, "sleep_hlt")
        /\ UNCHANGED reg
     \/ /\ state[current_process_idx] # "SLEEPING"
        /\ Goto(t, "work")
        /\ reg' = [reg EXCEPT ![t] = 0]
  /\ UNCHANGED <<processes, current_process_idx, process_count, next_pid,
                 tick_count, cpu, slot>>

ExitDead(t) ==
  /\ At(t, "work") /\ "exit" \in TaskCalls
  /\ SetCurrent("DEAD")
  /\ Goto(t, "exit_load")
  /\ UNCHANGED <<esp, sleep_ticks, id, current_process_idx, process_count,
                 next_pid, tick_count, cpu, reg, slot>>

ExitLoad(t) == CountLoad(t, "exit_load", "exit_store", -1)
ExitStore(t) == CountStore(t, "exit_store", "exit_int")

\* hlt after the test of either wait loop
Hlt(t) ==
  /\ \/ At(t, "nap_hlt") /\ Goto(t, "nap_halted")
     \/ At(t, "sleep_hlt") /\ Goto(t, "sleep_halted")
  /\ UNCHANGED <<processes, current_process_idx, process_count, next_pid,
                 tick_count, cpu, reg, slot>>

-----------------------------------------------------------------------------
(* Interrupts                                                              *)

Halted == {"nap_halted", "sleep_halted"}

\* An interrupt ends the hlt of the thread it interrupts.
Resumed(label) ==
  CASE label = "nap_halted" -> "nap_check"
    [] label = "sleep_halted" -> "sleep_check"
    [] OTHER -> label

\* Mutants: a wake-up that ignores the deadline; one that never comes.
WakesAtOnce(q, now) ==
  \/ state[q] \in {"READY", "SLEEPING"}
  \/ q = current_process_idx /\ state[q] = "RUNNING"
NeverWakes(q, now) ==
  \/ state[q] = "READY"
  \/ q = current_process_idx /\ state[q] = "RUNNING"

\* Slot q may be dispatched at tick now: lines 66-68 and 74-80 of schedule.
Dispatchable(q, now) ==
  \/ state[q] = "READY"
  \/ q = current_process_idx /\ state[q] = "RUNNING"
  \/ state[q] = "SLEEPING" /\ now >= sleep_ticks[q]

\* Iterations of the scan, from the slot after the current one, to reach q.
Turn(q) == IF q > current_process_idx THEN q - current_process_idx
           ELSE q - current_process_idx + MAX_PROCESSES

\* Mutant: the scan starts at slot 0.
PickedFromFirst(n, now) ==
  \/ /\ Dispatchable(n, now)
     /\ \A q \in Slots : Dispatchable(q, now) => n <= q
  \/ /\ \A q \in Slots : ~Dispatchable(q, now)
     /\ n = current_process_idx

\* schedule picks the first dispatchable slot, the current one if none is.
Picked(n, now) ==
  \/ /\ Dispatchable(n, now)
     /\ \A q \in Slots : Dispatchable(q, now) => Turn(n) <= Turn(q)
  \/ /\ \A q \in Slots : ~Dispatchable(q, now)
     /\ n = current_process_idx

\* Mutants: the frame is not saved; the preempted slot stays RUNNING.
UnsavedFrames == esp
NotDemoted(n) == [state EXCEPT ![n] = "RUNNING"]

SavedFrames == [esp EXCEPT ![current_process_idx] = cpu]

Switched(n) ==
  LET demoted == IF state[current_process_idx] = "RUNNING" THEN "READY"
                 ELSE state[current_process_idx]
  IN  [state EXCEPT ![current_process_idx] = demoted, ![n] = "RUNNING"]

NextTick == (tick_count + 1) % TickMod

\* timer_callback and schedule, then the stub loads the frame it returns.
TimerInterrupt ==
  /\ tick_count' = NextTick
  /\ \E n \in Slots :
        /\ Picked(n, NextTick)
        /\ state' = Switched(n)
        /\ current_process_idx' = n
        /\ esp' = SavedFrames
        /\ cpu' = SavedFrames[n]
  /\ pc' = [pc EXCEPT ![cpu] = Resumed(@)]
  /\ UNCHANGED <<sleep_ticks, id, process_count, next_pid, reg, slot>>

IRQ0 == cpu # NoFrame /\ TimerInterrupt

\* int 0x20 of process_exit enters the same handler.
ExitInt(t) == At(t, "exit_int") /\ TimerInterrupt

\* A keyboard or mouse interrupt only ends a hlt.
DeviceIRQ ==
  /\ cpu # NoFrame
  /\ pc[cpu] \in Halted
  /\ pc' = [pc EXCEPT ![cpu] = Resumed(@)]
  /\ UNCHANGED <<processes, current_process_idx, process_count, next_pid,
                 tick_count, cpu, reg, slot>>

-----------------------------------------------------------------------------
CreateStep == \/ CreateCheck \/ CreateScan \/ CreateAlloc \/ CreateReady
              \/ CreateFrame \/ CreateTicks \/ CreateIncLoad \/ CreateIncStore

MainStep == CreateStep \/ NapStart \/ NapCheck \/ Hlt(0)

TaskStep(t) == \/ SleepState(t) \/ SleepLoad(t) \/ SleepStore(t)
               \/ SleepCheck(t) \/ ExitDead(t) \/ ExitLoad(t) \/ ExitStore(t)
               \/ ExitInt(t) \/ Hlt(t)

Next == \/ MainStep
        \/ \E t \in Threads \ {0} : TaskStep(t)
        \/ IRQ0
        \/ DeviceIRQ

Spec == Init /\ [][Next]_vars

\* The PIT fires at 100 Hz for ever, and a thread that is given the processor
\* again and again executes its wait loop: a slice of 10 ms holds millions of
\* instructions.  Nothing obliges a thread to sleep, create or exit.
Fairness ==
  /\ WF_vars(IRQ0)
  /\ \A t \in Threads \ {0} : SF_vars(SleepCheck(t) \/ Hlt(t))

FairSpec == Spec /\ Fairness
-----------------------------------------------------------------------------
(* Properties                                                              *)

\* Every variable keeps its type; the deadlines process_sleep stores into
\* sleep_ticks are 32-bit tick values.
TypeOK ==
  /\ state \in [Slots -> States]
  /\ esp \in [Slots -> Threads \cup {NoFrame}]
  /\ sleep_ticks \in [Slots -> 0 .. TickMod - 1]
  /\ id \in [Slots -> Threads]
  /\ current_process_idx \in Slots
  /\ process_count \in Int
  /\ next_pid \in 1 .. NumStacks + 1
  /\ tick_count \in 0 .. TickMod - 1
  /\ cpu \in Threads \cup {NoFrame}
  /\ pc \in [Threads -> MainPC \cup TaskPC]
  /\ pc[0] \in MainPC
  /\ \A t \in Threads \ {0} : pc[t] \in TaskPC
  /\ reg \in [Threads -> Int]
  /\ \A t \in Threads : pc[t] = "sleep_store" => reg[t] \in 0 .. TickMod - 1
  /\ slot \in Slots

\* create_process has made slot p READY and not yet stored its esp.
Unframed(p) == pc[0] = "frame" /\ slot = p

\* Whatever stores of create_process, process_sleep, process_exit and schedule
\* interleave, no slot but the current one is ever left RUNNING: such a slot
\* would never be dispatched again.
AtMostOneRunning ==
  \A p \in Slots : state[p] = "RUNNING" => p = current_process_idx

\* The frame saved in a slot that schedule may dispatch is its own thread's,
\* except in the window between the two stores of create_process.
FrameOfOwner ==
  \A p \in Slots :
    state[p] \in {"READY", "SLEEPING"} /\ p # current_process_idx /\ ~Unframed(p)
      => esp[p] = id[p]

\* The processor executes the current slot's thread; a frame that was never
\* saved (a crash) or a dead thread's frame is loaded only in that window.
WrongThreadOnlyInCreateWindow ==
  cpu # id[current_process_idx] => Unframed(current_process_idx)

\* "eax points to registers_t": the stack the IRQ stub switches to holds a
\* saved frame (interrupt.asm, irq_common_stub).
EaxPointsToFrame == cpu # NoFrame

\* Bounded waiting.  A READY slot stays READY until it is dispatched, whatever
\* the other threads store, and every tick brings its turn nearer.
TurnNearer ==
  \A q \in Slots :
    state[q] = "READY" /\ q # current_process_idx =>
      \/ state'[q] = "RUNNING" /\ current_process_idx' = q
      \/ /\ state'[q] = "READY"
         /\ tick_count' # tick_count => Turn(q)' < Turn(q)
TurnApproaches == [][TurnNearer]_vars

\* create_process gives a slot a new thread only while the slot is free, though
\* it looked some steps and some interrupts earlier.
TakesFreeSlot ==
  \A p \in Slots : id'[p] # id[p] =>
    state[p] \in {"EMPTY", "DEAD"} /\ p # current_process_idx
OnlyFreeSlotsTaken == [][TakesFreeSlot]_vars

\* A dead slot comes back to life only through create_process: the fallback of
\* schedule (nobody found: mark the current slot RUNNING) never revives it.
CreateRevives ==
  \A p \in Slots :
    state[p] = "DEAD" /\ state'[p] # "DEAD" => pc[0] = "ready" /\ slot = p
OnlyCreateRevives == [][CreateRevives]_vars

Parked == {"sleep_check", "sleep_hlt", "sleep_halted"}

\* A thread parked in process_sleep is woken no earlier than the deadline it
\* computed.  (False while create_process may still store sleep_ticks.)
WokenInTime ==
  \A p \in Slots :
    state[p] = "SLEEPING" /\ state'[p] # "SLEEPING" /\ pc[id[p]] \in Parked
      => tick_count' >= reg[id[p]]
ParkedUntilDeadline == [][WokenInTime]_vars

\* Every READY slot is dispatched.
ReadyRuns == \A p \in Slots : state[p] = "READY" ~> state[p] = "RUNNING"

\* A thread parked in process_sleep returns, if its deadline is not within
\* MAX_PROCESSES ticks of the wrap (there schedule may pass over the slot on
\* the last ticks that are not before the deadline, and again a wrap later).
SleepReturns ==
  \A t \in Threads \ {0} :
    pc[t] = "sleep_check" /\ reg[t] + MAX_PROCESSES < TickMod ~> pc[t] = "work"
=============================================================================
