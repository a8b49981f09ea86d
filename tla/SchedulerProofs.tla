--------------------------- MODULE SchedulerProofs ---------------------------
(***************************************************************************)
(* Theorems about Scheduler, for every size of the process table, number   *)
(* of stacks, tick width, set of durations and set of calls.               *)
(***************************************************************************)
EXTENDS Scheduler, TLAPS

\* Thread 0 is schedulable for ever, and is executed exactly when its slot is
\* the current one.
MainRunnable ==
  /\ state[0] \in {"READY", "RUNNING"}
  /\ current_process_idx # 0 => state[0] = "READY" /\ esp[0] = 0
  /\ cpu = 0 <=> current_process_idx = 0
  /\ id[0] = 0
  /\ \A p \in Slots \ {0} : esp[p] # 0

\* The slot create_process works on stays free, and is nobody's current slot,
\* until it is made READY.
SlotReserved ==
  /\ pc[0] \in {"alloc", "ready"} =>
       /\ state[slot] \in {"EMPTY", "DEAD"}
       /\ slot # current_process_idx
  /\ pc[0] \in {"ready", "frame"} => slot # 0 /\ id[slot] # 0

\* A thread that executes in a dead slot is past the point of no return.
DeadIsExiting ==
  state[current_process_idx] = "DEAD" =>
    cpu \in Threads /\ pc[cpu] \in {"exit_load", "exit_store", "exit_int"}

IInv ==
  /\ TypeOK
  /\ MainRunnable
  /\ SlotReserved
  /\ AtMostOneRunning
  /\ FrameOfOwner
  /\ WrongThreadOnlyInCreateWindow
  /\ DeadIsExiting

-----------------------------------------------------------------------------
LEMMA TickRange ==
  ASSUME NEW n \in Nat PROVE n % TickMod \in 0 .. TickMod - 1
BY SchedulerAssumption

LEMMA ZeroSlot == 0 \in Slots /\ 0 \in Threads /\ NoFrame \notin Threads
BY SchedulerAssumption DEF Slots, Threads, NoFrame

LEMMA ResumedPC ==
  /\ \A l \in MainPC : Resumed(l) \in MainPC
  /\ \A l \in TaskPC : Resumed(l) \in TaskPC
  /\ \A l \in MainPC \cup TaskPC :
       Resumed(l) \in {"idle", "scan", "alloc", "ready", "frame", "ticks",
                       "inc_load", "inc_store", "sleep_store"} => Resumed(l) = l
BY DEF Resumed, MainPC, TaskPC

\* TypeOK is inductive by itself.
LEMMA TypeInit == Init => TypeOK
BY SchedulerAssumption, ZeroSlot
DEF Init, TypeOK, Slots, Threads, States, NoFrame, MainPC, TaskPC

LEMMA TimerType ==
  ASSUME TypeOK, cpu # NoFrame, TimerInterrupt PROVE TypeOK'
BY SchedulerAssumption, ZeroSlot, TickRange, ResumedPC, SMTT(30)
DEF TimerInterrupt, TypeOK, NextTick, SavedFrames, Switched, States

LEMMA TypeStep == TypeOK /\ [Next]_vars => TypeOK'
<1> SUFFICES ASSUME TypeOK, [Next]_vars PROVE TypeOK'
  OBVIOUS
<1> USE SchedulerAssumption, ZeroSlot
<1>1. CASE CreateCheck
  BY <1>1 DEF CreateCheck, TypeOK, At, Goto, processes, MainPC, TaskPC
<1>2. CASE CreateScan
  BY <1>2 DEF CreateScan, TypeOK, At, Goto, processes, MainPC, TaskPC
<1>3. CASE CreateAlloc
  <2>1. /\ id' \in [Slots -> Threads]
        /\ next_pid' \in 1 .. NumStacks + 1
    <3>1. CASE next_pid \in Threads
      <4>1. id' = [id EXCEPT ![slot] = next_pid] /\ next_pid' = next_pid + 1
        BY <1>3, <3>1 DEF CreateAlloc
      <4>2. next_pid \in Int /\ 1 <= next_pid /\ next_pid <= NumStacks
        BY <3>1 DEF Threads, TypeOK
      <4>3. id' \in [Slots -> Threads]
        BY <4>1, <3>1 DEF TypeOK
      <4>4. next_pid' \in 1 .. NumStacks + 1
        BY <4>1, <4>2
      <4>5. QED
        BY <4>3, <4>4
    <3>2. CASE next_pid \notin Threads
      BY <1>3, <3>2 DEF CreateAlloc, TypeOK
    <3>3. QED
      BY <3>1, <3>2
  <2>2. QED
    BY <1>3, <2>1 DEF CreateAlloc, TypeOK, At, Goto, MainPC, TaskPC
<1>4. CASE CreateReady
  BY <1>4 DEF CreateReady, TypeOK, At, Goto, MainPC, TaskPC, States
<1>5. CASE CreateFrame
  BY <1>5 DEF CreateFrame, TypeOK, At, Goto, MainPC, TaskPC
<1>6. CASE CreateTicks
  BY <1>6 DEF CreateTicks, TypeOK, At, Goto, MainPC, TaskPC
<1>7. CASE CreateIncLoad \/ CreateIncStore
  BY <1>7 DEF CreateIncLoad, CreateIncStore, CountLoad, CountStore, TypeOK, At,
    Goto, processes, MainPC, TaskPC
<1>8. CASE NapStart
  <2>1. \A d \in Durations : Deadline(d) \in 0 .. TickMod - 1
    BY TickRange DEF Deadline, TypeOK
  <2>2. QED
    BY <1>8, <2>1 DEF NapStart, TypeOK, At, Goto, processes, MainPC, TaskPC
<1>9. CASE NapCheck
  BY <1>9 DEF NapCheck, TypeOK, At, Goto, processes, MainPC, TaskPC
<1>10. ASSUME NEW t \in Threads \ {0}, TaskStep(t) PROVE TypeOK'
  <2>1. CASE SleepState(t) \/ ExitDead(t)
    BY <1>10, <2>1 DEF SleepState, ExitDead, SetCurrent, TypeOK, At, Goto,
      MainPC, TaskPC, States
  <2>2. CASE SleepLoad(t)
    <3>1. \A d \in Durations : Deadline(d) \in 0 .. TickMod - 1
      BY TickRange DEF Deadline, TypeOK
    <3>2. QED
      BY <1>10, <2>2, <3>1 DEF SleepLoad, TypeOK, At, Goto, processes, TaskPC
  <2>3. CASE SleepStore(t)
    BY <1>10, <2>3 DEF SleepStore, TypeOK, At, Goto, MainPC, TaskPC
  <2>4. CASE SleepCheck(t)
    BY <1>10, <2>4 DEF SleepCheck, TypeOK, At, Goto, processes, MainPC, TaskPC
  <2>5. CASE ExitLoad(t) \/ ExitStore(t)
    BY <1>10, <2>5 DEF ExitLoad, ExitStore, CountLoad, CountStore, TypeOK, At,
      Goto, processes, MainPC, TaskPC
  <2>6. CASE Hlt(t)
    BY <1>10, <2>6 DEF Hlt, TypeOK, At, Goto, processes, MainPC, TaskPC
  <2>7. CASE ExitInt(t)
    BY <1>10, <2>7, TimerType DEF ExitInt, At, Threads, NoFrame
  <2>8. QED
    BY <1>10, <2>1, <2>2, <2>3, <2>4, <2>5, <2>6, <2>7 DEF TaskStep
<1>11. CASE Hlt(0)
  BY <1>11 DEF Hlt, TypeOK, At, Goto, processes, MainPC, TaskPC
<1>12. CASE IRQ0
  BY <1>12, TimerType DEF IRQ0
<1>13. CASE DeviceIRQ
  BY <1>13, ResumedPC DEF DeviceIRQ, TypeOK, processes
<1>14. CASE UNCHANGED vars
  BY <1>14 DEF vars, TypeOK
<1>15. QED
  BY <1>1, <1>2, <1>3, <1>4, <1>5, <1>6, <1>7, <1>8, <1>9, <1>10, <1>11, <1>12,
    <1>13, <1>14 DEF Next, MainStep, CreateStep

\* Every variable keeps its type (TypeOK).
THEOREM TypeCorrect == Spec => []TypeOK
BY TypeInit, TypeStep, PTL DEF Spec
-----------------------------------------------------------------------------
(* The inductive invariant                                                 *)

LEMMA IInvInit == Init => IInv
<1> SUFFICES ASSUME Init PROVE IInv
  OBVIOUS
<1>1. TypeOK
  BY TypeInit
<1>2. QED
  BY <1>1, SchedulerAssumption, ZeroSlot
  DEF Init, IInv, MainRunnable, SlotReserved, AtMostOneRunning, FrameOfOwner,
    WrongThreadOnlyInCreateWindow, DeadIsExiting, Unframed, Slots, NoFrame

\* What a timer interrupt does, in terms of the slot n it dispatches.
LEMMA Dispatch ==
  ASSUME IInv, cpu # NoFrame, TimerInterrupt
  PROVE  /\ current_process_idx' \in Slots
         /\ Dispatchable(current_process_idx', NextTick)
         /\ state' = Switched(current_process_idx')
         /\ esp' = SavedFrames
         /\ cpu' = SavedFrames[current_process_idx']
         /\ \A q \in Slots :
              Dispatchable(q, NextTick) => Turn(current_process_idx') <= Turn(q)
         /\ UNCHANGED <<id, slot>>
         /\ pc'[0] # pc[0] => pc'[0] \notin {"alloc", "ready", "frame"}
         /\ pc[0] \in {"alloc", "ready", "frame"} => pc'[0] = pc[0]
<1>1. Dispatchable(0, NextTick)
  BY DEF IInv, MainRunnable, Dispatchable
<1>2. PICK n \in Slots : /\ Picked(n, NextTick)
                         /\ state' = Switched(n)
                         /\ current_process_idx' = n
                         /\ esp' = SavedFrames
                         /\ cpu' = SavedFrames[n]
  BY DEF TimerInterrupt
<1>3. /\ Dispatchable(n, NextTick)
      /\ \A q \in Slots : Dispatchable(q, NextTick) => Turn(n) <= Turn(q)
  BY <1>1, <1>2, ZeroSlot DEF Picked
<1>4. /\ pc'[0] # pc[0] => pc'[0] \notin {"alloc", "ready", "frame"}
      /\ pc[0] \in {"alloc", "ready", "frame"} => pc'[0] = pc[0]
  BY ZeroSlot DEF TimerInterrupt, IInv, TypeOK, Resumed
<1>5. QED
  BY <1>2, <1>3, <1>4 DEF TimerInterrupt

LEMMA TimerInv ==
  ASSUME IInv, cpu # NoFrame, TimerInterrupt PROVE IInv'
<1> DEFINE c == current_process_idx
           n == current_process_idx'
<1>1. TypeOK'
  BY TimerType DEF IInv
<1>2. /\ n \in Slots /\ c \in Slots
      /\ Dispatchable(n, NextTick)
      /\ state' = Switched(n) /\ esp' = SavedFrames /\ cpu' = SavedFrames[n]
      /\ UNCHANGED <<id, slot>>
  BY Dispatch DEF IInv, TypeOK
<1>3. /\ pc'[0] # pc[0] => pc'[0] \notin {"alloc", "ready", "frame"}
      /\ pc[0] \in {"alloc", "ready", "frame"} => pc'[0] = pc[0]
  BY Dispatch
<1>4. \A p \in Slots :
        /\ p = n => state'[p] = "RUNNING"
        /\ p # n /\ p # c => state'[p] = state[p]
        /\ p # n /\ p = c => state'[p] = (IF state[c] = "RUNNING" THEN "READY"
                                                              ELSE state[c])
  BY <1>2 DEF Switched, IInv, TypeOK
<1>5. \A p \in Slots : esp'[p] = (IF p = c THEN cpu ELSE esp[p])
  BY <1>2 DEF SavedFrames, IInv, TypeOK
<1>6. state[n] \notin {"EMPTY", "DEAD"} /\ (state[n] = "RUNNING" => n = c)
  BY <1>2 DEF Dispatchable
<1>7. cpu' = esp'[n]
  BY <1>2
<1>8. MainRunnable'
  BY <1>2, <1>4, <1>5, <1>7, ZeroSlot DEF IInv, MainRunnable
<1>9. SlotReserved'
  BY <1>2, <1>3, <1>4, <1>6 DEF IInv, SlotReserved, TypeOK
<1>10. AtMostOneRunning'
  BY <1>4 DEF IInv, AtMostOneRunning
<1>11. \A p \in Slots : Unframed(p)' <=> Unframed(p)
  BY <1>2, <1>3 DEF Unframed
<1>12. FrameOfOwner'
  BY <1>2, <1>4, <1>5, <1>11
  DEF IInv, FrameOfOwner, WrongThreadOnlyInCreateWindow, AtMostOneRunning
<1>13. WrongThreadOnlyInCreateWindow'
  BY <1>2, <1>5, <1>6, <1>7, <1>11, <1>1
  DEF IInv, FrameOfOwner, WrongThreadOnlyInCreateWindow, TypeOK, States
<1>14. DeadIsExiting'
  BY <1>2, <1>4 DEF DeadIsExiting
<1>15. QED
  BY <1>1, <1>8, <1>9, <1>10, <1>12, <1>13, <1>14 DEF IInv

LEMMA IInvStep == IInv /\ [Next]_vars => IInv'
<1> SUFFICES ASSUME IInv, [Next]_vars PROVE IInv'
  OBVIOUS
<1> USE ZeroSlot
<1>0. TypeOK /\ TypeOK'
  BY TypeStep DEF IInv
<1>1. CASE CreateCheck \/ CreateScan
  BY <1>0, <1>1
  DEF CreateCheck, CreateScan, Vacant, processes, At, Goto, IInv, TypeOK,
    MainRunnable, SlotReserved, AtMostOneRunning, FrameOfOwner,
    WrongThreadOnlyInCreateWindow,
    DeadIsExiting, Unframed
<1>2. CASE CreateAlloc
  BY <1>0, <1>2
  DEF CreateAlloc, At, Goto, IInv, TypeOK, MainRunnable, SlotReserved,
    AtMostOneRunning, FrameOfOwner, WrongThreadOnlyInCreateWindow,
    DeadIsExiting, Unframed
<1>3. CASE CreateReady
  BY <1>0, <1>3
  DEF CreateReady, At, Goto, IInv, TypeOK, MainRunnable, SlotReserved,
    AtMostOneRunning, FrameOfOwner, WrongThreadOnlyInCreateWindow,
    DeadIsExiting, Unframed
<1>4. CASE CreateFrame
  BY <1>0, <1>4
  DEF CreateFrame, At, Goto, IInv, TypeOK, MainRunnable, SlotReserved,
    AtMostOneRunning, FrameOfOwner, WrongThreadOnlyInCreateWindow,
    DeadIsExiting, Unframed
<1>5. CASE CreateTicks \/ CreateIncLoad \/ CreateIncStore
  BY <1>0, <1>5
  DEF CreateTicks, CreateIncLoad, CreateIncStore, CountLoad, CountStore,
    processes, At, Goto, IInv, TypeOK, MainRunnable, SlotReserved,
    AtMostOneRunning, FrameOfOwner, WrongThreadOnlyInCreateWindow,
    DeadIsExiting, Unframed
<1>6. CASE NapStart \/ NapCheck \/ Hlt(0)
  BY <1>0, <1>6
  DEF NapStart, NapCheck, Hlt, processes, At, Goto, IInv, TypeOK, MainRunnable,
    SlotReserved, AtMostOneRunning, FrameOfOwner,
    WrongThreadOnlyInCreateWindow,
    DeadIsExiting, Unframed
<1>7. ASSUME NEW t \in Threads \ {0}, TaskStep(t) PROVE IInv'
  <2>1. CASE SleepState(t) \/ ExitDead(t)
    BY <1>0, <1>7, <2>1
    DEF SleepState, ExitDead, SetCurrent, At, Goto, IInv, TypeOK, MainRunnable,
      SlotReserved, AtMostOneRunning, FrameOfOwner,
      WrongThreadOnlyInCreateWindow,
    DeadIsExiting, Unframed
  <2>2. CASE SleepLoad(t) \/ SleepCheck(t) \/ ExitLoad(t) \/ ExitStore(t)
              \/ Hlt(t)
    BY <1>0, <1>7, <2>2
    DEF SleepLoad, SleepCheck, ExitLoad, ExitStore, CountLoad, CountStore, Hlt,
      processes, At, Goto, IInv, TypeOK, MainRunnable, SlotReserved,
      AtMostOneRunning, FrameOfOwner, WrongThreadOnlyInCreateWindow,
    DeadIsExiting, Unframed
  <2>3. CASE SleepStore(t)
    BY <1>0, <1>7, <2>3
    DEF SleepStore, At, Goto, IInv, TypeOK, MainRunnable, SlotReserved,
      AtMostOneRunning, FrameOfOwner, WrongThreadOnlyInCreateWindow,
    DeadIsExiting, Unframed
  <2>4. CASE ExitInt(t)
    BY <1>7, <2>4, TimerInv DEF ExitInt, At, Threads, NoFrame
  <2>5. QED
    BY <1>7, <2>1, <2>2, <2>3, <2>4 DEF TaskStep
<1>8. CASE IRQ0
  BY <1>8, TimerInv DEF IRQ0
<1>9. CASE DeviceIRQ
  BY <1>0, <1>9
  DEF DeviceIRQ, Halted, Resumed, processes, IInv, TypeOK, MainRunnable,
    SlotReserved, AtMostOneRunning, FrameOfOwner,
    WrongThreadOnlyInCreateWindow,
    DeadIsExiting, Unframed
<1>10. CASE UNCHANGED vars
  BY <1>0, <1>10
  DEF vars, IInv, MainRunnable, SlotReserved, AtMostOneRunning, FrameOfOwner,
    WrongThreadOnlyInCreateWindow,
    DeadIsExiting, Unframed
<1>11. QED
  BY <1>1, <1>2, <1>3, <1>4, <1>5, <1>6, <1>7, <1>8, <1>9, <1>10
  DEF Next, MainStep, CreateStep

LEMMA Inductive == Spec => []IInv
BY IInvInit, IInvStep, PTL DEF Spec

\* At most one slot is RUNNING, the current one (AtMostOneRunning).
THEOREM OneRunning == Spec => []AtMostOneRunning
BY Inductive, PTL DEF IInv

\* A dispatchable slot holds its own thread's frame outside the window of
\* create_process (FrameOfOwner).
THEOREM FramesSafe == Spec => []FrameOfOwner
BY Inductive, PTL DEF IInv

\* Only that window makes the processor execute a thread other than the current
\* slot's, or a frame that was never saved (WrongThreadOnlyInCreateWindow).
THEOREM CrashConfined == Spec => []WrongThreadOnlyInCreateWindow
BY Inductive, PTL DEF IInv
-----------------------------------------------------------------------------
(* Action properties                                                       *)

\* Moving the current slot from c to n, no further than q, brings q nearer.
LEMMA TurnArith ==
  ASSUME NEW c \in Slots, NEW n \in Slots, NEW q \in Slots, q # c, q # n,
         (IF n > c THEN n - c ELSE n - c + MAX_PROCESSES)
           <= (IF q > c THEN q - c ELSE q - c + MAX_PROCESSES)
  PROVE  (IF q > n THEN q - n ELSE q - n + MAX_PROCESSES)
           < (IF q > c THEN q - c ELSE q - c + MAX_PROCESSES)
BY SchedulerAssumption DEF Slots

\* The step of a timer interrupt, common to the three.
LEMMA TimerStep ==
  ASSUME IInv, cpu # NoFrame, TimerInterrupt
  PROVE  TurnNearer /\ TakesFreeSlot /\ CreateRevives
<1> DEFINE c == current_process_idx
           n == current_process_idx'
<1>1. /\ n \in Slots /\ c \in Slots
      /\ Dispatchable(n, NextTick)
      /\ state' = Switched(n)
      /\ \A q \in Slots : Dispatchable(q, NextTick) => Turn(n) <= Turn(q)
      /\ UNCHANGED <<id, slot>>
  BY Dispatch DEF IInv, TypeOK
<1>2. TurnNearer
  <2> SUFFICES ASSUME NEW q \in Slots, state[q] = "READY", q # c, q # n
               PROVE  state'[q] = "READY" /\ Turn(q)' < Turn(q)
    BY <1>1 DEF TurnNearer, Switched, IInv, TypeOK
  <2>1. state'[q] = "READY"
    BY <1>1 DEF Switched, IInv, TypeOK
  <2>2. Turn(n) <= Turn(q)
    BY <1>1 DEF Dispatchable
  <2>3. Turn(q)' < Turn(q)
    BY <1>1, <2>2, TurnArith DEF Turn
  <2>4. QED
    BY <2>1, <2>3
<1>3. TakesFreeSlot
  BY <1>1 DEF TakesFreeSlot
<1>4. CreateRevives
  BY <1>1 DEF CreateRevives, Switched, Dispatchable, IInv, TypeOK
<1>5. QED
  BY <1>2, <1>3, <1>4

LEMMA EveryStep ==
  IInv /\ [Next]_vars => [TurnNearer /\ TakesFreeSlot /\ CreateRevives]_vars
<1> SUFFICES ASSUME IInv, Next
             PROVE  TurnNearer /\ TakesFreeSlot /\ CreateRevives
  OBVIOUS
<1> USE ZeroSlot DEF TurnNearer, TakesFreeSlot, CreateRevives
<1>1. CASE CreateCheck \/ CreateScan \/ CreateIncLoad \/ CreateIncStore
             \/ NapStart \/ NapCheck \/ Hlt(0) \/ DeviceIRQ
  BY <1>1 DEF CreateCheck, CreateScan, CreateIncLoad, CreateIncStore, CountLoad,
    CountStore, NapStart, NapCheck, Hlt, DeviceIRQ, processes
<1>2. CASE CreateAlloc
  BY <1>2 DEF CreateAlloc, At, IInv, TypeOK, SlotReserved
<1>3. CASE CreateReady
  BY <1>3 DEF CreateReady, At, IInv, TypeOK, SlotReserved
<1>4. CASE CreateFrame \/ CreateTicks
  BY <1>4 DEF CreateFrame, CreateTicks
<1>5. ASSUME NEW t \in Threads \ {0}, TaskStep(t)
      PROVE  TurnNearer /\ TakesFreeSlot /\ CreateRevives
  <2>1. CASE ExitInt(t)
    BY <1>5, <2>1, TimerStep DEF ExitInt, At, Threads, NoFrame
  <2>2. CASE SleepState(t)
    BY <2>2 DEF SleepState, SetCurrent, At, IInv, TypeOK, DeadIsExiting
  <2>3. CASE ExitDead(t)
    BY <2>3 DEF ExitDead, SetCurrent, At, IInv, TypeOK
  <2>4. CASE SleepLoad(t) \/ SleepStore(t) \/ SleepCheck(t) \/ ExitLoad(t)
               \/ ExitStore(t) \/ Hlt(t)
    BY <2>4 DEF SleepLoad, SleepStore, SleepCheck, ExitLoad, ExitStore,
      CountLoad, CountStore, Hlt, processes
  <2>5. QED
    BY <1>5, <2>1, <2>2, <2>3, <2>4 DEF TaskStep
<1>6. CASE IRQ0
  BY <1>6, TimerStep DEF IRQ0
<1>7. QED
  BY <1>1, <1>2, <1>3, <1>4, <1>5, <1>6 DEF Next, MainStep, CreateStep

\* Bounded waiting: every tick brings a READY slot's turn nearer
\* (TurnApproaches), so it runs within MAX_PROCESSES - 1 ticks.
THEOREM BoundedWaiting == Spec => TurnApproaches
<1>1. IInv /\ [Next]_vars => [TurnNearer]_vars
  BY EveryStep
<1>2. QED
  BY <1>1, Inductive, PTL DEF Spec, TurnApproaches

\* create_process never takes a slot in use (OnlyFreeSlotsTaken).
THEOREM SlotsNotStolen == Spec => OnlyFreeSlotsTaken
<1>1. IInv /\ [Next]_vars => [TakesFreeSlot]_vars
  BY EveryStep
<1>2. QED
  BY <1>1, Inductive, PTL DEF Spec, OnlyFreeSlotsTaken

\* Only create_process revives a dead slot (OnlyCreateRevives).
THEOREM DeadStayDead == Spec => OnlyCreateRevives
<1>1. IInv /\ [Next]_vars => [CreateRevives]_vars
  BY EveryStep
<1>2. QED
  BY <1>1, Inductive, PTL DEF Spec, OnlyCreateRevives
-----------------------------------------------------------------------------
(* Deadlines, when no create_process runs                                  *)

\* The slots and identifiers stay those of the InitTasks threads, a thread that
\* sleeps is in its own slot, and the deadline schedule compares with is the
\* one the thread computed.
DeadlineKept ==
  /\ id = [p \in Slots |-> IF p \in 1..InitTasks THEN p ELSE 0]
  /\ pc[0] \in {"idle", "nap_check", "nap_hlt", "nap_halted"}
  /\ \A p \in Slots : state[p] = "SLEEPING" /\ pc[id[p]] \in Parked
                        => sleep_ticks[p] = reg[id[p]]

LEMMA DeadlineInit == Init => DeadlineKept
<1> SUFFICES ASSUME Init PROVE DeadlineKept
  OBVIOUS
<1>1. \A p \in Slots : state[p] # "SLEEPING"
  BY DEF Init
<1>2. pc[0] = "idle"
  BY ZeroSlot DEF Init
<1>3. QED
  BY <1>1, <1>2 DEF Init, DeadlineKept

LEMMA DeadlineStep ==
  ASSUME "create" \notin MainCalls, IInv, DeadlineKept, [Next]_vars
  PROVE  DeadlineKept'
<1> USE ZeroSlot
<1>1. /\ TypeOK
      /\ cpu = id[current_process_idx]
      /\ \A p, q \in Slots : id[p] = id[q] /\ id[p] # 0 => p = q
  BY DEF IInv, DeadlineKept, WrongThreadOnlyInCreateWindow, Unframed
<1>2. ~CreateStep
  BY DEF DeadlineKept, CreateStep, CreateCheck, CreateScan, CreateAlloc,
    CreateReady, CreateFrame, CreateTicks, CreateIncLoad, CreateIncStore,
    CountLoad, CountStore, At
<1>3. CASE NapStart \/ NapCheck \/ Hlt(0)
  BY <1>1, <1>3 DEF NapStart, NapCheck, Hlt, processes, At, Goto, DeadlineKept,
    TypeOK, Parked, TaskPC, MainPC
<1>4. ASSUME cpu # NoFrame, TimerInterrupt PROVE DeadlineKept'
  <2>1. /\ UNCHANGED <<id, reg, sleep_ticks>>
        /\ pc' = [pc EXCEPT ![cpu] = Resumed(@)]
        /\ \A p \in Slots : state'[p] = "SLEEPING" => state[p] = "SLEEPING"
    BY <1>1, <1>4, Dispatch DEF TimerInterrupt, Switched, TypeOK
  <2>2. \A t \in Threads : pc'[t] \in Parked <=> pc[t] \in Parked
    BY <1>1, <2>1 DEF TypeOK, Resumed, Parked
  <2>3. pc'[0] \in {"idle", "nap_check", "nap_hlt", "nap_halted"}
    BY <1>1, <2>1 DEF DeadlineKept, TypeOK, Resumed
  <2>4. QED
    BY <1>1, <2>1, <2>2, <2>3 DEF DeadlineKept, TypeOK
<1>5. ASSUME NEW t \in Threads \ {0}, TaskStep(t) PROVE DeadlineKept'
  <2>1. CASE SleepState(t) \/ ExitDead(t)
    BY <1>1, <1>5, <2>1 DEF SleepState, ExitDead, SetCurrent, At, Goto,
      DeadlineKept, TypeOK, Parked
  <2>2. CASE SleepStore(t)
    BY <1>1, <1>5, <2>2 DEF SleepStore, At, Goto, DeadlineKept, TypeOK, Parked
  <2>3. CASE SleepLoad(t) \/ SleepCheck(t) \/ Hlt(t)
    BY <1>1, <1>5, <2>3 DEF SleepLoad, SleepCheck, Hlt, processes, At, Goto,
      DeadlineKept, TypeOK, Parked
  <2>4. CASE ExitLoad(t) \/ ExitStore(t)
    BY <1>1, <1>5, <2>4 DEF ExitLoad, ExitStore, CountLoad, CountStore,
      processes, At, Goto, DeadlineKept, TypeOK, Parked
  <2>5. CASE ExitInt(t)
    BY <1>4, <2>5 DEF ExitInt, At, Threads, NoFrame
  <2>6. QED
    BY <1>5, <2>1, <2>2, <2>3, <2>4, <2>5 DEF TaskStep
<1>6. CASE IRQ0
  BY <1>4, <1>6 DEF IRQ0
<1>7. CASE DeviceIRQ
  BY <1>1, <1>7 DEF DeviceIRQ, Halted, Resumed, processes, DeadlineKept, TypeOK,
    Parked
<1>8. CASE UNCHANGED vars
  BY <1>8 DEF vars, DeadlineKept
<1>9. QED
  BY <1>2, <1>3, <1>5, <1>6, <1>7, <1>8 DEF Next, MainStep

LEMMA WokenStep ==
  ASSUME "create" \notin MainCalls, IInv, DeadlineKept, [Next]_vars
  PROVE  [WokenInTime]_vars
<1> SUFFICES ASSUME Next, NEW p \in Slots,
                    state[p] = "SLEEPING", state'[p] # "SLEEPING",
                    pc[id[p]] \in Parked
             PROVE  tick_count' >= reg[id[p]]
  BY DEF WokenInTime
<1>1. /\ TypeOK
      /\ cpu = id[current_process_idx]
  BY DEF IInv, DeadlineKept, WrongThreadOnlyInCreateWindow, Unframed
<1>2. cpu # NoFrame /\ TimerInterrupt
  <2>1. ~CreateStep
    BY DEF DeadlineKept, CreateStep, CreateCheck, CreateScan, CreateAlloc,
      CreateReady, CreateFrame, CreateTicks, CreateIncLoad, CreateIncStore,
      CountLoad, CountStore, At
  <2>2. ~(NapStart \/ NapCheck \/ DeviceIRQ) /\ \A t \in Threads : ~Hlt(t)
    BY DEF NapStart, NapCheck, DeviceIRQ, Hlt, processes
  <2>3. ASSUME NEW t \in Threads \ {0}
        PROVE  ~(SleepState(t) \/ SleepLoad(t) \/ SleepStore(t) \/ SleepCheck(t)
                   \/ ExitDead(t) \/ ExitLoad(t) \/ ExitStore(t))
    BY <1>1 DEF SleepState, SleepLoad, SleepStore, SleepCheck, ExitDead,
      ExitLoad, ExitStore, CountLoad, CountStore, SetCurrent, At, processes,
      TypeOK, Parked
  <2>4. QED
    BY <2>1, <2>2, <2>3, ZeroSlot
    DEF Next, MainStep, TaskStep, IRQ0, ExitInt, At, Threads, NoFrame
<1>3. Dispatchable(p, NextTick) /\ tick_count' = NextTick
  BY <1>1, <1>2, Dispatch DEF Switched, TimerInterrupt, TypeOK
<1>4. QED
  BY <1>3 DEF Dispatchable, DeadlineKept

\* A thread parked in process_sleep is woken no earlier than its deadline
\* (ParkedUntilDeadline), when thread 0 creates no thread meanwhile: with
\* create_process the late store of sleep_ticks may overwrite the deadline.
THEOREM WokenNoEarlier ==
  ASSUME "create" \notin MainCalls PROVE Spec => ParkedUntilDeadline
<1>1. Init => DeadlineKept
  BY DeadlineInit
<1>2. IInv /\ DeadlineKept /\ [Next]_vars => DeadlineKept'
  BY DeadlineStep
<1>3. IInv /\ DeadlineKept /\ [Next]_vars => [WokenInTime]_vars
  BY WokenStep
<1>4. Spec => [][WokenInTime]_vars
  BY <1>1, <1>2, <1>3, Inductive, PTL DEF Spec
<1>5. QED
  BY <1>4 DEF ParkedUntilDeadline
=============================================================================
