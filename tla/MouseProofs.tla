---------------------------- MODULE MouseProofs ----------------------------
(***************************************************************************)
(* Theorems about the mouse driver, for every screen, keyboard, movement   *)
(* and first configuration.                                                *)
(***************************************************************************)
EXTENDS Mouse, SequenceTheorems, TLAPS

-----------------------------------------------------------------------------
(* The inductive invariant                                                 *)

Accesses == [op : {"ask", "set", "write"}, what : Int]
            \cup [op : {"read"}, what : {"config", "ack", "id"}]
MouseStates == [model : {"none", "plain", "wheel"}, awaits : BOOLEAN, rates : Seq(Int),
                id : {0, 3}, streaming : BOOLEAN]

\* What is on its way is bytes, and the mouse has a state it can be in.
QueueOK == queue \in Seq(Bytes) /\ mouse \in MouseStates

\* The length of packets changes only before the first byte of one arrives: this
\* is what keeps mouse_cycle below it.
NoneBefore == ~Running => mouse_byte = <<>>

IInv == TypeOK /\ QueueOK /\ NoneBefore /\ OnePointer

-----------------------------------------------------------------------------
(* Bytes and the script                                                    *)

LEMMA ScriptIs == Script \in Seq(Accesses) /\ Len(Script) \in Nat
<1> DEFINE S == Accesses
<1>1. ASSUME NEW v \in Int PROVE Write(v) \in S
  BY DEF Write, Accesses
<1>2. ASSUME NEW k \in {"config", "ack", "id"} PROVE Read(k) \in S
  BY DEF Read, Accesses
<1>3. [op |-> "ask", what |-> 32] \in S /\ [op |-> "set", what |-> 96] \in S
  BY DEF Accesses
<1> HIDE DEF S
<1>4. ASSUME NEW v \in Int PROVE Command(v) \in Seq(S)
  BY <1>1, <1>2 DEF Command
<1>5. ASSUME NEW v \in Int PROVE SampleRate(v) \in Seq(S)
  BY <1>4 DEF SampleRate
<1>6. <<[op |-> "ask", what |-> 32], Read("config"), [op |-> "set", what |-> 96]>> \in Seq(S)
  BY <1>2, <1>3
<1>7. <<Read("id")>> \in Seq(S)
  BY <1>2
<1>8. \A s, t \in Seq(S) : s \o t \in Seq(S)
  OBVIOUS
<1> DEFINE asked == <<[op |-> "ask", what |-> 32], Read("config"), [op |-> "set", what |-> 96]>>
                    \o Command(246)
<1> DEFINE rated == asked \o SampleRate(200) \o SampleRate(100) \o SampleRate(80)
<1>9. asked \in Seq(S)
  BY <1>4, <1>6, <1>8
<1> HIDE DEF asked
<1>10. rated \in Seq(S)
  BY <1>5, <1>8, <1>9
<1> HIDE DEF rated
<1>11. rated \o Command(242) \o <<Read("id")>> \o Command(244) \in Seq(S)
  BY <1>4, <1>7, <1>8, <1>10
<1>12. Script = rated \o Command(242) \o <<Read("id")>> \o Command(244)
  BY DEF Script, rated, asked
<1>13. QED
  BY <1>11, <1>12 DEF S

\* A packet of three or four bytes
LEMMA PacketIs ==
  ASSUME QueueOK, NEW m \in Packets
  PROVE  PacketOf(m) \in Seq(Bytes)
<1>1. m \in [dx : -256 .. 255, dy : -256 .. 255, dz : -8 .. 7]
  BY MouseAssumption
<1> m.dx \in Int /\ m.dy \in Int /\ m.dz \in Int
  BY <1>1
<1> DEFINE signs == 8 + (IF m.dx < 0 THEN 16 ELSE 0) + (IF m.dy < 0 THEN 32 ELSE 0)
<1> DEFINE bytes == <<signs, m.dx % 256, m.dy % 256, m.dz % 256>>
<1>2. /\ signs \in 0 .. 255 /\ m.dx % 256 \in 0 .. 255
      /\ m.dy % 256 \in 0 .. 255 /\ m.dz % 256 \in 0 .. 255
  BY SMTT(30)
<1>3. \A i \in 1 .. 4 : bytes[i] \in 0 .. 255 /\ Position[i] \in Kinds
  <2>1. \A i \in 1 .. 4 : Position[i] \in Kinds
    BY SMTT(30) DEF Position, Kinds
  <2>2. /\ bytes[1] = signs /\ bytes[2] = m.dx % 256
        /\ bytes[3] = m.dy % 256 /\ bytes[4] = m.dz % 256
    OBVIOUS
  <2> HIDE DEF bytes, signs
  <2>3. \A i \in 1 .. 4 : i = 1 \/ i = 2 \/ i = 3 \/ i = 4
    OBVIOUS
  <2>4. QED
    BY <1>2, <2>1, <2>2, <2>3
<1> DEFINE n == IF mouse.id = 3 THEN 4 ELSE 3
<1>4. PacketOf(m) = [i \in 1 .. n |-> [kind |-> Position[i], val |-> bytes[i], of |-> m]]
  BY DEF PacketOf
<1> HIDE DEF bytes, n
<1>5. n \in {3, 4}
  BY DEF n
<1>6. ASSUME NEW i \in 1 .. n
      PROVE  [kind |-> Position[i], val |-> bytes[i], of |-> m] \in Bytes
  <2>1. i \in 1 .. 4
    BY <1>5
  <2>2. QED
    BY <1>3, <2>1 DEF Bytes
<1>7. PacketOf(m) \in [1 .. n -> Bytes]
  BY <1>4, <1>6
<1>8. QED
  BY <1>5, <1>7

\* The interrupt enable bit, added if it is not there, leaves a byte a byte.
LEMMA EnabledIs ==
  ASSUME NEW v \in 0 .. 255
  PROVE  v + (IF Bit(v, 2) THEN 0 ELSE 2) \in 0 .. 255
<1>1. ASSUME v \in {254, 255} PROVE Bit(v, 2)
  BY <1>1 DEF Bit
<1>2. QED
  BY <1>1

-----------------------------------------------------------------------------
(* The packet handler                                                      *)

LEMMA ClampIs ==
  ASSUME NEW v \in Int, NEW size \in Nat \ {0}
  PROVE  Clamp(v, size) \in 0 .. size - 1
BY DEF Clamp

LEMMA ElementIs ==
  ASSUME NEW S, NEW s \in Seq(S), NEW i \in 1 .. Len(s)
  PROVE  s[i] \in S
OBVIOUS

LEMMA MovementIs ==
  ASSUME NEW b \in Seq(0 .. 255), Len(b) >= 3
  PROVE  Half(Movement(b).dx) \in Int /\ Half(Movement(b).dy) \in Int
<1>1. b[2] \in Int /\ b[3] \in Int
  <2>1. 2 \in 1 .. Len(b) /\ 3 \in 1 .. Len(b)
    OBVIOUS
  <2>2. b[2] \in 0 .. 255 /\ b[3] \in 0 .. 255
    BY <2>1, ElementIs
  <2>3. 0 .. 255 \subseteq Int
    OBVIOUS
  <2>4. QED
    BY <2>2, <2>3, Zenon
<1>2. Movement(b).dx \in Int /\ Movement(b).dy \in Int
  BY <1>1 DEF Movement, Bit
<1>3. ASSUME NEW v \in Int PROVE Half(v) \in Int
  BY DEF Half
<1>4. QED
  BY <1>2, <1>3

\* Whatever the byte, the pointer stays on the screen, the packet inside its
\* array, and the lit cell is the pointer's.
LEMMA StoreIs ==
  ASSUME IInv, NEW val \in 0 .. 255, Store(val), mouse_has_wheel' = mouse_has_wheel
  PROVE  /\ mouse_x' \in 0 .. Width - 1 /\ mouse_y' \in 0 .. Height - 1
         /\ mouse_byte' \in Seq(0 .. 255) /\ Len(mouse_byte') < PacketLength'
         /\ back' \in 0 .. Lines /\ OnePointer'
<1> DEFINE b == Append(mouse_byte, val)
<1>1. /\ mouse_byte \in Seq(0 .. 255) /\ Len(mouse_byte) < PacketLength
      /\ mouse_x \in 0 .. Width - 1 /\ mouse_y \in 0 .. Height - 1
      /\ back \in 0 .. Lines /\ mouse_has_wheel \in {0, 1}
      /\ Width \in Nat \ {0} /\ Height \in Nat \ {0} /\ Lines \in Nat
  BY MouseAssumption DEF IInv, TypeOK
<1>2. PacketLength \in {3, 4} /\ PacketLength' = PacketLength
  BY DEF PacketLength
<1>3. b \in Seq(0 .. 255) /\ Len(b) = Len(mouse_byte) + 1
  BY <1>1
<1> HIDE DEF b
<1>4. CASE Len(b) # PacketLength
  <2>1. mouse_byte' = b /\ UNCHANGED <<mouse_x, mouse_y, screen>>
    BY <1>4 DEF Store, b
  <2>2. Len(b) < PacketLength
    BY <1>1, <1>2, <1>3, <1>4
  <2>3. OnePointer'
    BY <2>1 DEF IInv, OnePointer, screen
  <2>4. QED
    BY <1>1, <1>2, <1>3, <2>1, <2>2, <2>3 DEF screen
<1>5. CASE Len(b) = PacketLength
  <2>1. /\ mouse_byte' = <<>>
        /\ mouse_x' = Clamp(mouse_x + Half(Movement(b).dx), Width)
        /\ mouse_y' = Clamp(mouse_y - Half(Movement(b).dy), Height)
        /\ PointerDrawn(b)
    BY <1>5 DEF Store, b
  <2>2. mouse_x + Half(Movement(b).dx) \in Int /\ mouse_y - Half(Movement(b).dy) \in Int
    <3>1. Half(Movement(b).dx) \in Int /\ Half(Movement(b).dy) \in Int
      BY <1>2, <1>3, <1>5, MovementIs
    <3>2. QED
      BY <1>1, <3>1
  <2>3. mouse_x' \in 0 .. Width - 1 /\ mouse_y' \in 0 .. Height - 1
    BY <1>1, <2>1, <2>2, ClampIs
  <2>4. back' \in 0 .. Lines
    BY <1>1, <2>1 DEF PointerDrawn, Wheeled
  <2>5. lit' \subseteq {<<mouse_x', mouse_y'>>}
    BY <2>1 DEF PointerDrawn, IInv, OnePointer
  <2>6. QED
    BY <1>2, <2>1, <2>3, <2>4, <2>5 DEF OnePointer
<1>6. QED
  BY <1>4, <1>5

-----------------------------------------------------------------------------
(* The invariant holds at first, and every step preserves it               *)

LEMMA InvInit == Init => IInv
<1> SUFFICES ASSUME Init PROVE IInv
  OBVIOUS
<1>1. mouse_x \in 0 .. Width - 1 /\ mouse_y \in 0 .. Height - 1
  BY MouseAssumption DEF Init
<1>2. TypeOK
  <2>1. /\ obf = None /\ last = 0 /\ irq = {} /\ config = ConfigByte /\ step = 1
        /\ mouse_byte = <<>> /\ mouse_has_wheel = 0 /\ back = 0 /\ mixed = FALSE
    BY DEF Init
  <2>2. step \in 1 .. Len(Script) + 1
    BY <2>1, ScriptIs
  <2>3. mouse_byte \in Seq(0 .. 255) /\ Len(mouse_byte) < PacketLength
    BY <2>1 DEF PacketLength
  <2>4. QED
    <3>1. ConfigByte \in 0 .. 255 /\ Lines \in Nat
      BY MouseAssumption
    <3>2. back \in 0 .. Lines /\ mouse_has_wheel \in {0, 1} /\ irq \subseteq {1, 12}
      BY <2>1, <3>1
    <3>3. last \in 0 .. 255 /\ config \in 0 .. 255
      BY <2>1, <3>1
    <3>4. mixed \in BOOLEAN
      BY <2>1
    <3>5. QED
      BY <1>1, <2>1, <2>2, <2>3, <3>2, <3>3, <3>4 DEF TypeOK
<1>3. QueueOK
  <2>1. <<>> \in Seq(Int) /\ <<>> \in Seq(Bytes)
    OBVIOUS
  <2>2. mouse \in [model : {"none", "plain", "wheel"}, awaits : {FALSE}, rates : {<<>>},
                   id : {0}, streaming : {FALSE}]
    BY DEF Init
  <2>3. mouse \in MouseStates
    BY <2>1, <2>2 DEF MouseStates
  <2>4. QED
    BY <2>1, <2>3 DEF Init, QueueOK
<1>4. QED
  BY <1>2, <1>3 DEF Init, IInv, NoneBefore, OnePointer

LEMMA DeliverInv == ASSUME IInv, Deliver PROVE IInv'
<1>1. /\ queue # <<>> /\ queue' = Tail(queue) /\ Appear(Head(queue))
      /\ UNCHANGED <<last, config, mouse, step, driver, screen, mixed>>
  BY DEF Deliver
<1>2. Head(queue) \in Bytes /\ Tail(queue) \in Seq(Bytes)
  BY <1>1 DEF IInv, QueueOK
<1>3. obf' \in Bytes /\ irq' \subseteq {1, 12}
  BY <1>1, <1>2 DEF Appear, IInv, TypeOK
<1>4. TypeOK'
  BY <1>1, <1>3 DEF IInv, TypeOK, Bytes, driver, screen, PacketLength
<1>5. QED
  BY <1>1, <1>2, <1>4
  DEF IInv, QueueOK, NoneBefore, OnePointer, Running, driver, screen

LEMMA KeyStruckInv == ASSUME IInv, NEW code \in KeyBytes, KeyStruck(code) PROVE IInv'
<1>1. /\ Appear(Byte("key", code))
      /\ UNCHANGED <<last, queue, config, mouse, step, driver, screen, mixed>>
  BY DEF KeyStruck
<1>2. Byte("key", code) \in Bytes
  BY MouseAssumption DEF Byte, Bytes, Kinds
<1>3. obf' \in Bytes /\ irq' \subseteq {1, 12}
  BY <1>1, <1>2 DEF Appear, IInv, TypeOK
<1>4. TypeOK'
  BY <1>1, <1>3 DEF IInv, TypeOK, Bytes, driver, screen, PacketLength
<1>5. QED
  BY <1>1, <1>4 DEF IInv, QueueOK, NoneBefore, OnePointer, Running, driver, screen

LEMMA ReportInv == ASSUME IInv, NEW m \in Packets, Report(m) PROVE IInv'
<1>1. /\ queue' = PacketOf(m)
      /\ UNCHANGED <<obf, last, irq, config, mouse, step, driver, screen, mixed>>
  BY DEF Report
<1>2. queue' \in Seq(Bytes)
  BY <1>1, PacketIs DEF IInv
<1>3. QED
  BY <1>1, <1>2
  DEF IInv, TypeOK, QueueOK, NoneBefore, OnePointer, Running, PacketLength, driver, screen

LEMMA LoseInv == ASSUME IInv, Lose PROVE IInv'
<1>1. /\ queue # <<>> /\ queue' = Tail(queue) /\ mixed' = TRUE
      /\ UNCHANGED <<obf, last, irq, config, mouse, step, driver, screen>>
  BY DEF Lose
<1>2. Tail(queue) \in Seq(Bytes)
  BY <1>1 DEF IInv, QueueOK
<1>3. QED
  BY <1>1, <1>2
  DEF IInv, TypeOK, QueueOK, NoneBefore, OnePointer, Running, PacketLength, driver, screen

LEMMA DrawnOverInv == ASSUME IInv, DrawnOver PROVE IInv'
BY DEF DrawnOver, IInv, TypeOK, QueueOK, NoneBefore, OnePointer, Running, PacketLength, driver

\* The kernel's accesses to the port.
LEMMA InitWriteInv == ASSUME IInv, InitWrite PROVE IInv'
<1>1. /\ step \in 1 .. Len(Script) /\ Now \in Accesses /\ Now.op # "read"
      /\ mouse_byte = <<>>
  <2>1. step \in 1 .. Len(Script)
    BY ScriptIs DEF InitWrite, Running, IInv, TypeOK
  <2>2. QED
    BY <2>1, ScriptIs DEF InitWrite, Now, IInv, NoneBefore
<1>2. Now.what \in Int
  BY <1>1 DEF Accesses
<1>3. /\ step' = step + 1
      /\ UNCHANGED <<obf, last, irq, driver, screen, mixed>>
  BY DEF InitWrite
<1>4. config' \in 0 .. 255
  BY EnabledIs DEF InitWrite, IInv, TypeOK
<1>5. mouse' \in MouseStates
  <2>1. mouse \in MouseStates
    BY DEF IInv, QueueOK
  <2>2. Append(mouse.rates, Now.what) \in Seq(Int)
    BY <1>2, <2>1 DEF MouseStates
  <2>3. Taken(Now.what) \in MouseStates
    <3>1. CASE mouse.awaits
      BY <2>1, <2>2, <3>1 DEF Taken, MouseStates
    <3>2. CASE ~mouse.awaits
      BY <2>1, <3>2 DEF Taken, MouseStates
    <3>3. QED
      BY <3>1, <3>2
  <2>4. QED
    BY <2>1, <2>3 DEF InitWrite
<1>6. queue' \in Seq(Bytes)
  <2>1. queue \in Seq(Bytes) /\ mouse.id \in 0 .. 255
    BY DEF IInv, QueueOK, MouseStates
  <2>2. /\ Byte("ack", 250) \in Bytes /\ Byte("id", mouse.id) \in Bytes
        /\ Byte("config", config) \in Bytes
    BY <2>1 DEF Byte, Bytes, Kinds, IInv, TypeOK
  <2>3. Answer(Now.what) \in Seq(Bytes)
    BY <2>2 DEF Answer
  <2>4. CASE Now.op = "ask"
    <3>1. queue' = queue \o <<Byte("config", config)>>
      BY <2>4 DEF InitWrite
    <3>2. QED
      BY <2>1, <2>2, <3>1
  <2>5. CASE Now.op = "write"
    <3>1. queue' = queue \o Answer(Now.what)
      BY <2>5 DEF InitWrite
    <3>2. QED
      BY <2>1, <2>3, <3>1
  <2>6. CASE Now.op \notin {"ask", "write"}
    <3>1. queue' = queue \o <<>>
      BY <2>6 DEF InitWrite
    <3>2. QED
      BY <2>1, <3>1
  <2>7. QED
    BY <2>4, <2>5, <2>6
<1>7. step' \in 1 .. Len(Script) + 1
  BY <1>1, <1>3, ScriptIs
<1>8. TypeOK'
  BY <1>3, <1>4, <1>7 DEF IInv, TypeOK, driver, screen, PacketLength
<1>9. QED
  BY <1>1, <1>3, <1>5, <1>6, <1>8 DEF IInv, QueueOK, NoneBefore, OnePointer, driver, screen

LEMMA InitReadInv == ASSUME IInv, InitRead \/ InitGivesUp PROVE IInv'
<1>1. /\ step \in 1 .. Len(Script) /\ mouse_byte = <<>>
      /\ step' = step + 1 /\ obf' = None
      /\ UNCHANGED <<queue, irq, config, mouse, mouse_byte, mouse_x, mouse_y, screen>>
  BY ScriptIs DEF InitRead, InitGivesUp, ReadAs, Running, IInv, TypeOK, NoneBefore
<1>2. step' \in 1 .. Len(Script) + 1
  BY <1>1, ScriptIs
<1>3. last' \in 0 .. 255 /\ mouse_has_wheel' \in {0, 1}
  BY DEF InitRead, InitGivesUp, ReadAs, IInv, TypeOK, Bytes
<1>4. mixed' \in BOOLEAN
  BY DEF InitRead, InitGivesUp, IInv, TypeOK
<1>5. Len(mouse_byte') < PacketLength'
  BY <1>1, <1>3 DEF PacketLength
<1>6. TypeOK'
  BY <1>1, <1>2, <1>3, <1>4, <1>5 DEF IInv, TypeOK, screen
<1>7. QED
  BY <1>1, <1>6 DEF IInv, QueueOK, NoneBefore, OnePointer, screen

\* The handlers.
LEMMA Irq1Inv == ASSUME IInv, Irq1 PROVE IInv'
<1>1. mixed' \in BOOLEAN
  BY DEF Irq1, IInv, TypeOK
<1>2. QED
  BY <1>1 DEF Irq1, IInv, TypeOK, QueueOK, NoneBefore, OnePointer, Running, PacketLength, driver, screen

LEMMA Irq12Inv == ASSUME IInv, Irq12 PROVE IInv'
<1>1. /\ Running /\ irq' = irq \ {12}
      /\ UNCHANGED <<last, queue, config, mouse, step, mouse_has_wheel, mixed>>
  BY DEF Irq12
<1>2. CASE ForMouse
  <2>1. obf' = None /\ Store(obf.val)
    BY <1>2 DEF Irq12
  <2>2. obf.val \in 0 .. 255
    BY <1>2 DEF ForMouse, IInv, TypeOK, Bytes
  <2>3. /\ mouse_x' \in 0 .. Width - 1 /\ mouse_y' \in 0 .. Height - 1
        /\ mouse_byte' \in Seq(0 .. 255) /\ Len(mouse_byte') < PacketLength'
        /\ back' \in 0 .. Lines /\ OnePointer'
    BY <1>1, <2>1, <2>2, StoreIs
  <2>4. QED
    BY <1>1, <2>1, <2>3 DEF IInv, TypeOK, QueueOK, NoneBefore, Running
<1>3. CASE ~ForMouse
  BY <1>1, <1>3
  DEF Irq12, IInv, TypeOK, QueueOK, NoneBefore, OnePointer, Running, PacketLength, screen
<1>4. QED
  BY <1>2, <1>3

LEMMA InvStep == IInv /\ [Next]_vars => IInv'
<1>1. ASSUME IInv, UNCHANGED vars PROVE IInv'
  BY <1>1 DEF vars, driver, screen, IInv, TypeOK, QueueOK, NoneBefore, OnePointer, Running, PacketLength
<1>2. QED
  BY <1>1, DeliverInv, KeyStruckInv, ReportInv, LoseInv, DrawnOverInv, InitWriteInv,
     InitReadInv, Irq1Inv, Irq12Inv
  DEF Next, Devices, init_mouse

LEMMA Invariance == Spec => []IInv
<1>1. QED
  BY InvInit, InvStep, PTL DEF Spec

-----------------------------------------------------------------------------
(* In step with the mouse                                                  *)

\* Is the byte in the register the mouse's?
Held == obf # None /\ FromMouse(obf)

\* The register is free, or holds a key nobody waits for.
Free == obf = None \/ obf.kind = "key"

Ack == Byte("ack", 250)
Id == Byte("id", mouse.id)

\* One byte is on its way.
Sent(b) == \/ Free /\ queue = <<b>>
           \/ obf = b /\ queue = <<>>

\* The mouse's number is on its way behind the acknowledgement.
BothSent == \/ Free /\ queue = <<Ack, Id>>
            \/ obf = Ack /\ queue = <<Id>>

\* What the mouse has made of what init_mouse told it so far
Reached ==
  /\ step <= 20 => mouse_has_wheel = 0
  /\ mouse.model = "none" => ~mouse.streaming
  /\ mouse.model # "none" =>
       /\ mouse.awaits <=> step \in {7, 8, 11, 12, 15, 16}
       /\ mouse.rates = IF step <= 8 THEN <<>> ELSE IF step <= 12 THEN <<200>>
                        ELSE IF step <= 16 THEN <<200, 100>> ELSE <<200, 100, 80>>
       /\ mouse.id = IF step >= 17 /\ mouse.model = "wheel" THEN 3 ELSE 0
       /\ mouse.streaming <=> step >= 22
       /\ step >= 21 /\ ~mixed => mouse_has_wheel = IF mouse.id = 3 THEN 1 ELSE 0

Acked == {5, 7, 9, 11, 13, 15, 17}

\* What is on its way while nothing has gone wrong: the answer that init_mouse
\* reads next, and at last perhaps the first packet.
Answered ==
  ~Running /\ ~mixed =>
    IF step = 2 THEN Sent(Byte("config", config))
    ELSE IF mouse.model = "none" THEN Free /\ queue = <<>>
    ELSE /\ step \in Acked => Sent(Ack)
         /\ step = 19 => BothSent
         /\ step = 20 => Sent(Id)
         /\ step = 22 => Sent(Ack) \/ (obf = Ack /\ \E m \in Packets : queue = PacketOf(m))
         /\ step \notin Acked \cup {2, 19, 20, 22} => Free /\ queue = <<>>

\* The bytes of m's packet the driver has; the rest of it, after n bytes, is s.
Got(m) == \A i \in 1 .. Len(mouse_byte) : mouse_byte[i] = PacketOf(m)[i].val
Rest(m, s, n) == /\ Len(s) = Len(PacketOf(m)) - n
                 /\ \A i \in 1 .. Len(s) : s[i] = PacketOf(m)[n + i]

\* Inside m's packet, or at its start; a next packet may follow its last byte.
Inside(m) ==
  /\ Got(m) /\ Len(mouse_byte) < Len(PacketOf(m))
  /\ \/ ~Held /\ Rest(m, queue, Len(mouse_byte))
     \/ /\ Held /\ obf = PacketOf(m)[Len(mouse_byte) + 1]
        /\ \/ Rest(m, queue, Len(mouse_byte) + 1)
           \/ /\ Len(mouse_byte) + 1 = Len(PacketOf(m))
              /\ \E k \in Packets : queue = PacketOf(k)

Aligned ==
  \/ ~Held /\ queue = <<>> /\ mouse_byte = <<>>
  \/ mouse.model # "none" /\ \E m \in Packets : Inside(m)

StepInv == Reached /\ Answered /\ (Running /\ ~mixed => Aligned)

-----------------------------------------------------------------------------
(* Sequences                                                               *)

\* r is s followed by t, element by element.
Joins(r, s, t) ==
  /\ Len(r) = Len(s) + Len(t)
  /\ \A i \in 1 .. Len(s) : r[i] = s[i]
  /\ \A i \in 1 .. Len(t) : r[Len(s) + i] = t[i]

LEMMA AppendedIs ==
  ASSUME NEW S, NEW s \in Seq(S), NEW t \in Seq(S)
  PROVE  s \o t \in Seq(S) /\ Joins(s \o t, s, t)
BY DEF Joins

\* One more element
LEMMA AppendIs ==
  ASSUME NEW S, NEW s \in Seq(S), NEW a \in S
  PROVE  /\ Append(s, a) \in Seq(S) /\ Len(Append(s, a)) = Len(s) + 1
         /\ \A i \in 1 .. Len(s) : Append(s, a)[i] = s[i]
         /\ Append(s, a)[Len(s) + 1] = a
OBVIOUS

LEMMA AppendPair ==
  ASSUME NEW a, NEW b
  PROVE  Append(<<a>>, b) = <<a, b>>
<1> DEFINE S == {a, b}
<1>0. a \in S /\ b \in S
  OBVIOUS
<1> HIDE DEF S
<1> DEFINE r == <<a>>
           s == Append(r, b)
           t == <<a, b>>
<1>1. r \in Seq(S) /\ t \in Seq(S)
  BY <1>0
<1>2. Len(r) = 1 /\ r[1] = a /\ Len(t) = 2 /\ t[1] = a /\ t[2] = b
  OBVIOUS
<1> HIDE DEF r, t
<1>3. s \in Seq(S) /\ Len(s) = Len(r) + 1 /\ s[Len(r) + 1] = b /\ \A i \in 1 .. Len(r) : s[i] = r[i]
  BY <1>0, <1>1, AppendIs
<1> HIDE DEF s
<1>4. Len(s) = Len(t) /\ \A i \in 1 .. Len(s) : s[i] = t[i]
  BY <1>2, <1>3
<1>5. s = t
  BY <1>1, <1>3, <1>4, SeqEqual
<1>6. QED
  BY <1>5 DEF s, t, r

LEMMA AppendTriple ==
  ASSUME NEW a, NEW b, NEW c
  PROVE  Append(<<a, b>>, c) = <<a, b, c>>
<1> DEFINE S == {a, b, c}
<1>0. a \in S /\ b \in S /\ c \in S
  OBVIOUS
<1> HIDE DEF S
<1> DEFINE r == <<a, b>>
           s == Append(r, c)
           t == <<a, b, c>>
<1>1. r \in Seq(S) /\ t \in Seq(S)
  BY <1>0
<1>2. Len(r) = 2 /\ r[1] = a /\ r[2] = b /\ Len(t) = 3 /\ t[1] = a /\ t[2] = b /\ t[3] = c
  OBVIOUS
<1> HIDE DEF r, t
<1>3. s \in Seq(S) /\ Len(s) = Len(r) + 1 /\ s[Len(r) + 1] = c /\ \A i \in 1 .. Len(r) : s[i] = r[i]
  BY <1>0, <1>1, AppendIs
<1> HIDE DEF s
<1>4. Len(s) = Len(t) /\ \A i \in 1 .. Len(s) : s[i] = t[i]
  BY <1>2, <1>3
<1>5. s = t
  BY <1>1, <1>3, <1>4, SeqEqual
<1>6. QED
  BY <1>5 DEF s, t, r

\* Behind an empty queue, an answer is the queue.
LEMMA QueuedIs ==
  /\ \A b : <<>> \o <<b>> = <<b>>
  /\ \A b : <<>> \o (<<b>> \o <<>>) = <<b>>
  /\ \A b, c : <<>> \o (<<b>> \o <<c>>) = <<b, c>>
<1>1. \A S : \A s \in Seq(S) : <<>> \o s = s /\ s \o <<>> = s
  OBVIOUS
<1>2. ASSUME NEW b PROVE <<b>> \in Seq({b})
  OBVIOUS
<1>3. ASSUME NEW b, NEW c PROVE <<b>> \o <<c>> = <<b, c>>
  <2> DEFINE S == {b, c}
  <2>1. b \in S /\ c \in S
    OBVIOUS
  <2> HIDE DEF S
  <2>2. <<b>> \o <<c>> = Append(<<b>>, c)
    BY <2>1
  <2>3. QED
    BY <2>2, AppendPair, Zenon
<1>4. ASSUME NEW b, NEW c PROVE <<b, c>> \in Seq({b, c})
  OBVIOUS
<1>5. QED
  BY <1>1, <1>2, <1>3, <1>4

LEMMA RatesAre ==
  /\ Append(<<>>, 200) = <<200>>
  /\ Append(<<200>>, 100) = <<200, 100>>
  /\ Append(<<200, 100>>, 80) = <<200, 100, 80>>
  /\ <<200>> # <<200, 100, 80>> /\ <<200, 100>> # <<200, 100, 80>>
<1>1. Append(<<>>, 200) = <<200>>
  OBVIOUS
<1>2. Append(<<200>>, 100) = <<200, 100>> /\ Append(<<200, 100>>, 80) = <<200, 100, 80>>
  <2>1. Append(<<200>>, 100) = <<200, 100>>
    BY AppendPair, ZenonT(30)
  <2>2. Append(<<200, 100>>, 80) = <<200, 100, 80>>
    BY AppendTriple, ZenonT(30)
  <2>3. QED
    BY <2>1, <2>2
<1>3. <<200>> # <<200, 100, 80>> /\ <<200, 100>> # <<200, 100, 80>>
  <2>1. /\ Len(<<200>>) = 1 /\ Len(<<200, 100>>) = 2
        /\ Len(<<200, 100, 80>>) = 3
    BY SMTT(30)
  <2>2. \A s, t : Len(s) # Len(t) => s # t
    OBVIOUS
  <2>3. QED
    BY <2>1, <2>2, SMTT(30)
<1>4. QED
  BY <1>1, <1>2, <1>3

-----------------------------------------------------------------------------
(* The script, access by access                                            *)

LEMMA ScriptAt ==
  /\ Len(Script) = 22
  /\ Script[1] = [op |-> "ask", what |-> 32] /\ Script[2] = Read("config")
  /\ Script[3] = [op |-> "set", what |-> 96]
  /\ Script[4] = Write(246) /\ Script[6] = Write(243) /\ Script[8] = Write(200)
  /\ Script[10] = Write(243) /\ Script[12] = Write(100) /\ Script[14] = Write(243)
  /\ Script[16] = Write(80) /\ Script[18] = Write(242) /\ Script[21] = Write(244)
  /\ \A k \in Acked \cup {19, 22} : Script[k] = Read("ack")
  /\ Script[20] = Read("id")
<1> DEFINE S == Accesses
<1>1. /\ \A v \in Int : Write(v) \in S
      /\ Read("config") \in S /\ Read("ack") \in S /\ Read("id") \in S
      /\ [op |-> "ask", what |-> 32] \in S /\ [op |-> "set", what |-> 96] \in S
  BY DEF Write, Read, Accesses
<1> HIDE DEF S
<1>2. \A s, t \in Seq(S) : s \o t \in Seq(S) /\ Joins(s \o t, s, t)
  BY AppendedIs
<1>3. ASSUME NEW v \in Int PROVE Command(v) \in Seq(S)
  BY <1>1 DEF Command
<1>4. ASSUME NEW v
      PROVE  Len(Command(v)) = 2 /\ Command(v)[1] = Write(v) /\ Command(v)[2] = Read("ack")
  BY DEF Command
<1>5. ASSUME NEW v \in Int
      PROVE  SampleRate(v) \in Seq(S) /\ Joins(SampleRate(v), Command(243), Command(v))
  <2>1. Command(243) \in Seq(S) /\ Command(v) \in Seq(S)
    BY <1>3
  <2>2. QED
    BY <1>2, <2>1, Zenon DEF SampleRate
<1>6. ASSUME NEW v \in Int
      PROVE  /\ Len(SampleRate(v)) = 4
             /\ SampleRate(v)[1] = Write(243) /\ SampleRate(v)[2] = Read("ack")
             /\ SampleRate(v)[3] = Write(v) /\ SampleRate(v)[4] = Read("ack")
  <2> DEFINE r == SampleRate(v)
             c == Command(243)
             d == Command(v)
  <2>1. /\ Joins(r, c, d) /\ Len(c) = 2 /\ Len(d) = 2
        /\ c[1] = Write(243) /\ c[2] = Read("ack") /\ d[1] = Write(v) /\ d[2] = Read("ack")
    BY <1>4, <1>5
  <2> HIDE DEF r, c, d
  <2>2. /\ Len(r) = 4 /\ \A i \in 1 .. 2 : r[i] = c[i]
        /\ r[3] = d[1] /\ r[4] = d[2]
    BY <2>1 DEF Joins
  <2>3. QED
    BY <2>1, <2>2 DEF r
<1> DEFINE a0 == <<[op |-> "ask", what |-> 32], Read("config"), [op |-> "set", what |-> 96]>>
           c1 == Command(246)
           c2 == SampleRate(200)
           c3 == SampleRate(100)
           c4 == SampleRate(80)
           c5 == Command(242)
           c6 == <<Read("id")>>
           c7 == Command(244)
           a1 == a0 \o c1
           a2 == a1 \o c2
           a3 == a2 \o c3
           a4 == a3 \o c4
           a5 == a4 \o c5
           a6 == a5 \o c6
<1>7. Script = a6 \o c7
  BY DEF Script
<1>8. /\ a0 \in Seq(S) /\ c1 \in Seq(S) /\ c2 \in Seq(S) /\ c3 \in Seq(S) /\ c4 \in Seq(S)
      /\ c5 \in Seq(S) /\ c6 \in Seq(S) /\ c7 \in Seq(S)
  <2>1. a0 \in Seq(S) /\ c6 \in Seq(S)
    BY <1>1
  <2>2. c1 \in Seq(S) /\ c5 \in Seq(S) /\ c7 \in Seq(S)
    BY <1>3
  <2>3. c2 \in Seq(S) /\ c3 \in Seq(S) /\ c4 \in Seq(S)
    BY <1>5
  <2>4. QED
    BY <2>1, <2>2, <2>3
<1>9. /\ Len(a0) = 3 /\ a0[1] = [op |-> "ask", what |-> 32]
      /\ a0[2] = Read("config") /\ a0[3] = [op |-> "set", what |-> 96]
  OBVIOUS
<1>10. /\ Len(c1) = 2 /\ c1[1] = Write(246) /\ c1[2] = Read("ack")
       /\ Len(c5) = 2 /\ c5[1] = Write(242) /\ c5[2] = Read("ack")
       /\ Len(c7) = 2 /\ c7[1] = Write(244) /\ c7[2] = Read("ack")
  BY <1>4
<1>11. /\ Len(c2) = 4 /\ c2[1] = Write(243) /\ c2[2] = Read("ack")
       /\ c2[3] = Write(200) /\ c2[4] = Read("ack")
       /\ Len(c3) = 4 /\ c3[1] = Write(243) /\ c3[2] = Read("ack")
       /\ c3[3] = Write(100) /\ c3[4] = Read("ack")
       /\ Len(c4) = 4 /\ c4[1] = Write(243) /\ c4[2] = Read("ack")
       /\ c4[3] = Write(80) /\ c4[4] = Read("ack")
  BY <1>6
<1>12. Len(c6) = 1 /\ c6[1] = Read("id")
  OBVIOUS
<1> HIDE DEF a0, c1, c2, c3, c4, c5, c6, c7
<1>13. a1 \in Seq(S) /\ Joins(a1, a0, c1)
  BY <1>2, <1>8
<1> HIDE DEF a1
<1>14. a2 \in Seq(S) /\ Joins(a2, a1, c2)
  BY <1>2, <1>8, <1>13
<1> HIDE DEF a2
<1>15. a3 \in Seq(S) /\ Joins(a3, a2, c3)
  BY <1>2, <1>8, <1>14
<1> HIDE DEF a3
<1>16. a4 \in Seq(S) /\ Joins(a4, a3, c4)
  BY <1>2, <1>8, <1>15
<1> HIDE DEF a4
<1>17. a5 \in Seq(S) /\ Joins(a5, a4, c5)
  BY <1>2, <1>8, <1>16
<1> HIDE DEF a5
<1>18. a6 \in Seq(S) /\ Joins(a6, a5, c6)
  BY <1>2, <1>8, <1>17
<1> HIDE DEF a6
<1>19. Joins(Script, a6, c7)
  BY <1>2, <1>7, <1>8, <1>18
<1>20. Len(a1) = 5 /\ \A i \in 1 .. 3 : a1[i] = a0[i]
  BY <1>9, <1>10, <1>13 DEF Joins
<1>21. a1[4] = c1[1] /\ a1[5] = c1[2]
  BY <1>9, <1>10, <1>13 DEF Joins
<1>22. Len(a2) = 9 /\ \A i \in 1 .. 5 : a2[i] = a1[i]
  BY <1>11, <1>14, <1>20 DEF Joins
<1>23. a2[6] = c2[1] /\ a2[7] = c2[2] /\ a2[8] = c2[3] /\ a2[9] = c2[4]
  BY <1>11, <1>14, <1>20 DEF Joins
<1>24. Len(a3) = 13 /\ \A i \in 1 .. 9 : a3[i] = a2[i]
  BY <1>11, <1>15, <1>22 DEF Joins
<1>25. a3[10] = c3[1] /\ a3[11] = c3[2] /\ a3[12] = c3[3] /\ a3[13] = c3[4]
  BY <1>11, <1>15, <1>22 DEF Joins
<1>26. Len(a4) = 17 /\ \A i \in 1 .. 13 : a4[i] = a3[i]
  BY <1>11, <1>16, <1>24 DEF Joins
<1>27. a4[14] = c4[1] /\ a4[15] = c4[2] /\ a4[16] = c4[3] /\ a4[17] = c4[4]
  BY <1>11, <1>16, <1>24 DEF Joins
<1>28. Len(a5) = 19 /\ \A i \in 1 .. 17 : a5[i] = a4[i]
  BY <1>10, <1>17, <1>26 DEF Joins
<1>29. a5[18] = c5[1] /\ a5[19] = c5[2]
  BY <1>10, <1>17, <1>26 DEF Joins
<1>30. Len(a6) = 20 /\ a6[20] = c6[1] /\ \A i \in 1 .. 19 : a6[i] = a5[i]
  BY <1>12, <1>18, <1>28 DEF Joins
<1>31. Len(Script) = 22 /\ \A i \in 1 .. 20 : Script[i] = a6[i]
  BY <1>10, <1>19, <1>30 DEF Joins
<1>32. Script[21] = c7[1] /\ Script[22] = c7[2]
  BY <1>10, <1>19, <1>30 DEF Joins
<1>33. QED
  BY <1>9, <1>10, <1>11, <1>12, <1>20, <1>21, <1>22, <1>23, <1>24, <1>25, <1>26, <1>27,
     <1>28, <1>29, <1>30, <1>31, <1>32 DEF Acked

-----------------------------------------------------------------------------
(* Packets and answers                                                     *)

PacketLen == IF mouse.id = 3 THEN 4 ELSE 3

\* A packet of m, byte by byte
LEMMA PacketAt ==
  ASSUME QueueOK, NEW m \in Packets
  PROVE  /\ PacketOf(m) \in Seq(Bytes) /\ Len(PacketOf(m)) = PacketLen
         /\ \A i \in 1 .. Len(PacketOf(m)) :
              /\ PacketOf(m)[i] \in Bytes /\ PacketOf(m)[i].kind = Position[i]
              /\ PacketOf(m)[i].of = m /\ PacketOf(m)[i] # None /\ FromMouse(PacketOf(m)[i])
<1> DEFINE bytes == <<8 + (IF m.dx < 0 THEN 16 ELSE 0) + (IF m.dy < 0 THEN 32 ELSE 0),
                      m.dx % 256, m.dy % 256, m.dz % 256>>
<1>1. PacketOf(m) = [i \in 1 .. PacketLen |-> [kind |-> Position[i], val |-> bytes[i], of |-> m]]
  BY DEF PacketOf, PacketLen
<1> HIDE DEF bytes
<1>2. PacketOf(m) \in Seq(Bytes)
  BY PacketIs
<1>3. PacketLen \in {3, 4}
  BY DEF PacketLen
<1>4. Len(PacketOf(m)) = PacketLen
  <2>1. DOMAIN PacketOf(m) = 1 .. PacketLen
    BY <1>1
  <2>2. DOMAIN PacketOf(m) = 1 .. Len(PacketOf(m)) /\ Len(PacketOf(m)) \in Nat
    BY <1>2
  <2>3. QED
    BY <1>3, <2>1, <2>2
<1>5. ASSUME NEW i \in 1 .. Len(PacketOf(m))
      PROVE  /\ PacketOf(m)[i] \in Bytes /\ PacketOf(m)[i].kind = Position[i]
             /\ PacketOf(m)[i].of = m /\ PacketOf(m)[i] # None /\ FromMouse(PacketOf(m)[i])
  <2>1. PacketOf(m)[i] = [kind |-> Position[i], val |-> bytes[i], of |-> m]
    BY <1>1, <1>4
  <2>2. PacketOf(m)[i] \in Bytes
    BY <1>2, ElementIs
  <2>3. i \in {1, 2, 3, 4}
    BY <1>3, <1>4
  <2>4. Position[i] \notin {"key", "config"}
    BY <2>3 DEF Position
  <2>5. QED
    BY <2>1, <2>2, <2>4, MouseAssumption DEF FromMouse
<1>6. QED
  BY <1>2, <1>4, <1>5

\* What the bytes mean to the driver
LEMMA AnswersAre ==
  ASSUME IInv
  PROVE  /\ Ack \in Bytes /\ Id \in Bytes /\ Byte("config", config) \in Bytes
         /\ Ack # None /\ Id # None /\ Byte("config", config) # None
         /\ Ack.kind = "ack" /\ Id.kind = "id" /\ Byte("config", config).kind = "config"
         /\ Ack.val = 250 /\ Id.val = mouse.id
         /\ FromMouse(Ack) /\ FromMouse(Id) /\ ~FromMouse(Byte("config", config))
<1>1. mouse.id \in 0 .. 255 /\ config \in 0 .. 255
  BY DEF IInv, TypeOK, QueueOK, MouseStates
<1>2. Ack \in Bytes /\ Id \in Bytes /\ Byte("config", config) \in Bytes
  BY <1>1 DEF Ack, Id, Byte, Bytes, Kinds
<1>3. QED
  BY <1>2, MouseAssumption DEF Ack, Id, Byte, FromMouse

-----------------------------------------------------------------------------
(* Every step keeps the driver in step                                     *)

LEMMA StepInit == Init => StepInv
<1> SUFFICES ASSUME Init PROVE StepInv
  OBVIOUS
<1>1. step = 1 /\ obf = None /\ queue = <<>> /\ mouse_has_wheel = 0
  BY DEF Init
<1>2. /\ mouse.awaits = FALSE /\ mouse.rates = <<>> /\ mouse.id = 0 /\ mouse.streaming = FALSE
  BY DEF Init
<1>3. ~Running
  BY <1>1, ScriptAt DEF Running
<1>4. Reached
  BY <1>1, <1>2 DEF Reached
<1>5. Answered
  BY <1>1 DEF Answered, Free, Acked
<1>6. QED
  BY <1>3, <1>4, <1>5 DEF StepInv

\* What only the mouse, the wheel's flag and the script decide does not change.
LEMMA ReachedKept ==
  ASSUME Reached, UNCHANGED <<step, mouse, mouse_has_wheel>>, mixed => mixed'
  PROVE  Reached'
BY DEF Reached

\* Once something went wrong there is nothing more to say.
LEMMA MixedStep ==
  ASSUME Reached', mixed'
  PROVE  StepInv'
BY DEF StepInv, Answered

LEMMA LoseStep == ASSUME StepInv, Lose PROVE StepInv'
<1>1. Reached' /\ mixed'
  BY ReachedKept DEF Lose, StepInv, driver
<1>2. QED
  BY <1>1, MixedStep

\* Where the driver is in a packet does not depend on whose key is in the register.
LEMMA AlignedKept ==
  ASSUME Aligned, UNCHANGED <<queue, mouse, mouse_byte>>, Held' <=> Held, Held => obf' = obf
  PROVE  Aligned'
<1>1. \A m : PacketOf(m)' = PacketOf(m)
  BY DEF PacketOf
<1>2. \A m : Got(m) => Got(m)'
  BY <1>1 DEF Got
<1>3. \A m, s, n : Rest(m, s, n)' <=> Rest(m, s, n)
  BY <1>1 DEF Rest
<1>4. ASSUME NEW m \in Packets, Inside(m) PROVE Inside(m)'
  BY <1>1, <1>2, <1>3, <1>4 DEF Inside
<1>5. QED
  BY <1>4 DEF Aligned

LEMMA StutterStep ==
  ASSUME StepInv, UNCHANGED <<obf, queue, config, mouse, step, mouse_byte, mouse_has_wheel, mixed>>
  PROVE  StepInv'
<1>1. Reached'
  BY ReachedKept DEF StepInv
<1>2. Answered'
  BY ZenonT(40) DEF StepInv, Answered, Running, Sent, BothSent, Free, Id, PacketOf
<1>3. Running' /\ ~mixed' => Aligned'
  BY AlignedKept DEF StepInv, Running, Held, FromMouse
<1>4. QED
  BY <1>1, <1>2, <1>3 DEF StepInv

LEMMA DrawnOverStep == ASSUME StepInv, DrawnOver PROVE StepInv'
BY StutterStep DEF DrawnOver, driver

\* A key in the register is in nobody's way.
LEMMA KeyStruckStep ==
  ASSUME IInv, StepInv, NEW code \in KeyBytes, KeyStruck(code)
  PROVE  StepInv'
<1>1. /\ obf = None /\ obf' = Byte("key", code)
      /\ UNCHANGED <<last, queue, config, mouse, step, driver, screen, mixed>>
  BY DEF KeyStruck, Appear
<1>2. Reached'
  BY <1>1, ReachedKept DEF StepInv, driver
<1>3. Free' /\ ~Held' /\ ~Held
  BY <1>1 DEF Free, Held, Byte, FromMouse
<1>4. \A b : b # None /\ Sent(b) => Sent(b)'
  BY <1>1, <1>3 DEF Sent
<1>5. Answered'
  <2>1. \A m : PacketOf(m)' = PacketOf(m)
    BY <1>1 DEF PacketOf
  <2>2. Ack # None /\ Id # None /\ Byte("config", config) # None
    BY AnswersAre
  <2>3. Id' = Id /\ Byte("config", config)' = Byte("config", config)
    BY <1>1 DEF Id, Byte
  <2>4. BothSent => BothSent'
    <3>1. Ack' = Ack
      BY DEF Ack, Byte
    <3>2. QED
      BY <1>1, <1>3, <2>2, <2>3, <3>1 DEF BothSent
  <2>5. QED
    BY <1>1, <1>3, <1>4, <2>4, <2>1, <2>2, <2>3 DEF Answered, StepInv, Running, Free, Sent
<1>6. Running' /\ ~mixed' => Aligned'
  BY <1>1, <1>3, AlignedKept DEF StepInv, Running, driver
<1>7. QED
  BY <1>2, <1>5, <1>6 DEF StepInv

LEMMA Irq1Step == ASSUME IInv, StepInv, Irq1 PROVE StepInv'
<1>1. /\ Running /\ obf' = None /\ mixed' = (mixed \/ (obf # None /\ FromMouse(obf)))
      /\ UNCHANGED <<queue, mouse, step, mouse_byte, mouse_has_wheel>>
  BY DEF Irq1, driver
<1>2. Reached'
  BY <1>1, ReachedKept DEF StepInv
<1>3. Running'
  BY <1>1 DEF Running
<1>4. ~mixed' => Aligned'
  BY <1>1, AlignedKept DEF StepInv, Held
<1>5. QED
  BY <1>2, <1>3, <1>4 DEF StepInv, Answered

\* The mouse streams only when it is there and has been told to, and the driver
\* is then at the start of a packet unless the last one is still in the register.
LEMMA ReportStep ==
  ASSUME IInv, StepInv, NEW m \in Packets, Report(m)
  PROVE  StepInv'
<1>1. /\ mouse.streaming /\ queue = <<>> /\ queue' = PacketOf(m)
      /\ UNCHANGED <<obf, config, mouse, step, mouse_byte, mouse_has_wheel, mixed>>
  BY DEF Report, driver
<1>2. Reached'
  BY <1>1, ReachedKept DEF StepInv
<1>3. mouse.model # "none" /\ step >= 22 /\ step \in Nat
  BY <1>1 DEF StepInv, Reached, IInv, TypeOK
<1>4. /\ \A k : PacketOf(k)' = PacketOf(k)
      /\ (Held' <=> Held) /\ Ack' = Ack /\ (Running' <=> Running)
  BY <1>1 DEF PacketOf, Held, Ack, Running
<1>5. ASSUME ~Running, ~mixed PROVE Answered'
  <2>1. step = 22
    BY <1>3, <1>5, ScriptAt DEF Running
  <2>2. Sent(Ack) \/ (obf = Ack /\ \E k \in Packets : queue = PacketOf(k))
    BY <1>3, <1>5, <2>1 DEF StepInv, Answered
  <2>3. obf = Ack
    BY <1>1, <2>2 DEF Sent
  <2>4. QED
    BY <1>1, <1>3, <1>4, <2>1, <2>3 DEF Answered, Acked
<1>6. ASSUME Running, ~mixed PROVE Aligned'
  <2> DEFINE n == Len(mouse_byte)
  <2>1. n \in Nat /\ mouse_byte \in Seq(0 .. 255)
    BY DEF IInv, TypeOK
  <2>2. \A k \in Packets : Len(PacketOf(k)) = PacketLen /\ PacketLen \in {3, 4}
    BY PacketAt DEF IInv, PacketLen
  <2>3. CASE ~Held /\ mouse_byte = <<>>
    <3>1. n = 0
      BY <2>3
    <3>2. Got(m)'
      BY <1>1, <2>3 DEF Got
    <3>3. Rest(m, queue, n)'
      BY <1>1, <1>4, <2>2, <3>1, PacketAt DEF Rest, IInv
    <3>4. Inside(m)'
      BY <1>1, <1>4, <2>2, <2>3, <3>1, <3>2, <3>3 DEF Inside
    <3>5. QED
      BY <1>1, <1>3, <3>4 DEF Aligned
  <2>4. ASSUME NEW k \in Packets, Inside(k) PROVE Aligned'
    <3>1. Len(queue) = 0 /\ \A j \in Packets : queue # PacketOf(j)
      <4>1. Len(queue) = 0
        BY <1>1
      <4>2. QED
        BY <2>2, <4>1
    <3>2. Held /\ obf = PacketOf(k)[n + 1] /\ n + 1 = Len(PacketOf(k)) /\ Got(k) /\ n < Len(PacketOf(k))
      BY <2>1, <2>2, <2>4, <3>1 DEF Inside, Rest
    <3>3. Got(k)'
      BY <1>1, <1>4, <3>2 DEF Got
    <3>4. queue' = PacketOf(m)'
      BY <1>1, <1>4
    <3>5. Inside(k)'
      BY <1>1, <1>4, <3>2, <3>3, <3>4 DEF Inside
    <3>6. QED
      BY <1>1, <1>3, <3>5 DEF Aligned
  <2>5. QED
    BY <1>6, <2>3, <2>4 DEF StepInv, Aligned
<1>7. QED
  BY <1>1, <1>2, <1>4, <1>5, <1>6, MixedStep DEF StepInv, Answered, IInv, TypeOK

LEMMA DeliverStep == ASSUME IInv, StepInv, Deliver PROVE StepInv'
<1>1. /\ queue # <<>> /\ queue' = Tail(queue) /\ obf = None /\ obf' = Head(queue)
      /\ UNCHANGED <<last, config, mouse, step, mouse_byte, mouse_has_wheel, mixed>>
  BY DEF Deliver, Appear, driver
<1>2. Reached'
  BY <1>1, ReachedKept DEF StepInv
<1>3. /\ \A k : PacketOf(k)' = PacketOf(k)
      /\ ~Held /\ Ack' = Ack /\ Id' = Id /\ (Running' <=> Running)
      /\ Byte("config", config)' = Byte("config", config)
  BY <1>1 DEF PacketOf, Held, Ack, Id, Running, Byte
<1>4. queue \in Seq(Bytes) /\ step \in Nat
  BY DEF IInv, QueueOK, TypeOK
<1>5. \A b : b # None /\ Sent(b) => Sent(b)'
  <2>1. ASSUME NEW b, b # None, Sent(b) PROVE obf' = b /\ queue' = <<>>
    <3>1. queue = <<b>>
      BY <1>1, <2>1 DEF Sent
    <3>2. Head(<<b>>) = b /\ Tail(<<b>>) = <<>>
      OBVIOUS
    <3>3. QED
      BY <1>1, <3>1, <3>2
  <2>2. QED
    BY <2>1 DEF Sent
<1>6. Ack # None /\ Id # None /\ Byte("config", config) # None
  BY AnswersAre
<1>7. ASSUME ~Running, ~mixed PROVE Answered'
  <2>1. CASE step = 2
    BY <1>1, <1>3, <1>5, <1>6, <1>7, <2>1 DEF StepInv, Answered
  <2>2. CASE step # 2
    <3>1. mouse.model # "none" /\ step \in Acked \cup {19, 20, 22}
      BY <1>1, <1>7, <2>2 DEF StepInv, Answered
    <3>2. CASE step \in Acked
      <4>1. Sent(Ack)'
        BY <1>3, <1>5, <1>6, <1>7, <2>2, <3>1, <3>2 DEF StepInv, Answered
      <4>2. QED
        BY <1>1, <2>2, <3>1, <3>2, <4>1 DEF Answered, Acked
    <3>3. CASE step = 19
      <4>0. BothSent
        BY <1>7, <2>2, <3>1, <3>3 DEF StepInv, Answered
      <4>1. queue = <<Ack, Id>>
        BY <1>1, <1>6, <4>0 DEF BothSent
      <4>2. Head(<<Ack, Id>>) = Ack /\ Tail(<<Ack, Id>>) = <<Id>>
        OBVIOUS
      <4>3. BothSent'
        BY <1>1, <1>3, <4>1, <4>2 DEF BothSent
      <4>4. QED
        BY <1>1, <1>3, <2>2, <3>1, <3>3, <4>3 DEF Answered, Acked
    <3>4. CASE step = 20
      <4>1. Sent(Id)'
        BY <1>3, <1>5, <1>6, <1>7, <2>2, <3>1, <3>4 DEF StepInv, Answered
      <4>2. QED
        BY <1>1, <1>3, <2>2, <3>1, <3>4, <4>1 DEF Answered, Acked
    <3>5. CASE step = 22
      <4>1. Sent(Ack)'
        BY <1>1, <1>3, <1>5, <1>6, <1>7, <2>2, <3>1, <3>5 DEF StepInv, Answered
      <4>2. QED
        BY <1>1, <1>3, <2>2, <3>1, <3>5, <4>1 DEF Answered, Acked
    <3>6. QED
      BY <3>1, <3>2, <3>3, <3>4, <3>5
  <2>3. QED
    BY <2>1, <2>2
<1>8. ASSUME Running, ~mixed PROVE Aligned'
  <2> DEFINE n == Len(mouse_byte)
  <2>1. PICK m \in Packets : Inside(m)
    BY <1>1, <1>8 DEF StepInv, Aligned
  <2>2. n \in Nat
    BY DEF IInv, TypeOK
  <2>3. /\ Len(PacketOf(m)) \in Nat
        /\ \A i \in 1 .. Len(PacketOf(m)) : PacketOf(m)[i] # None /\ FromMouse(PacketOf(m)[i])
    BY PacketAt DEF IInv
  <2>4. Got(m) /\ n < Len(PacketOf(m)) /\ Rest(m, queue, n)
    BY <1>3, <2>1 DEF Inside
  <2>5. obf' = PacketOf(m)[n + 1]
    BY <1>1, <1>4, <2>2, <2>4 DEF Rest
  <2>6. Rest(m, Tail(queue), n + 1)
    BY <1>1, <1>4, <2>2, <2>3, <2>4 DEF Rest
  <2>7. Held'
    BY <2>2, <2>3, <2>4, <2>5 DEF Held, FromMouse
  <2>8. Got(m)' /\ Rest(m, queue, n + 1)'
    BY <1>1, <1>3, <2>4, <2>6 DEF Got, Rest
  <2>9. Inside(m)'
    BY <1>1, <1>3, <2>4, <2>5, <2>7, <2>8 DEF Inside
  <2>10. QED
    BY <1>1, <1>8, <2>1, <2>9 DEF StepInv, Aligned
<1>9. QED
  BY <1>1, <1>2, <1>3, <1>7, <1>8, MixedStep DEF StepInv, Answered, IInv, TypeOK

\* What init_mouse writes at each step
LEMMA NowIs ==
  /\ step = 1 => Now.op = "ask"
  /\ step = 3 => Now.op = "set"
  /\ step \in {4, 6, 8, 10, 12, 14, 16, 18, 21} => Now.op = "write"
  /\ step = 4 => Now.what = 246
  /\ step \in {6, 10, 14} => Now.what = 243
  /\ step = 8 => Now.what = 200
  /\ step = 12 => Now.what = 100
  /\ step = 16 => Now.what = 80
  /\ step = 18 => Now.what = 242
  /\ step = 21 => Now.what = 244
<1>1. \A v : Write(v).op = "write" /\ Write(v).what = v
  BY DEF Write
<1>2. Script[1].op = "ask" /\ Script[3].op = "set"
  BY ScriptAt
<1>3. QED
  BY <1>1, <1>2, ScriptAt DEF Now

\* ... and what that puts on its way
LEMMA QueueingIs ==
  ASSUME InitWrite
  PROVE  /\ Now.op = "ask" => queue' = queue \o <<Byte("config", config)>> /\ config' = config
         /\ Now.op = "set" => queue' = queue \o <<>>
         /\ Now.op = "write" => queue' = queue \o Answer(Now.what)
BY DEF InitWrite

\* What init_mouse writes, it writes when nothing is on its way.
LEMMA InitWriteStep == ASSUME IInv, StepInv, InitWrite PROVE StepInv'
<1>1. /\ ~Running /\ Now.op # "read" /\ step' = step + 1
      /\ UNCHANGED <<obf, mouse_byte, mouse_has_wheel, mixed>>
  BY DEF InitWrite, driver
<1>2. step \in 1 .. 22 \ (Acked \cup {2, 19, 20, 22})
  <2>1. step \in 1 .. 22
    BY <1>1, ScriptAt DEF Running, IInv, TypeOK
  <2>2. \A k \in Acked \cup {2, 19, 20, 22} : Script[k].op = "read"
    BY ScriptAt DEF Read
  <2>3. QED
    BY <1>1, <2>1, <2>2 DEF Now
<1>3. step \in {1, 3, 4, 6, 8, 10, 12, 14, 16, 18, 21}
  BY <1>2 DEF Acked
<1>4. ~Running'
  BY <1>1, <1>3, ScriptAt DEF Running
<1>5. /\ mouse' = IF Now.op = "write" /\ mouse.model # "none" THEN Taken(Now.what) ELSE mouse
      /\ mouse \in MouseStates
  BY DEF InitWrite, IInv, QueueOK
<1>6. CASE mouse.model = "none"
  <2>1. mouse' = mouse
    BY <1>5, <1>6
  <2>2. Reached'
    BY <1>1, <1>3, <1>6, <2>1 DEF StepInv, Reached
  <2>3. ASSUME ~mixed PROVE Answered'
    <3>1. Free /\ queue = <<>>
      BY <1>1, <1>2, <1>6, <2>3 DEF StepInv, Answered
    <3>2. Free'
      BY <1>1, <3>1 DEF Free
    <3>3. CASE step = 1
      <4>1. queue' = queue \o <<Byte("config", config)>> /\ config' = config
        BY <3>3, NowIs, QueueingIs
      <4>2. queue' = <<Byte("config", config)>>
        BY <3>1, <4>1, QueuedIs
      <4>3. Sent(Byte("config", config))'
        BY <3>2, <4>1, <4>2 DEF Sent, Byte
      <4>4. QED
        BY <1>1, <3>3, <4>3 DEF Answered
    <3>4. CASE step # 1
      <4>1. queue' = queue \o <<>>
        BY <1>3, <1>6, <3>4, NowIs, QueueingIs DEF Answer
      <4>2. queue' = <<>> /\ step' # 2 /\ mouse'.model = "none"
        BY <1>1, <1>3, <1>6, <2>1, <3>1, <3>4, <4>1
      <4>3. QED
        BY <3>2, <4>2 DEF Answered
    <3>5. QED
      BY <3>3, <3>4
  <2>4. QED
    BY <1>1, <1>4, <2>2, <2>3, MixedStep DEF StepInv, IInv, TypeOK
<1>7. CASE mouse.model # "none"
  <2>1. /\ mouse.awaits <=> step \in {7, 8, 11, 12, 15, 16}
        /\ mouse.rates = IF step <= 8 THEN <<>> ELSE IF step <= 12 THEN <<200>>
                         ELSE IF step <= 16 THEN <<200, 100>> ELSE <<200, 100, 80>>
        /\ mouse.id = IF step >= 17 /\ mouse.model = "wheel" THEN 3 ELSE 0
        /\ mouse.streaming <=> step >= 22
        /\ step <= 20 => mouse_has_wheel = 0
        /\ step >= 21 /\ ~mixed => mouse_has_wheel = IF mouse.id = 3 THEN 1 ELSE 0
    BY <1>7 DEF StepInv, Reached
  <2>2. mouse'.model = mouse.model /\ Reached'
    <3>1. CASE step \in {1, 3}
      <4>1. mouse' = mouse
        BY <1>5, <3>1, NowIs
      <4>2. QED
        BY <1>1, <1>7, <2>1, <3>1, <4>1 DEF Reached
    <3>2. CASE step \in {4, 6, 10, 14, 18, 21}
      <4>1. mouse' = Taken(Now.what) /\ ~mouse.awaits
        BY <1>5, <1>7, <2>1, <3>2, NowIs
      <4> DEFINE rate == Now.what = 243
                 stream == mouse.streaming \/ Now.what = 244
      <4>2. mouse' = [mouse EXCEPT !.awaits = rate, !.streaming = stream]
        BY <4>1 DEF Taken
      <4>3. /\ rate \in BOOLEAN /\ stream \in BOOLEAN
            /\ rate <=> step \in {6, 10, 14}
            /\ stream <=> mouse.streaming \/ step = 21
        BY <3>2, NowIs
      <4> HIDE DEF rate, stream
      <4>4. /\ mouse'.model = mouse.model /\ mouse'.rates = mouse.rates /\ mouse'.id = mouse.id
            /\ mouse'.awaits = rate /\ mouse'.streaming = stream
        BY <1>5, <4>2 DEF MouseStates
      <4>5. mouse'.awaits <=> step' \in {7, 8, 11, 12, 15, 16}
        BY <1>1, <3>2, <4>3, <4>4
      <4>6. mouse'.streaming <=> step' >= 22
        BY <1>1, <2>1, <3>2, <4>3, <4>4, SMTT(30)
      <4>7. QED
        BY <1>1, <1>7, <2>1, <3>2, <4>4, <4>5, <4>6, SMTT(30) DEF Reached
    <3>3. CASE step \in {8, 12, 16}
      <4>1. mouse' = Taken(Now.what) /\ mouse.awaits
        BY <1>5, <1>7, <2>1, <3>3, NowIs
      <4> DEFINE rates == Append(mouse.rates, Now.what)
      <4>2. mouse' = [mouse EXCEPT !.awaits = FALSE, !.rates = rates,
                                   !.id = IF mouse.model = "wheel" /\ rates = <<200, 100, 80>>
                                            THEN 3 ELSE @]
        BY <4>1 DEF Taken
      <4>3. rates = IF step = 8 THEN <<200>> ELSE IF step = 12 THEN <<200, 100>> ELSE <<200, 100, 80>>
        <5>1. CASE step = 8
          BY <2>1, <5>1, NowIs, RatesAre
        <5>2. CASE step = 12
          BY <2>1, <5>2, NowIs, RatesAre
        <5>3. CASE step = 16
          BY <2>1, <5>3, NowIs, RatesAre
        <5>4. QED
          BY <3>3, <5>1, <5>2, <5>3
      <4>4. rates = <<200, 100, 80>> <=> step = 16
        <5>1. CASE step = 16
          BY <4>3, <5>1
        <5>2. CASE step = 12
          BY <4>3, <5>2, RatesAre
        <5>3. CASE step = 8
          BY <4>3, <5>3, RatesAre
        <5>4. QED
          BY <3>3, <5>1, <5>2, <5>3
      <4> HIDE DEF rates
      <4>5. /\ mouse'.model = mouse.model /\ mouse'.rates = rates /\ mouse'.awaits = FALSE
            /\ mouse'.id = IF mouse.model = "wheel" /\ step = 16 THEN 3 ELSE mouse.id
            /\ mouse'.streaming = mouse.streaming
        BY <1>5, <4>2, <4>4 DEF MouseStates
      <4>6. QED
        BY <1>1, <1>7, <2>1, <3>3, <4>3, <4>5 DEF Reached
    <3>4. QED
      BY <1>3, <3>1, <3>2, <3>3
  <2>3. ASSUME ~mixed PROVE Answered'
    <3>1. Free /\ queue = <<>> /\ Free'
      BY <1>1, <1>2, <1>7, <2>3 DEF StepInv, Answered, Free
    <3>2. CASE step = 1
      <4>1. queue' = queue \o <<Byte("config", config)>> /\ config' = config
        BY <3>2, NowIs, QueueingIs
      <4>2. queue' = <<Byte("config", config)>>
        BY <3>1, <4>1, QueuedIs
      <4>3. Sent(Byte("config", config))'
        BY <3>1, <4>1, <4>2 DEF Sent, Byte
      <4>4. QED
        BY <1>1, <3>2, <4>3 DEF Answered
    <3>3. CASE step = 3
      <4>1. queue' = queue \o <<>>
        BY <3>3, NowIs, QueueingIs
      <4>2. queue' = <<>>
        BY <3>1, <4>1
      <4>3. QED
        BY <1>1, <3>1, <3>3, <4>2 DEF Answered, Acked
    <3>4. CASE step \in {4, 6, 8, 10, 12, 14, 16, 21}
      <4>1. queue' = queue \o (<<Ack>> \o <<>>)
        BY <1>7, <2>1, <3>4, NowIs, QueueingIs DEF Answer, Ack
      <4>2. queue' = <<Ack>>
        BY <3>1, <4>1, QueuedIs
      <4>3. Sent(Ack)'
        BY <3>1, <4>2 DEF Sent, Ack, Byte
      <4>4. step' \in Acked \cup {22} /\ step' \notin {2, 19, 20}
        BY <1>1, <3>4 DEF Acked
      <4>5. QED
        BY <4>3, <4>4, <1>7, <2>2 DEF Answered, Acked
    <3>5. CASE step = 18
      <4>1. queue' = queue \o (<<Ack>> \o <<Id>>)
        BY <1>7, <2>1, <3>5, NowIs, QueueingIs, SMTT(30) DEF Answer, Ack, Id
      <4>2. queue' = <<Ack, Id>>
        BY <3>1, <4>1, QueuedIs
      <4>3. Id' = Id /\ Ack' = Ack
        BY <2>1, <2>2, <3>5, <1>1, <1>7 DEF Reached, Id, Ack, Byte
      <4>4. BothSent'
        BY <3>1, <4>2, <4>3 DEF BothSent
      <4>5. step' = 19
        BY <1>1, <3>5
      <4>6. QED
        BY <1>7, <2>2, <4>4, <4>5 DEF Answered, Acked
    <3>6. QED
      BY <1>3, <3>2, <3>3, <3>4, <3>5
  <2>4. QED
    BY <1>1, <1>4, <2>2, <2>3, MixedStep DEF StepInv, IInv, TypeOK
<1>8. QED
  BY <1>6, <1>7

\* What init_mouse waits for at each step
LEMMA AwaitedIs ==
  /\ step = 2 => Now.what = "config"
  /\ step \in Acked \cup {19, 22} => Now.what = "ack"
  /\ step = 20 => Now.what = "id"
BY ScriptAt DEF Now, Read

LEMMA InitReadStep == ASSUME IInv, StepInv, InitRead \/ InitGivesUp PROVE StepInv'
<1>1. /\ ~Running /\ Now.op = "read" /\ step' = step + 1 /\ obf' = None
      /\ UNCHANGED <<queue, config, mouse, mouse_byte>>
      /\ mixed' = (mixed \/ (obf = None /\ (mouse.model # "none" \/ queue # <<>>))
                         \/ (obf # None /\ obf.kind # Now.what))
  BY DEF InitRead, InitGivesUp, ReadAs
<1>2. step \in Acked \cup {2, 19, 20, 22}
  <2>1. step \in 1 .. 22
    BY <1>1, ScriptAt DEF Running, IInv, TypeOK
  <2>2. step \notin {1, 3, 4, 6, 8, 10, 12, 14, 16, 18, 21}
    BY <1>1, NowIs
  <2>3. QED
    BY <2>1, <2>2 DEF Acked
<1>3. Free' /\ ~Held'
  BY <1>1 DEF Free, Held
<1>4. step # 20 => mouse_has_wheel' = mouse_has_wheel
  BY <1>2, AwaitedIs DEF InitRead, InitGivesUp, ReadAs
<1>5. Reached'
  <2>1. step <= 20 => mouse_has_wheel = 0
    BY DEF StepInv, Reached
  <2>2. step' <= 20 => mouse_has_wheel' = 0
    BY <1>1, <1>2, <1>4, <2>1 DEF Acked
  <2>3. mouse.model = "none" => ~mouse.streaming
    BY DEF StepInv, Reached
  <2>4. ASSUME mouse.model # "none", step' >= 21, ~mixed'
        PROVE  mouse_has_wheel' = IF mouse.id = 3 THEN 1 ELSE 0
    <3>1. CASE step = 20
      <4>1. ~mixed /\ obf # None /\ obf.kind = "id"
        BY <1>1, <2>4, <3>1, AwaitedIs
      <4>2. obf = Id
        BY <1>1, <2>4, <3>1, <4>1 DEF StepInv, Answered, Sent, Free
      <4>3. mouse_has_wheel' = IF mouse.id \in {3, 4} THEN 1 ELSE 0
        BY <3>1, <4>1, <4>2, <2>1, AnswersAre, AwaitedIs DEF InitRead, InitGivesUp, ReadAs
      <4>4. mouse.id \in {0, 3}
        BY DEF IInv, QueueOK, MouseStates
      <4>5. QED
        BY <4>3, <4>4
    <3>2. CASE step = 22
      <4>1. ~mixed /\ mouse_has_wheel' = mouse_has_wheel
        <5>1. ~mixed
          BY <1>1, <2>4
        <5>2. mouse_has_wheel' = mouse_has_wheel
          BY <1>4, <3>2
        <5>3. QED
          BY <5>1, <5>2
      <4>2. mouse_has_wheel = IF mouse.id = 3 THEN 1 ELSE 0
        BY <2>4, <3>2, <4>1 DEF StepInv, Reached
      <4>3. QED
        BY <4>1, <4>2
    <3>3. QED
      BY <1>1, <1>2, <2>4, <3>1, <3>2 DEF Acked
  <2>5. ASSUME mouse.model # "none"
        PROVE  /\ mouse.awaits <=> step' \in {7, 8, 11, 12, 15, 16}
               /\ mouse.streaming <=> step' >= 22
               /\ mouse.id = IF step' >= 17 /\ mouse.model = "wheel" THEN 3 ELSE 0
    <3>1. /\ mouse.awaits <=> step \in {7, 8, 11, 12, 15, 16}
          /\ mouse.streaming <=> step >= 22
          /\ mouse.id = IF step >= 17 /\ mouse.model = "wheel" THEN 3 ELSE 0
      BY <2>5 DEF StepInv, Reached
    <3>2. /\ step \in {7, 8, 11, 12, 15, 16} <=> step' \in {7, 8, 11, 12, 15, 16}
          /\ step >= 22 <=> step' >= 22
          /\ step >= 17 <=> step' >= 17
      BY <1>1, <1>2 DEF Acked
    <3>3. QED
      BY <3>1, <3>2
  <2>6. ASSUME mouse.model # "none"
        PROVE  mouse.rates = IF step' <= 8 THEN <<>> ELSE IF step' <= 12 THEN <<200>>
                             ELSE IF step' <= 16 THEN <<200, 100>> ELSE <<200, 100, 80>>
    <3>1. mouse.rates = IF step <= 8 THEN <<>> ELSE IF step <= 12 THEN <<200>>
                        ELSE IF step <= 16 THEN <<200, 100>> ELSE <<200, 100, 80>>
      BY <2>6 DEF StepInv, Reached
    <3>2. (step <= 8 <=> step' <= 8) /\ (step <= 12 <=> step' <= 12) /\ (step <= 16 <=> step' <= 16)
      BY <1>1, <1>2 DEF Acked
    <3>3. QED
      BY <3>1, <3>2
  <2>7. QED
    BY <1>1, <2>2, <2>3, <2>4, <2>5, <2>6 DEF Reached
<1>6. CASE mixed'
  BY <1>5, <1>6, MixedStep
<1>7. CASE ~mixed' /\ mouse.model = "none"
  <2>1. ~mixed /\ (obf # None => obf.kind = Now.what) /\ (obf = None => queue = <<>>)
    BY <1>1, <1>7
  <2>2. queue' = <<>>
    <3>1. CASE step = 2
      <4>1. obf # None => queue = <<>>
        BY <1>1, <2>1, <3>1, AwaitedIs DEF StepInv, Answered, Sent, Free
      <4>2. QED
        BY <1>1, <2>1, <4>1
    <3>2. CASE step # 2
      BY <1>1, <1>7, <2>1, <3>2 DEF StepInv, Answered
    <3>3. QED
      BY <3>1, <3>2
  <2>3. Answered'
    BY <1>1, <1>2, <1>3, <1>7, <2>2 DEF Answered, Acked
  <2>4. Running' => Aligned'
    BY <1>1, <1>3, <2>2 DEF Aligned, IInv, NoneBefore
  <2>5. QED
    BY <1>5, <2>3, <2>4 DEF StepInv
<1>8. CASE ~mixed' /\ mouse.model # "none"
  <2>1. ~mixed /\ obf # None /\ obf.kind = Now.what
    BY <1>1, <1>8
  <2>2. CASE step \in Acked \cup {2, 20}
    <3>1. queue = <<>>
      <4>1. step = 2 => queue = <<>>
        BY <1>1, <2>1, AwaitedIs DEF StepInv, Answered, Sent, Free
      <4>2. step = 20 => queue = <<>>
        BY <1>1, <1>8, <2>1, AwaitedIs DEF StepInv, Answered, Sent, Free
      <4>3. step \in Acked => queue = <<>>
        <5>1. step \in Acked => step # 2
          BY DEF Acked
        <5>2. step \in Acked => Sent(Ack)
          BY <1>1, <1>8, <2>1, <5>1 DEF StepInv, Answered
        <5>3. QED
          BY <2>1, <5>2, AwaitedIs DEF Sent, Free
      <4>4. QED
        BY <2>2, <4>1, <4>2, <4>3
    <3>2. step' \notin Acked \cup {2, 19, 20, 22} /\ step' <= 22
      BY <1>1, <2>2 DEF Acked
    <3>3. ~Running'
      BY <1>1, <3>2, ScriptAt DEF Running, IInv, TypeOK
    <3>4. Answered'
      BY <1>1, <1>3, <1>8, <3>1, <3>2 DEF Answered
    <3>5. QED
      BY <1>5, <3>3, <3>4 DEF StepInv
  <2>3. CASE step = 19
    <3>1. queue = <<Id>>
      <4>1. BothSent
        BY <1>1, <1>8, <2>1, <2>3 DEF StepInv, Answered
      <4>2. ~Free
        BY <2>1, <2>3, AwaitedIs DEF Free
      <4>3. QED
        BY <4>1, <4>2 DEF BothSent
    <3>2. Sent(Id)'
      BY <1>1, <1>3, <3>1 DEF Sent, Id
    <3>3. step' = 20 /\ ~Running'
      BY <1>1, <2>3, ScriptAt DEF Running
    <3>4. Answered'
      BY <1>1, <1>8, <3>2, <3>3 DEF Answered, Acked
    <3>5. QED
      BY <1>5, <3>3, <3>4 DEF StepInv
  <2>4. CASE step = 22
    <3>1. Running'
      BY <1>1, <2>4, ScriptAt DEF Running
    <3>2. Sent(Ack) \/ (obf = Ack /\ \E m \in Packets : queue = PacketOf(m))
      BY <1>1, <1>8, <2>1, <2>4 DEF StepInv, Answered
    <3>3. ~Free
      BY <2>1, <2>4, AwaitedIs DEF Free
    <3>4. mouse_byte' = <<>>
      BY <1>1 DEF IInv, NoneBefore
    <3>5. CASE queue = <<>>
      BY <1>1, <1>3, <1>5, <3>1, <3>4, <3>5 DEF StepInv, Answered, Aligned
    <3>6. CASE \E m \in Packets : queue = PacketOf(m)
      <4>1. PICK m \in Packets : queue = PacketOf(m)
        BY <3>6
      <4>2. PacketOf(m)' = PacketOf(m)
        BY <1>1 DEF PacketOf
      <4>3. Len(PacketOf(m)) \in {3, 4}
        BY PacketAt DEF PacketLen, IInv
      <4>4. Got(m)'
        BY <3>4 DEF Got
      <4>5. Len(mouse_byte') = 0
        BY <3>4
      <4>6. Rest(m, queue, Len(mouse_byte))'
        BY <1>1, <4>1, <4>2, <4>3, <4>5 DEF Rest
      <4>7. Inside(m)'
        BY <1>3, <4>2, <4>3, <4>4, <4>5, <4>6 DEF Inside
      <4>8. QED
        BY <1>1, <1>5, <1>8, <3>1, <4>7 DEF StepInv, Answered, Aligned
    <3>7. QED
      BY <3>2, <3>3, <3>5, <3>6 DEF Sent
  <2>5. QED
    BY <1>2, <2>2, <2>3, <2>4
<1>9. QED
  BY <1>6, <1>7, <1>8

LEMMA RunningIs == ASSUME IInv, Running PROVE step \in Nat /\ step > 22
<1>1. step \in 1 .. 23
  BY ScriptAt DEF IInv, TypeOK
<1>2. QED
  BY <1>1, ScriptAt DEF Running

\* Inside a packet, the byte that arrives is the packet's next.
LEMMA Irq12Step == ASSUME IInv, StepInv, Irq12 PROVE StepInv'
<1>1. /\ Running /\ UNCHANGED <<queue, config, mouse, step, mouse_has_wheel, mixed>>
  BY DEF Irq12
<1>2. Reached' /\ Running'
  BY <1>1, ReachedKept DEF StepInv, Running
<1>3. CASE ~Held
  <2>1. UNCHANGED <<obf, mouse_byte>>
    BY <1>3 DEF Irq12, ForMouse, Held
  <2>2. QED
    BY <1>1, <2>1, StutterStep
<1>4. ASSUME Held, ~mixed PROVE Aligned'
  <2> DEFINE n == Len(mouse_byte)
             b == Append(mouse_byte, obf.val)
  <2>1. obf' = None /\ Store(obf.val) /\ ~Held'
    BY <1>4 DEF Irq12, ForMouse, Held
  <2>2. mouse.model # "none" /\ \E m \in Packets : Inside(m)
    BY <1>1, <1>4 DEF StepInv, Aligned
  <2>3. PICK m \in Packets : Inside(m)
    BY <2>2
  <2>4. /\ mouse_byte \in Seq(0 .. 255) /\ n \in Nat /\ obf.val \in 0 .. 255
    <3>1. mouse_byte \in Seq(0 .. 255)
      BY DEF IInv, TypeOK
    <3>2. obf \in Bytes
      BY <1>4 DEF IInv, TypeOK, Held
    <3>3. QED
      BY <3>1, <3>2 DEF Bytes
  <2>5. b \in Seq(0 .. 255) /\ Len(b) = n + 1 /\ b[n + 1] = obf.val /\ \A i \in 1 .. n : b[i] = mouse_byte[i]
    BY <2>4, AppendIs
  <2>6. /\ \A k : PacketOf(k)' = PacketOf(k)
        /\ \A k \in Packets : Len(PacketOf(k)) = PacketLen
        /\ PacketLen \in {3, 4}
    BY <1>1, PacketAt DEF PacketOf, PacketLen, IInv
  <2>7. PacketLength = PacketLen
    <3>1. step \in Nat /\ step > 22
      BY <1>1, RunningIs
    <3>2. mouse_has_wheel = IF mouse.id = 3 THEN 1 ELSE 0
      BY <1>4, <2>2, <3>1 DEF StepInv, Reached
    <3>3. QED
      BY <3>2 DEF PacketLength, PacketLen
  <2>8. /\ Got(m) /\ n < Len(PacketOf(m)) /\ obf = PacketOf(m)[n + 1]
        /\ \/ Rest(m, queue, n + 1)
           \/ n + 1 = Len(PacketOf(m)) /\ \E k \in Packets : queue = PacketOf(k)
    BY <1>4, <2>3 DEF Inside
  <2>9. queue \in Seq(Bytes)
    BY DEF IInv, QueueOK
  <2> HIDE DEF b
  <2>10. CASE n + 1 = PacketLen
    <3>1. mouse_byte' = <<>>
      BY <2>1, <2>5, <2>7, <2>10 DEF Store, b
    <3>2. Rest(m, queue, n + 1) => queue = <<>>
      BY <2>4, <2>6, <2>9, <2>10 DEF Rest
    <3>3. CASE queue = <<>>
      BY <1>1, <2>1, <3>1, <3>3 DEF Aligned
    <3>4. CASE \E k \in Packets : queue = PacketOf(k)
      <4>1. PICK k \in Packets : queue = PacketOf(k)
        BY <3>4
      <4>2. Len(mouse_byte') = 0
        BY <3>1
      <4>3. Len(PacketOf(k)) \in {3, 4}
        BY <2>6
      <4>4. Got(k)'
        BY <3>1 DEF Got
      <4>5. Rest(k, queue, Len(mouse_byte))'
        BY <1>1, <2>6, <4>1, <4>2, <4>3 DEF Rest
      <4>6. Inside(k)'
        BY <2>1, <2>6, <4>2, <4>3, <4>4, <4>5 DEF Inside
      <4>7. QED
        BY <1>1, <2>2, <4>6 DEF Aligned
    <3>5. QED
      BY <2>8, <3>2, <3>3, <3>4
  <2>11. CASE n + 1 # PacketLen
    <3>1. mouse_byte' = b
      BY <2>1, <2>5, <2>7, <2>11 DEF Store, b
    <3>2. Rest(m, queue, n + 1)
      BY <2>6, <2>8, <2>11
    <3>4. ASSUME NEW i \in 1 .. n + 1 PROVE b[i] = PacketOf(m)[i].val
      <4>1. CASE i = n + 1
        BY <2>5, <2>8, <4>1
      <4>2. CASE i # n + 1
        <5>1. i \in 1 .. n
          BY <2>4, <4>2
        <5>2. QED
          BY <2>5, <2>8, <5>1 DEF Got
      <4>3. QED
        BY <4>1, <4>2
    <3>5. Got(m)'
      BY <2>5, <2>6, <3>1, <3>4 DEF Got
    <3>6. Len(mouse_byte') = n + 1 /\ n + 1 < Len(PacketOf(m))
      BY <2>4, <2>5, <2>6, <2>8, <2>11, <3>1
    <3>7. Rest(m, queue, Len(mouse_byte))'
      BY <1>1, <2>6, <3>2, <3>6 DEF Rest
    <3>8. Inside(m)'
      BY <2>1, <2>6, <3>5, <3>6, <3>7 DEF Inside
    <3>9. QED
      BY <1>1, <2>2, <3>8 DEF Aligned
  <2>12. QED
    BY <2>10, <2>11
<1>5. QED
  BY <1>1, <1>2, <1>3, <1>4, MixedStep DEF StepInv, Answered, IInv, TypeOK

LEMMA StepStep == IInv /\ StepInv /\ [Next]_vars => StepInv'
<1>1. ASSUME StepInv, UNCHANGED vars PROVE StepInv'
  BY <1>1, StutterStep DEF vars, driver
<1>2. QED
  BY <1>1, DeliverStep, KeyStruckStep, ReportStep, LoseStep, DrawnOverStep, InitWriteStep,
     InitReadStep, Irq1Step, Irq12Step
  DEF Next, Devices, init_mouse

LEMMA StepInvariance == Spec => [](IInv /\ StepInv)
<1>1. Init => IInv /\ StepInv
  BY InvInit, StepInit
<1>2. (IInv /\ StepInv) /\ [Next]_vars => (IInv /\ StepInv)'
  BY InvStep, StepStep
<1>3. QED
  BY <1>1, <1>2, PTL DEF Spec

-----------------------------------------------------------------------------
(* What a completed packet does                                            *)

\* The farther from zero, the greater the square.
LEMMA SquareIs ==
  ASSUME NEW a \in Nat, NEW d \in Nat
  PROVE  a * a <= (a + d) * (a + d) /\ (d > 0 => a * a < (a + d) * (a + d))
<1>1. (a + d) * (a + d) = a * a + 2 * (a * d) + d * d
  OBVIOUS
<1>2. a * d >= 0 /\ d * d >= 0 /\ (d > 0 => d * d > 0)
  OBVIOUS
<1>3. a * a \in Int /\ a * d \in Int /\ d * d \in Int
  OBVIOUS
<1>4. QED
  BY <1>1, <1>2, <1>3

\* The square of a distance, whichever way it is measured
LEMMA Mirrored ==
  ASSUME NEW v \in Int, NEW w \in Int
  PROVE  (w - v) * (w - v) = (v - w) * (v - w)
OBVIOUS

\* The cell Clamp yields is nearer than any other.
LEMMA ClampNearest ==
  ASSUME NEW v \in Int, NEW size \in Nat \ {0}, NEW u \in 0 .. size - 1, NEW c, c = Clamp(v, size)
  PROVE  /\ (c - v) * (c - v) <= (u - v) * (u - v)
         /\ u # c => (c - v) * (c - v) < (u - v) * (u - v)
<1>1. CASE v < 0
  <2>1. c = 0
    BY <1>1 DEF Clamp
  <2> DEFINE a == -v
  <2>2. a \in Nat /\ c - v = a /\ u - v = a + u /\ u \in Nat /\ (u # c => u > 0)
    BY <1>1, <2>1
  <2> HIDE DEF a
  <2>3. a * a <= (a + u) * (a + u) /\ (u > 0 => a * a < (a + u) * (a + u))
    BY <2>2, SquareIs
  <2>4. QED
    BY <2>2, <2>3
<1>2. CASE v > size - 1
  <2>1. c = size - 1
    BY <1>2 DEF Clamp
  <2> DEFINE a == v - (size - 1)
             d == (size - 1) - u
  <2>2. a \in Nat /\ d \in Nat /\ v - c = a /\ v - u = a + d /\ (u # c => d > 0)
    BY <1>2, <2>1
  <2>3. (c - v) * (c - v) = (v - c) * (v - c) /\ (u - v) * (u - v) = (v - u) * (v - u)
    BY <2>1, Mirrored
  <2> HIDE DEF a, d
  <2>4. a * a <= (a + d) * (a + d) /\ (d > 0 => a * a < (a + d) * (a + d))
    BY <2>2, SquareIs
  <2>5. QED
    BY <2>2, <2>3, <2>4
<1>3. CASE v \in 0 .. size - 1
  <2>1. c = v
    BY <1>3 DEF Clamp
  <2>2. (c - v) * (c - v) = 0
    BY <2>1
  <2> DEFINE d == IF u >= v THEN u - v ELSE v - u
  <2>3. d \in Nat /\ (u - v) * (u - v) = d * d /\ (u # c => d > 0)
    BY <2>1, <1>3
  <2> HIDE DEF d
  <2>4. 0 * 0 <= (0 + d) * (0 + d) /\ (d > 0 => 0 * 0 < (0 + d) * (0 + d))
    BY <2>3, SquareIs
  <2>5. d * d >= 0 /\ (d > 0 => d * d > 0)
    BY <2>3, <2>4
  <2>6. QED
    BY <2>2, <2>3, <2>5
<1>4. QED
  BY <1>1, <1>2, <1>3

LEMMA OnScreenIs ==
  ASSUME NEW v \in Int, NEW size \in Nat \ {0}
  PROVE  OnScreen(v, size) = Clamp(v, size)
<1> DEFINE c == Clamp(v, size)
           Nearest(w) == \A u \in 0 .. size - 1 : (w - v) * (w - v) <= (u - v) * (u - v)
<1>1. c \in 0 .. size - 1
  BY ClampIs
<1>2. Nearest(c)
  BY ClampNearest
<1>3. ASSUME NEW w \in 0 .. size - 1, Nearest(w) PROVE w = c
  <2>1. (w - v) * (w - v) <= (c - v) * (c - v)
    BY <1>1, <1>3
  <2>2. w # c => (c - v) * (c - v) < (w - v) * (w - v)
    BY ClampNearest
  <2> DEFINE x == (w - v) * (w - v)
             y == (c - v) * (c - v)
  <2>3. x \in Int /\ y \in Int
    BY <1>1
  <2> HIDE DEF x, y
  <2>4. QED
    BY <2>1, <2>2, <2>3 DEF x, y
<1>4. OnScreen(v, size) = CHOOSE w \in 0 .. size - 1 : Nearest(w)
  BY DEF OnScreen
<1> HIDE DEF c, Nearest
<1>5. QED
  BY <1>1, <1>2, <1>3, <1>4 DEF c

\* A packet's bytes give back the movement, and the wheel's byte its turn.
LEMMA MovementBack ==
  ASSUME QueueOK, NEW m \in Packets, NEW b,
         \A i \in 1 .. PacketLen : b[i] = PacketOf(m)[i].val
  PROVE  /\ Movement(b).dx = m.dx /\ Movement(b).dy = m.dy
         /\ m.dx \in Int /\ m.dy \in Int /\ m.dz \in -8 .. 7
         /\ mouse.id = 3 => b[4] = m.dz % 256
<1>1. m.dx \in -256 .. 255 /\ m.dy \in -256 .. 255 /\ m.dz \in -8 .. 7
  BY MouseAssumption
<1> DEFINE signs == 8 + (IF m.dx < 0 THEN 16 ELSE 0) + (IF m.dy < 0 THEN 32 ELSE 0)
           bytes == <<signs, m.dx % 256, m.dy % 256, m.dz % 256>>
<1>2. PacketOf(m) = [i \in 1 .. PacketLen |-> [kind |-> Position[i], val |-> bytes[i], of |-> m]]
  BY DEF PacketOf, PacketLen
<1>3. bytes[1] = signs /\ bytes[2] = m.dx % 256 /\ bytes[3] = m.dy % 256 /\ bytes[4] = m.dz % 256
  OBVIOUS
<1> HIDE DEF bytes, signs
<1>4. PacketLen \in {3, 4} /\ (mouse.id = 3 => PacketLen = 4)
  BY DEF PacketLen
<1>5. \A i \in 1 .. PacketLen : b[i] = bytes[i]
  BY <1>2
<1>6. b[1] = signs /\ b[2] = m.dx % 256 /\ b[3] = m.dy % 256 /\ (mouse.id = 3 => b[4] = m.dz % 256)
  BY <1>3, <1>4, <1>5
<1>7. (Bit(signs, 16) <=> m.dx < 0) /\ (Bit(signs, 32) <=> m.dy < 0)
  BY <1>1 DEF Bit, signs
<1>8. m.dx % 256 = (IF m.dx < 0 THEN m.dx + 256 ELSE m.dx)
  BY <1>1
<1>9. m.dy % 256 = (IF m.dy < 0 THEN m.dy + 256 ELSE m.dy)
  BY <1>1
<1>10. Movement(b).dx = m.dx /\ Movement(b).dy = m.dy
  BY <1>1, <1>6, <1>7, <1>8, <1>9, SMTT(30) DEF Movement
<1>11. QED
  BY <1>1, <1>6, <1>10

\* A turn of the wheel, within the history
LEMMA WheelIs ==
  ASSUME TypeOK, NEW b, NEW dz \in -8 .. 7, b[4] = dz % 256, mouse_has_wheel = 1
  PROVE  Wheeled(b) = Clamp(back - (IF dz > 0 THEN 1 ELSE IF dz < 0 THEN -1 ELSE 0), Lines + 1)
<1>1. back \in 0 .. Lines /\ Lines \in Nat
  BY MouseAssumption DEF TypeOK
<1>2. dz % 256 = (IF dz < 0 THEN dz + 256 ELSE dz)
  OBVIOUS
<1>3. QED
  BY <1>1, <1>2 DEF Wheeled, Clamp

\* C's division rounds toward zero.
LEMMA HalfIs == ASSUME NEW v \in -256 .. 255 PROVE Half(v) = Rounded(v) /\ Rounded(v) \in Int
<1> DEFINE Fits(h) == 2 * h \in IF v < 0 THEN {v, v + 1} ELSE {v, v - 1}
<1>1. Half(v) \in -128 .. 127 /\ Fits(Half(v))
  BY DEF Half
<1>2. \A h \in -128 .. 127 : Fits(h) => h = Half(v)
  BY DEF Half
<1>3. Rounded(v) = CHOOSE h \in -128 .. 127 : Fits(h)
  BY DEF Rounded
<1> HIDE DEF Fits
<1>4. QED
  BY <1>1, <1>2, <1>3

LEMMA FollowsStep == ASSUME IInv, StepInv, Irq12 PROVE Follows
<1> SUFFICES ASSUME mouse_cycle # 0, mouse_cycle' = 0, ~mixed
             PROVE  /\ mouse_x' = OnScreen(mouse_x + Rounded(obf.of.dx), Width)
                    /\ mouse_y' = OnScreen(mouse_y - Rounded(obf.of.dy), Height)
                    /\ back' = IF mouse.id # 3 THEN back
                               ELSE OnScreen(back - (IF obf.of.dz > 0 THEN 1
                                                     ELSE IF obf.of.dz < 0 THEN -1 ELSE 0), Lines + 1)
  BY DEF Follows
<1> DEFINE n == Len(mouse_byte)
           b == Append(mouse_byte, obf.val)
<1>1. Running /\ n # 0 /\ Len(mouse_byte') = 0
  BY DEF Irq12, mouse_cycle
<1>2. Held /\ Store(obf.val)
  BY <1>1 DEF Irq12, ForMouse, Held
<1>3. /\ mouse_byte \in Seq(0 .. 255) /\ n \in Nat
      /\ mouse_x \in Int /\ mouse_y \in Int /\ back \in 0 .. Lines
      /\ Width \in Nat \ {0} /\ Height \in Nat \ {0} /\ Lines \in Nat
  BY MouseAssumption DEF IInv, TypeOK
<1>4. obf.val \in 0 .. 255
  BY <1>2 DEF IInv, TypeOK, Held, Bytes
<1>5. /\ Len(b) = n + 1 /\ b[n + 1] = obf.val /\ \A i \in 1 .. n : b[i] = mouse_byte[i]
  BY <1>3, <1>4, AppendIs
<1>6. mouse.model # "none" /\ \E m \in Packets : Inside(m)
  BY <1>1, <1>2 DEF StepInv, Aligned
<1>7. PICK m \in Packets : Inside(m)
  BY <1>6
<1>8. mouse_has_wheel = IF mouse.id = 3 THEN 1 ELSE 0
  BY <1>1, <1>6, RunningIs DEF StepInv, Reached
<1>9. PacketLength = PacketLen
  BY <1>8 DEF PacketLength, PacketLen
<1>10. /\ Len(PacketOf(m)) = PacketLen /\ PacketLen \in Nat
       /\ \A i \in 1 .. PacketLen : PacketOf(m)[i].of = m
  BY PacketAt DEF IInv, PacketLen
<1>11. Got(m) /\ n < PacketLen /\ obf = PacketOf(m)[n + 1] /\ obf.of = m
  BY <1>2, <1>3, <1>7, <1>10 DEF Inside
<1> HIDE DEF b
<1>12. Len(b) = PacketLength
  <2>1. Len(b) # PacketLength => mouse_byte' = b
    BY <1>2 DEF Store, b
  <2>2. QED
    BY <1>1, <1>3, <1>5, <2>1
<1>13. /\ mouse_x' = Clamp(mouse_x + Half(Movement(b).dx), Width)
       /\ mouse_y' = Clamp(mouse_y - Half(Movement(b).dy), Height)
       /\ back' = Wheeled(b)
  BY <1>2, <1>12 DEF Store, PointerDrawn, b
<1>14. ASSUME NEW i \in 1 .. PacketLen PROVE b[i] = PacketOf(m)[i].val
  <2>1. CASE i = n + 1
    BY <1>5, <1>11, <2>1
  <2>2. CASE i # n + 1
    <3>1. i \in 1 .. n
      BY <1>3, <1>5, <1>9, <1>12, <2>2
    <3>2. QED
      BY <1>5, <1>11, <3>1 DEF Got
  <2>3. QED
    BY <2>1, <2>2
<1>15. /\ Movement(b).dx = m.dx /\ Movement(b).dy = m.dy
       /\ m.dx \in Int /\ m.dy \in Int /\ m.dz \in -8 .. 7
       /\ mouse.id = 3 => b[4] = m.dz % 256
  BY <1>14, MovementBack DEF IInv
<1>16. \A v \in -256 .. 255 : Half(v) = Rounded(v) /\ Rounded(v) \in Int
  BY HalfIs
<1>17. m.dx \in -256 .. 255 /\ m.dy \in -256 .. 255
  BY MouseAssumption
<1>18. mouse_x' = OnScreen(mouse_x + Rounded(m.dx), Width)
  <2>1. mouse_x + Rounded(m.dx) \in Int
    <3>1. Rounded(m.dx) \in Int
      BY <1>16, <1>17
    <3>2. QED
      BY <1>3, <3>1
  <2>2. QED
    BY <1>3, <1>13, <1>15, <1>16, <1>17, <2>1, OnScreenIs
<1>19. mouse_y' = OnScreen(mouse_y - Rounded(m.dy), Height)
  <2>1. mouse_y - Rounded(m.dy) \in Int
    <3>1. Rounded(m.dy) \in Int
      BY <1>16, <1>17
    <3>2. QED
      BY <1>3, <3>1
  <2>2. QED
    BY <1>3, <1>13, <1>15, <1>16, <1>17, <2>1, OnScreenIs
<1>20. mouse.id # 3 => back' = back
  BY <1>8, <1>13 DEF Wheeled
<1>21. ASSUME mouse.id = 3
       PROVE  back' = OnScreen(back - (IF m.dz > 0 THEN 1 ELSE IF m.dz < 0 THEN -1 ELSE 0), Lines + 1)
  <2> DEFINE to == back - (IF m.dz > 0 THEN 1 ELSE IF m.dz < 0 THEN -1 ELSE 0)
  <2>1. to \in Int /\ Lines + 1 \in Nat \ {0}
    BY <1>3, <1>15
  <2>2. back' = Clamp(to, Lines + 1)
    BY <1>8, <1>13, <1>15, <1>21, WheelIs DEF IInv
  <2> HIDE DEF to
  <2>3. back' = OnScreen(to, Lines + 1)
    BY <2>1, <2>2, OnScreenIs
  <2>4. QED
    BY <2>3 DEF to
<1>22. QED
  BY <1>11, <1>18, <1>19, <1>20, <1>21


-----------------------------------------------------------------------------
(* Theorems                                                                *)

\* Whatever bytes arrive, lost, mixed up or not, the pointer stays on the screen,
\* where the handler writes an attribute byte, and the packet inside its array
\* (TypeOK).
THEOREM TypeCorrect == Spec => []TypeOK
<1>1. IInv => TypeOK
  BY DEF IInv
<1>2. QED
  BY <1>1, Invariance, PTL

\* The pointer's background is on its own cell or nowhere, although other threads
\* draw over it and the wheel repaints the screen (OnePointer).
THEOREM PointerIsOne == Spec => []OnePointer
<1>1. IInv => OnePointer
  BY DEF IInv
<1>2. QED
  BY <1>1, Invariance, PTL

\* While every byte reaches the one it is for, the driver and the mouse agree on
\* the packet's length, whatever the mouse and whatever it reports, and the next
\* byte is the one the driver takes it for (InStep).
THEOREM StaysInStep == Spec => []InStep
<1>1. IInv /\ StepInv => InStep
  <2> SUFFICES ASSUME IInv, StepInv, Running, ~mixed PROVE InStep
    BY DEF InStep
  <2> DEFINE n == Len(mouse_byte)
  <2>1. step \in Nat /\ step > 22 /\ n \in Nat /\ queue \in Seq(Bytes)
    <3>1. mouse_byte \in Seq(0 .. 255) /\ queue \in Seq(Bytes)
      BY DEF IInv, TypeOK, QueueOK
    <3>2. QED
      BY <3>1, RunningIs
  <2>2. mouse.model # "none" => mouse_has_wheel = (IF mouse.id = 3 THEN 1 ELSE 0)
    BY <2>1 DEF StepInv, Reached
  <2>3. CASE ~Held /\ queue = <<>> /\ mouse_byte = <<>>
    <3>1. Coming = <<>> /\ mouse_cycle = 0
      BY <2>3 DEF Coming, Held, mouse_cycle
    <3>2. QED
      BY <2>2, <3>1 DEF InStep
  <2>4. ASSUME NEW m \in Packets, Inside(m) PROVE InStep
    <3>1. /\ Len(PacketOf(m)) \in Nat
          /\ \A i \in 1 .. Len(PacketOf(m)) : PacketOf(m)[i].kind = Position[i]
      BY PacketAt DEF IInv
    <3>2. n < Len(PacketOf(m)) /\ n + 1 \in 1 .. Len(PacketOf(m))
      BY <2>1, <2>4, <3>1 DEF Inside
    <3>3. CASE ~Held
      <4>1. Coming = <<>> \o queue
        BY <3>3 DEF Coming, Held
      <4>2. Coming = queue
        BY <2>1, <4>1
      <4>3. queue # <<>> /\ Head(queue) = PacketOf(m)[n + 1]
        <5>1. Len(queue) = Len(PacketOf(m)) - n /\ \A i \in 1 .. Len(queue) : queue[i] = PacketOf(m)[n + i]
          BY <2>4, <3>3 DEF Inside, Rest
        <5>2. Len(queue) >= 1
          BY <2>1, <3>1, <3>2, <5>1
        <5>3. queue[1] = PacketOf(m)[n + 1] /\ queue # <<>>
          BY <2>1, <5>1, <5>2
        <5>4. QED
          BY <2>1, <5>3
      <4>4. QED
        BY <2>2, <3>1, <3>2, <4>2, <4>3 DEF InStep, mouse_cycle
    <3>4. CASE Held
      <4>1. Coming = <<obf>> \o queue
        BY <3>4 DEF Coming, Held
      <4>2. obf \in Bytes
        BY <3>4 DEF Held, IInv, TypeOK
      <4>3. Coming # <<>> /\ Head(Coming) = obf
        BY <2>1, <4>1, <4>2
      <4>4. obf = PacketOf(m)[n + 1]
        BY <2>4, <3>4 DEF Inside
      <4>5. QED
        BY <2>2, <3>1, <3>2, <4>3, <4>4 DEF InStep, mouse_cycle
    <3>5. QED
      BY <3>3, <3>4
  <2>5. QED
    BY <2>3, <2>4 DEF StepInv, Aligned
<1>2. QED
  BY <1>1, StepInvariance, PTL

\* In step, whatever the mouse reports, a completed packet moves the pointer by half
\* of what the mouse moved, as far as the screen goes, and the view by a line when
\* the wheel turned (FollowsMouse).
THEOREM PointerFollows == Spec => FollowsMouse
<1>1. IInv /\ StepInv /\ [Next]_vars => [Follows]_vars
  <2> SUFFICES ASSUME IInv, StepInv, Next PROVE Follows \/ UNCHANGED vars
    OBVIOUS
  <2>1. CASE Irq12
    BY <2>1, FollowsStep
  <2>2. CASE ~Irq12
    <3>1. UNCHANGED mouse_byte
      BY <2>2 DEF Next, init_mouse, InitWrite, InitRead,
                  InitGivesUp, ReadAs, Irq1, Devices, Deliver, Lose, KeyStruck,
                  Report, DrawnOver, driver
    <3>2. QED
      BY <3>1 DEF Follows, mouse_cycle
  <2>3. QED
    BY <2>1, <2>2
<1>2. QED
  BY <1>1, StepInvariance, PTL DEF Spec, FollowsMouse
=============================================================================
