------------------------------- MODULE Mouse -------------------------------
(***************************************************************************)
(* The PS/2 mouse driver, src/drivers/mouse.c, with what it shares the     *)
(* controller's one output register with: the keyboard, whose handler      *)
(* (src/drivers/keyboard.c) reads port 0x60 without asking whose byte it is.*)
(*                                                                         *)
(* init_mouse runs with interrupts off and polls; what the controller      *)
(* requests meanwhile stays latched in the PIC until kernel_main's sti.    *)
(* Then both handlers run with interrupts off, each in one step.  The      *)
(* controller and the two devices are external.                            *)
(***************************************************************************)
EXTENDS Integers, Sequences

CONSTANTS
  Width, Height,  \* 80 and 25
  KeyBytes,       \* the scan codes of the keys that may be struck
  Packets,        \* the movements the mouse may report: records dx, dy, dz
  ConfigByte,     \* the controller's configuration when the kernel starts
  Lines,          \* lines of history the wheel can reach
  None

\* What a byte of the port can be: a key, an answer or part of a packet
Kinds == {"key", "config", "ack", "id", "first", "second", "third", "fourth"}
Bytes == [kind : Kinds, val : 0 .. 255, of : Packets \cup {None}]

ASSUME MouseAssumption ==
  /\ Width \in Nat \ {0} /\ Height \in Nat \ {0} /\ Lines \in Nat
  /\ KeyBytes \subseteq 0 .. 255 /\ ConfigByte \in 0 .. 255
  /\ Packets \subseteq [dx : -256 .. 255, dy : -256 .. 255, dz : -8 .. 7]
  /\ None \notin Bytes

VARIABLES
  obf,      \* the output register: None or a byte
  last,     \* the byte init_mouse read last, which an empty register still shows
  queue,    \* answers and packets on their way to it
  irq,      \* the lines whose request is latched
  config,   \* the controller's configuration byte
  mouse,    \* the device: model, awaits (a parameter), rates, id, streaming
  step,     \* where init_mouse is in its script
  mouse_byte,  \* the bytes of the packet so far: what an earlier one left in the
               \* array is overwritten before it is read
  mouse_has_wheel, mouse_x, mouse_y,
  lit,      \* the cells with the pointer's background
  back,     \* the console's scroll_offset
  mixed     \* has a byte been lost, or read by whom it was not for?

driver == <<mouse_byte, mouse_has_wheel, mouse_x, mouse_y>>
screen == <<lit, back>>
vars == <<obf, last, queue, irq, config, mouse, step, driver, screen, mixed>>

Bit(v, b) == (v \div b) % 2 = 1

Write(v) == [op |-> "write", what |-> v]
Read(kind) == [op |-> "read", what |-> kind]
Command(v) == <<Write(v), Read("ack")>>
SampleRate(v) == Command(243) \o Command(v)

\* init_mouse as a sequence of port accesses.  0xA8 only switches the port on.
Script ==
  <<[op |-> "ask", what |-> 32], Read("config"), [op |-> "set", what |-> 96]>>
  \o Command(246) \o SampleRate(200) \o SampleRate(100) \o SampleRate(80)
  \o Command(242) \o <<Read("id")>> \o Command(244)

Running == step > Len(Script)

Init ==
  /\ obf = None /\ last = 0 /\ queue = <<>> /\ irq = {}
  /\ config = ConfigByte
  /\ mouse \in [model : {"none", "plain", "wheel"}, awaits : {FALSE}, rates : {<<>>},
                id : {0}, streaming : {FALSE}]
  /\ step = 1
  /\ mouse_byte = <<>> /\ mouse_has_wheel = 0
  /\ mouse_x = Width \div 2 /\ mouse_y = Height \div 2
  /\ lit = {} /\ back = 0
  /\ mixed = FALSE

-----------------------------------------------------------------------------
(* The controller and the devices                                          *)

\* A byte with what it is and, in a packet, the movement it reports
Byte(kind, val) == [kind |-> kind, val |-> val, of |-> None]
FromMouse(b) == b.kind \notin {"key", "config"}

\* A byte appears in the register, and its line is raised if it is enabled.
Appear(b) ==
  /\ obf = None /\ obf' = b
  /\ irq' = irq \cup (IF FromMouse(b) THEN {12} ELSE IF Bit(config, 1) THEN {1} ELSE {})

\* Bit 5 of the configuration keeps the mouse's bytes back.
HeldBack == queue # <<>> /\ FromMouse(Head(queue)) /\ Bit(config, 32)

Deliver ==
  /\ queue # <<>> /\ ~HeldBack
  /\ Appear(Head(queue)) /\ queue' = Tail(queue)
  /\ UNCHANGED <<last, config, mouse, step, driver, screen, mixed>>

\* Bound of the model: once something went wrong, nothing else does.  (While
\* init_mouse polls, a key is always read by whom it was not for.)
Undisturbed == ~mixed

KeyStruck(code) ==
  /\ Running \/ Undisturbed
  /\ ~Bit(config, 16) /\ Appear(Byte("key", code))
  /\ UNCHANGED <<last, queue, config, mouse, step, driver, screen, mixed>>

Position == <<"first", "second", "third", "fourth">>

\* The packet of a movement: signs in the first byte, a fourth byte on a wheel
\* mouse that has been asked for it.
PacketOf(m) ==
  LET bytes == <<8 + (IF m.dx < 0 THEN 16 ELSE 0) + (IF m.dy < 0 THEN 32 ELSE 0),
                 m.dx % 256, m.dy % 256, m.dz % 256>>
  IN  [i \in 1 .. (IF mouse.id = 3 THEN 4 ELSE 3) |-> [kind |-> Position[i], val |-> bytes[i], of |-> m]]

\* The mouse moves and reports it when its last report is through.
Report(m) ==
  /\ mouse.streaming /\ queue = <<>>
  /\ queue' = PacketOf(m)
  /\ UNCHANGED <<obf, last, irq, config, mouse, step, driver, screen, mixed>>

\* A byte of the mouse is lost on its wire.
Lose ==
  /\ Undisturbed
  /\ queue # <<>> /\ FromMouse(Head(queue)) /\ queue' = Tail(queue) /\ mixed' = TRUE
  /\ UNCHANGED <<obf, last, irq, config, mouse, step, driver, screen>>

\* The device takes a byte: a parameter, or a command.  The rates 200, 100, 80
\* turn a wheel mouse's fourth byte on.
Taken(v) ==
  IF mouse.awaits
    THEN LET rates == Append(mouse.rates, v)
         IN  [mouse EXCEPT !.awaits = FALSE, !.rates = rates,
                           !.id = IF mouse.model = "wheel" /\ rates = <<200, 100, 80>>
                                    THEN 3 ELSE @]
    ELSE [mouse EXCEPT !.awaits = (v = 243), !.streaming = @ \/ v = 244]

Answer(v) ==
  IF mouse.model = "none" THEN <<>>
  ELSE <<Byte("ack", 250)>>
       \o (IF v = 242 /\ ~mouse.awaits THEN <<Byte("id", mouse.id)>> ELSE <<>>)

-----------------------------------------------------------------------------
(* init_mouse                                                              *)

Now == Script[step]

\* A command to the controller or, after 0xD4, to the mouse
InitWrite ==
  /\ ~Running /\ Now.op # "read"
  /\ queue' = queue \o CASE Now.op = "ask" -> <<Byte("config", config)>>
                         [] Now.op = "write" -> Answer(Now.what)
                         [] OTHER -> <<>>
  /\ config' = IF Now.op = "set" THEN last + (IF Bit(last, 2) THEN 0 ELSE 2) ELSE config
  /\ mouse' = IF Now.op = "write" /\ mouse.model # "none" THEN Taken(Now.what) ELSE mouse
  /\ step' = step + 1
  /\ UNCHANGED <<obf, last, irq, driver, screen, mixed>>

\* port_byte_in(0x60) after mouse_wait(0): what the register shows, whoever sent it
ReadAs(val) ==
  /\ last' = val
  /\ mouse_has_wheel' = IF Now.what = "id" /\ val \in {3, 4} THEN 1 ELSE mouse_has_wheel
  /\ obf' = None /\ step' = step + 1
  /\ UNCHANGED <<queue, irq, config, mouse, mouse_byte, mouse_x, mouse_y, screen>>

InitRead ==
  /\ ~Running /\ Now.op = "read" /\ obf # None
  /\ ReadAs(obf.val) /\ mixed' = (mixed \/ obf.kind # Now.what)

\* Mutant: mouse_wait does not give up.
WaitForever == FALSE

\* mouse_wait(0) gives up after 100000 polls, whether or not an answer is on its way.
InitGivesUp ==
  /\ ~Running /\ Now.op = "read" /\ obf = None
  /\ ReadAs(last) /\ mixed' = (mixed \/ mouse.model # "none" \/ queue # <<>>)

-----------------------------------------------------------------------------
(* The handlers                                                            *)

\* keyboard_callback reads the register; what it types is module Keyboard's.
Irq1 ==
  /\ Running /\ 1 \in irq /\ irq' = irq \ {1}
  /\ obf' = None
  /\ mixed' = (mixed \/ (obf # None /\ FromMouse(obf)))
  /\ UNCHANGED <<last, queue, config, mouse, step, driver, screen>>

\* Mutant: the sign bits are taken for the other axis.
MovementSwapped(b) ==
  [dx |-> b[2] - (IF Bit(b[1], 32) THEN 256 ELSE 0),
   dy |-> b[3] - (IF Bit(b[1], 16) THEN 256 ELSE 0)]
Movement(b) ==
  [dx |-> b[2] - (IF Bit(b[1], 16) THEN 256 ELSE 0),
   dy |-> b[3] - (IF Bit(b[1], 32) THEN 256 ELSE 0)]

\* Division in C rounds toward zero.
Half(m) == IF m < 0 THEN -((-m) \div 2) ELSE m \div 2

\* Mutant: the lower and right edges are one cell too far.
ClampPast(v, size) == IF v < 0 THEN 0 ELSE IF v > size THEN size ELSE v
Clamp(v, size) == IF v < 0 THEN 0 ELSE IF v > size - 1 THEN size - 1 ELSE v

\* vga_scroll_down and vga_scroll_up, which redraw the screen if they scroll
Wheeled(b) ==
  IF mouse_has_wheel = 0 \/ b[4] = 0 THEN back
  ELSE IF b[4] < 128 THEN (IF back > 0 THEN back - 1 ELSE 0)
                     ELSE (IF back < Lines THEN back + 1 ELSE back)

\* Mutant: the old cell is looked up after the pointer moved.
PointerDrawnLate(b) ==
  /\ lit' = ((IF Wheeled(b) # back THEN {} ELSE lit) \ {<<mouse_x', mouse_y'>>})
            \cup {<<mouse_x', mouse_y'>>}
  /\ back' = Wheeled(b)

\* The old cell loses its background, the screen may be redrawn, the new gets it.
PointerDrawn(b) ==
  /\ lit' = (IF Wheeled(b) # back THEN {} ELSE lit \ {<<mouse_x, mouse_y>>})
            \cup {<<mouse_x', mouse_y'>>}
  /\ back' = Wheeled(b)

mouse_cycle == Len(mouse_byte)
PacketLength == IF mouse_has_wheel = 1 THEN 4 ELSE 3

\* The byte is stored; the last one of a packet moves the pointer.
Store(val) ==
  LET b == Append(mouse_byte, val)
      m == Movement(b)
  IN  IF Len(b) # PacketLength
        THEN mouse_byte' = b /\ UNCHANGED <<mouse_x, mouse_y, screen>>
        ELSE /\ mouse_byte' = <<>>
             /\ mouse_x' = Clamp(mouse_x + Half(m.dx), Width)
             /\ mouse_y' = Clamp(mouse_y - Half(m.dy), Height)
             /\ PointerDrawn(b)

\* Mutant: mouse_callback does not look whose byte it is.
ForAnyone == obf # None

\* Mutant: the bit is tested the wrong way round.
ForKeyboard == obf # None /\ ~FromMouse(obf)

\* Bit 5 of the status
ForMouse == obf # None /\ FromMouse(obf)

Irq12 ==
  /\ Running /\ 12 \in irq /\ irq' = irq \ {12}
  /\ IF ForMouse
       THEN obf' = None /\ Store(obf.val)
       ELSE UNCHANGED <<obf, mouse_byte, mouse_x, mouse_y, screen>>
  /\ UNCHANGED <<last, queue, config, mouse, step, mouse_has_wheel, mixed>>

\* Another thread draws over the cell (module Vga).
DrawnOver ==
  /\ lit # {} /\ lit' = {}
  /\ UNCHANGED <<obf, last, queue, irq, config, mouse, step, driver, back, mixed>>

-----------------------------------------------------------------------------
init_mouse == InitWrite \/ InitRead \/ InitGivesUp

Devices == \/ Deliver \/ Lose
           \/ \E code \in KeyBytes : KeyStruck(code)
           \/ \E m \in Packets : Report(m)

Next == init_mouse \/ Irq1 \/ Irq12 \/ Devices \/ DrawnOver

\* The processor takes interrupts and the controller delivers.  mouse_wait counts
\* its polls, so it ends even if what it waits for comes and is lost for ever.
Spec == /\ Init /\ [][Next]_vars
        /\ SF_vars(init_mouse) /\ WF_vars(Irq1) /\ WF_vars(Irq12) /\ WF_vars(Deliver)

-----------------------------------------------------------------------------
(* Properties                                                              *)

\* Every variable keeps its type; above all the pointer stays on the screen,
\* where the handler writes an attribute byte, and mouse_cycle inside the array,
\* whatever bytes arrive.
TypeOK ==
  /\ mouse_x \in 0 .. Width - 1 /\ mouse_y \in 0 .. Height - 1
  /\ mouse_byte \in Seq(0 .. 255) /\ Len(mouse_byte) < PacketLength
  /\ mouse_has_wheel \in {0, 1}
  /\ back \in 0 .. Lines
  /\ obf \in Bytes \cup {None}
  /\ last \in 0 .. 255 /\ config \in 0 .. 255
  /\ irq \subseteq {1, 12} /\ step \in 1 .. Len(Script) + 1
  /\ mixed \in BOOLEAN

\* The bytes still to come, a key's in the register aside
Coming == (IF obf # None /\ FromMouse(obf) THEN <<obf>> ELSE <<>>) \o queue

\* As long as every byte reached the one it was for, the driver is in step with
\* the mouse: they agree on the wheel and so on the packet's length, and the next
\* byte is the one the driver takes it for.  (A packet has no mark of its start:
\* out of step, the driver never recovers.)
InStep ==
  Running /\ ~mixed =>
    /\ mouse.model # "none" => mouse_has_wheel = (IF mouse.id = 3 THEN 1 ELSE 0)
    /\ IF Coming = <<>> THEN mouse_cycle = 0 ELSE Head(Coming).kind = Position[mouse_cycle + 1]

\* At most one cell is lit, and it is the pointer's.
OnePointer == lit \subseteq {<<mouse_x, mouse_y>>}

\* The whole number beside m / 2, on the side of zero
Rounded(m) == CHOOSE h \in -128 .. 127 : 2 * h \in IF m < 0 THEN {m, m + 1} ELSE {m, m - 1}
OnScreen(v, size) ==
  CHOOSE w \in 0 .. size - 1 : \A u \in 0 .. size - 1 : (w - v) * (w - v) <= (u - v) * (u - v)

\* In step, a completed packet moves the pointer by half of what the mouse moved,
\* as far as the screen goes, up when the mouse goes up, and the view by one line
\* when the wheel turned.
Follows ==
  mouse_cycle # 0 /\ mouse_cycle' = 0 /\ ~mixed =>
    LET m == obf.of
    IN  /\ mouse_x' = OnScreen(mouse_x + Rounded(m.dx), Width)
        /\ mouse_y' = OnScreen(mouse_y - Rounded(m.dy), Height)
        /\ back' = IF mouse.id # 3 THEN back
                   ELSE OnScreen(back - (IF m.dz > 0 THEN 1 ELSE IF m.dz < 0 THEN -1 ELSE 0),
                                 Lines + 1)
FollowsMouse == [][Follows]_vars

\* init_mouse ends, with or without a mouse, whatever keys are struck meanwhile.
InitEnds == <>Running

\* A byte in the register is taken out: neither handler leaves it to the other
\* for ever.  Keys need their interrupt enabled in the configuration byte, which
\* a key struck while init_mouse reads that byte can prevent.
PortDrains == Running /\ Bit(config, 1) /\ obf # None ~> obf = None
=============================================================================
