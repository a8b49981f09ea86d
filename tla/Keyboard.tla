------------------------------ MODULE Keyboard ------------------------------
(***************************************************************************)
(* The keyboard driver, src/drivers/keyboard.c, and the polling loop that  *)
(* every reader of the shell runs (src/shell/shell.c): get_last_char, then *)
(* clear_last_char if it returned a character.                             *)
(*                                                                         *)
(* keyboard_callback runs in an interrupt and is one step; the reader's    *)
(* loads and stores of the ring's indices are steps of their own.  A key   *)
(* with a character is named by a member of Keys and types <<key, shift>>; *)
(* every other scan code is one the tables or the tests ignore.            *)
(***************************************************************************)
EXTENDS Integers, Sequences

CONSTANTS
  KB_BUF_SIZE,  \* slots of the ring
  Keys,         \* keys with a character in the tables
  ShiftKeys,    \* the shift keys of the keyboard
  NoChar        \* the 0 of get_last_char and of an unused slot

ASSUME KeyboardAssumption ==
  /\ KB_BUF_SIZE \in Nat \ {0, 1}
  /\ NoChar \notin Keys \X BOOLEAN

VARIABLES
  kb_buf, kb_head, kb_tail, shift_pressed,
  held,   \* the shift keys held down (the hardware)
  pc,     \* the reader: "poll", "peek", "clear", "pop"
  got,    \* the character get_last_char returned
  lost    \* flips whenever a key's character does not enter the ring

ring == <<kb_buf, kb_head, kb_tail>>
vars == <<kb_buf, kb_head, kb_tail, shift_pressed, held, pc, got, lost>>

Slots == 0 .. KB_BUF_SIZE - 1
Chars == Keys \X BOOLEAN

Init ==
  /\ kb_buf = [i \in Slots |-> NoChar]
  /\ kb_head = 0 /\ kb_tail = 0
  /\ shift_pressed = FALSE
  /\ held = {}
  /\ pc = "poll"
  /\ got = NoChar
  /\ lost = FALSE

Succ(i) == (i + 1) % KB_BUF_SIZE

-----------------------------------------------------------------------------
(* keyboard_callback, one action per kind of scan code                     *)

\* A make code 0x2A or 0x36 (repeated while the key is held)
ShiftDown(k) ==
  /\ held' = held \cup {k}
  /\ shift_pressed' = TRUE
  /\ UNCHANGED <<ring, pc, got, lost>>

\* A break code 0xAA or 0xB6
ShiftUp(k) ==
  /\ k \in held
  /\ held' = held \ {k}
  /\ shift_pressed' = FALSE
  /\ UNCHANGED <<ring, pc, got, lost>>

\* Mutant: a slot too many is kept free.
EnqueuedEarly(c) ==
  IF Succ(Succ(kb_head)) # kb_tail
    THEN kb_buf' = [kb_buf EXCEPT ![kb_head] = c] /\ kb_head' = Succ(kb_head)
    ELSE UNCHANGED <<kb_buf, kb_head>>

\* Mutant: no test for a full ring.
EnqueuedAlways(c) ==
  kb_buf' = [kb_buf EXCEPT ![kb_head] = c] /\ kb_head' = Succ(kb_head)

\* The ring with c added, unless it is full: then c is dropped.
Enqueued(c) ==
  IF Succ(kb_head) # kb_tail
    THEN kb_buf' = [kb_buf EXCEPT ![kb_head] = c] /\ kb_head' = Succ(kb_head)
    ELSE UNCHANGED <<kb_buf, kb_head>>

\* The make code of a key that the tables map to a character; lost records
\* what became of the ring, whatever Enqueued did.
KeyDown(k) ==
  /\ Enqueued(<<k, shift_pressed>>)
  /\ lost' = IF kb_head' = kb_head THEN ~lost ELSE lost
  /\ UNCHANGED <<kb_tail, shift_pressed, held, pc, got>>

-----------------------------------------------------------------------------
(* The reader                                                              *)

\* get_last_char: the test for an empty ring
Poll ==
  /\ pc = "poll"
  /\ kb_tail # kb_head
  /\ pc' = "peek"
  /\ UNCHANGED <<ring, shift_pressed, held, got, lost>>

\* get_last_char: the character at the tail, left in the ring
Peek ==
  /\ pc = "peek"
  /\ got' = kb_buf[kb_tail]
  /\ pc' = "clear"
  /\ UNCHANGED <<ring, shift_pressed, held, lost>>

\* clear_last_char: the test
Clear ==
  /\ pc = "clear"
  /\ IF kb_tail # kb_head THEN pc' = "pop" /\ UNCHANGED got
                          ELSE pc' = "poll" /\ got' = NoChar
  /\ UNCHANGED <<ring, shift_pressed, held, lost>>

\* Mutant: the character is not consumed.
PopNothing ==
  /\ pc = "pop"
  /\ pc' = "poll" /\ got' = NoChar
  /\ UNCHANGED <<ring, shift_pressed, held, lost>>

\* clear_last_char: the store
Pop ==
  /\ pc = "pop"
  /\ kb_tail' = Succ(kb_tail)
  /\ pc' = "poll" /\ got' = NoChar
  /\ UNCHANGED <<kb_buf, kb_head, shift_pressed, held, lost>>

-----------------------------------------------------------------------------
Interrupt == \/ \E k \in ShiftKeys : ShiftDown(k) \/ ShiftUp(k)
             \/ \E k \in Keys : KeyDown(k)

Reader == Poll \/ Peek \/ Clear \/ Pop

Next == Interrupt \/ Reader

Spec == Init /\ [][Next]_vars

\* The shell's loop polls without waiting ("pause").
FairSpec == Spec /\ WF_vars(Reader)

-----------------------------------------------------------------------------
(* Properties                                                              *)

\* Every variable keeps its type.
TypeOK ==
  /\ kb_buf \in [Slots -> Chars \cup {NoChar}]
  /\ kb_head \in Slots /\ kb_tail \in Slots
  /\ shift_pressed \in BOOLEAN
  /\ held \subseteq ShiftKeys
  /\ pc \in {"poll", "peek", "clear", "pop"}
  /\ got \in Chars \cup {NoChar}
  /\ lost \in BOOLEAN

\* What clear_last_char removes is what get_last_char returned, however many
\* interrupts came between: the ring is still not empty and its tail unchanged.
ConsumesWhatItRead ==
  /\ pc = "peek" => kb_tail # kb_head
  /\ pc \in {"clear", "pop"} => kb_tail # kb_head /\ kb_buf[kb_tail] = got /\ got # NoChar

\* The pending characters, oldest first
Pending ==
  [i \in 1 .. (kb_head - kb_tail) % KB_BUF_SIZE |->
     kb_buf[(kb_tail + i - 1) % KB_BUF_SIZE]]

\* The ring is a queue that holds KB_BUF_SIZE - 1 characters (module CharQueue):
\* in order, whole, and a character is dropped only while so many are pending.
Queue == INSTANCE CharQueue WITH queue <- Pending, Capacity <- KB_BUF_SIZE - 1
ImplementsQueue == Queue!Spec

\* What the comment on the ring says (keyboard.c:7-9): however busy the shell is,
\* no key's character is silently dropped.  The code drops one when the ring is
\* full (keyboard.c:74); run keyboard_drop shows it.
NeverDropped == [][UNCHANGED lost]_vars

\* With every shift key up the driver types unshifted characters.
ShiftNotStuck == held = {} => ~shift_pressed

\* A pending character is read: the tail moves on.
EventuallyRead ==
  \A i \in Slots : kb_tail = i /\ kb_head # i ~> kb_tail # i
=============================================================================
