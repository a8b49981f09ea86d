--------------------------- MODULE KeyboardProofs ---------------------------
(***************************************************************************)
(* Theorems about Keyboard, for every ring size of at least two slots and  *)
(* every set of keys.                                                      *)
(***************************************************************************)
EXTENDS Keyboard, TLAPS

\* A pending slot: the reader will get to it before the interrupt reuses it.
InRing(i) ==
  IF kb_tail <= kb_head THEN kb_tail <= i /\ i < kb_head
                        ELSE kb_tail <= i \/ i < kb_head

\* Pending slots hold characters.
PendingChars == \A i \in Slots : InRing(i) => kb_buf[i] # NoChar

IInv == TypeOK /\ PendingChars /\ ConsumesWhatItRead

LEMMA SuccIs ==
  ASSUME NEW i \in Slots
  PROVE  /\ Succ(i) \in Slots
         /\ Succ(i) = (IF i + 1 = KB_BUF_SIZE THEN 0 ELSE i + 1)
         /\ Succ(i) # i
BY KeyboardAssumption DEF Succ, Slots

LEMMA NoCharIsNone == NoChar \notin Chars
BY KeyboardAssumption DEF Chars

LEMMA InvInit == Init => IInv
<1> SUFFICES ASSUME Init PROVE IInv
  OBVIOUS
<1>1. 0 \in Slots
  BY KeyboardAssumption DEF Slots
<1>2. TypeOK
  BY <1>1 DEF Init, TypeOK
<1>3. PendingChars
  <2>1. \A i \in Slots : ~InRing(i)
    BY DEF Init, InRing, Slots
  <2>2. QED
    BY <2>1 DEF PendingChars
<1>4. ConsumesWhatItRead
  BY DEF Init, ConsumesWhatItRead
<1>5. QED
  BY <1>2, <1>3, <1>4 DEF IInv

\* The interrupt: it writes at kb_head only, and never when that is the slot
\* before the tail.
LEMMA KeyDownInv ==
  ASSUME IInv, NEW k \in Keys, KeyDown(k) PROVE IInv'
<1>1. CASE Succ(kb_head) # kb_tail
  <2>1. /\ kb_buf' = [kb_buf EXCEPT ![kb_head] = <<k, shift_pressed>>]
        /\ kb_head' = Succ(kb_head)
        /\ UNCHANGED <<kb_tail, shift_pressed, held, pc, got>>
    BY <1>1 DEF KeyDown, Enqueued
  <2>2. <<k, shift_pressed>> \in Chars /\ lost' \in BOOLEAN
    BY DEF KeyDown, IInv, TypeOK, Chars
  <2>3. TypeOK'
    BY <2>1, <2>2, SuccIs DEF IInv, TypeOK
  <2>4. PendingChars'
    <3>1. SUFFICES ASSUME NEW i \in Slots, InRing(i)', i # kb_head
                   PROVE  kb_buf[i] # NoChar
      BY <2>1, <2>2, NoCharIsNone DEF PendingChars, IInv, TypeOK
    <3>2. InRing(i)
      BY <1>1, <2>1, <3>1, SuccIs, KeyboardAssumption, SMTT(30)
      DEF IInv, TypeOK, InRing, Slots
    <3>3. QED
      BY <3>2 DEF IInv, PendingChars
  <2>5. ConsumesWhatItRead'
    BY <1>1, <2>1 DEF IInv, TypeOK, ConsumesWhatItRead
  <2>6. QED
    BY <2>3, <2>4, <2>5 DEF IInv
<1>2. CASE Succ(kb_head) = kb_tail
  BY <1>2 DEF KeyDown, Enqueued, IInv, TypeOK, PendingChars, InRing,
    ConsumesWhatItRead
<1>3. QED
  BY <1>1, <1>2

LEMMA InvStep == IInv /\ [Next]_vars => IInv'
<1> SUFFICES ASSUME IInv, [Next]_vars PROVE IInv'
  OBVIOUS
<1>1. ASSUME NEW k \in ShiftKeys, ShiftDown(k) \/ ShiftUp(k) PROVE IInv'
  BY <1>1 DEF ShiftDown, ShiftUp, ring, IInv, TypeOK, PendingChars, InRing,
    ConsumesWhatItRead
<1>2. ASSUME NEW k \in Keys, KeyDown(k) PROVE IInv'
  BY <1>2, KeyDownInv
<1>3. CASE Poll \/ Clear
  <2>1. CASE Poll
    BY <2>1 DEF Poll, ring, IInv, TypeOK, PendingChars, InRing, ConsumesWhatItRead
  <2>2. CASE Clear
    BY <2>2 DEF Clear, ring, IInv, TypeOK, PendingChars, InRing, ConsumesWhatItRead
  <2>3. QED
    BY <1>3, <2>1, <2>2
<1>4. CASE Peek
  <2>1. kb_buf[kb_tail] # NoChar /\ kb_buf[kb_tail] \in Chars
    BY <1>4 DEF Peek, IInv, TypeOK, PendingChars, InRing, ConsumesWhatItRead, Slots
  <2>2. QED
    BY <1>4, <2>1 DEF Peek, ring, IInv, TypeOK, PendingChars, InRing,
      ConsumesWhatItRead
<1>5. CASE Pop
  <2>1. \A i \in Slots : InRing(i)' => InRing(i)
    BY <1>5, SuccIs, KeyboardAssumption, SMTT(30)
    DEF Pop, IInv, TypeOK, InRing, ConsumesWhatItRead, Slots
  <2>2. QED
    BY <1>5, <2>1, SuccIs DEF Pop, IInv, TypeOK, PendingChars, ConsumesWhatItRead
<1>6. CASE UNCHANGED vars
  BY <1>6 DEF vars, IInv, TypeOK, PendingChars, InRing, ConsumesWhatItRead
<1>7. QED
  BY <1>1, <1>2, <1>3, <1>4, <1>5, <1>6 DEF Next, Interrupt, Reader

LEMMA Inductive == Spec => []IInv
BY InvInit, InvStep, PTL DEF Spec

\* Every variable keeps its type (TypeOK).
THEOREM TypeCorrect == Spec => []TypeOK
BY Inductive, PTL DEF IInv

\* clear_last_char removes exactly the character get_last_char returned
\* (ConsumesWhatItRead), whatever interrupts come between.
THEOREM ReadThenRemove == Spec => []ConsumesWhatItRead
BY Inductive, PTL DEF IInv

\* The flag of the two shift keys is never left up (ShiftNotStuck): whoever is
\* released last lowers it, whatever was pressed, held or repeated before.
THEOREM ShiftComesUp == Spec => []ShiftNotStuck
<1>1. Init => ShiftNotStuck
  BY DEF Init, ShiftNotStuck
<1>2. ShiftNotStuck /\ [Next]_vars => ShiftNotStuck'
  <2> SUFFICES ASSUME ShiftNotStuck, [Next]_vars PROVE ShiftNotStuck'
    OBVIOUS
  <2>1. ASSUME NEW k \in ShiftKeys, ShiftDown(k) \/ ShiftUp(k) PROVE ShiftNotStuck'
    BY <2>1 DEF ShiftDown, ShiftUp, ShiftNotStuck
  <2>2. ASSUME UNCHANGED <<held, shift_pressed>> PROVE ShiftNotStuck'
    BY <2>2 DEF ShiftNotStuck
  <2>3. QED
    BY <2>1, <2>2 DEF Next, Interrupt, Reader, KeyDown, Poll, Peek, Clear, Pop, ring, vars
<1>3. QED
  BY <1>1, <1>2, PTL DEF Spec

-----------------------------------------------------------------------------
(* The ring is a queue                                                     *)

LEMMA ModIs ==
  ASSUME NEW N \in Nat \ {0}, NEW a \in Int, -N < a, a < 2 * N
  PROVE  a % N = IF a < 0 THEN a + N ELSE IF a < N THEN a ELSE a - N
<1>1. CASE a < 0
  BY <1>1
<1>2. CASE 0 <= a /\ a < N
  BY <1>2
<1>3. CASE N <= a
  BY <1>3
<1>4. QED
  BY <1>1, <1>2, <1>3

\* How many characters a ring with its head at h and its tail at t holds, the
\* slot of the i-th, and the characters
CountOf(h, t) == (h - t) % KB_BUF_SIZE
Place(t, i) == (t + i - 1) % KB_BUF_SIZE
Content(buf, h, t) == [i \in 1 .. CountOf(h, t) |-> buf[Place(t, i)]]

LEMMA CountIs ==
  ASSUME NEW h \in Slots, NEW t \in Slots
  PROVE  /\ CountOf(h, t) = IF t <= h THEN h - t ELSE h - t + KB_BUF_SIZE
         /\ CountOf(h, t) \in 0 .. KB_BUF_SIZE - 1
<1> DEFINE d == h - t
<1>1. /\ KB_BUF_SIZE \in Nat \ {0} /\ d \in Int /\ h \in Int /\ t \in Int
      /\ -KB_BUF_SIZE < d /\ d < KB_BUF_SIZE /\ d < 2 * KB_BUF_SIZE
  BY KeyboardAssumption DEF Slots
<1>2. CountOf(h, t) = d % KB_BUF_SIZE /\ (d < 0 <=> ~(t <= h))
  BY <1>1 DEF CountOf
<1> HIDE DEF d
<1>3. d % KB_BUF_SIZE = IF d < 0 THEN d + KB_BUF_SIZE ELSE IF d < KB_BUF_SIZE THEN d ELSE d - KB_BUF_SIZE
  BY <1>1, ModIs
<1>4. QED
  BY <1>1, <1>2, <1>3 DEF d

LEMMA PlaceIs ==
  ASSUME NEW t \in Slots, NEW i \in 1 .. KB_BUF_SIZE
  PROVE  /\ Place(t, i) = IF t + i - 1 < KB_BUF_SIZE THEN t + i - 1 ELSE t + i - 1 - KB_BUF_SIZE
         /\ Place(t, i) \in Slots
<1> DEFINE d == t + i - 1
<1>1. /\ KB_BUF_SIZE \in Nat \ {0} /\ d \in Int /\ -KB_BUF_SIZE < d
      /\ 0 <= d /\ d < 2 * KB_BUF_SIZE
  BY KeyboardAssumption DEF Slots
<1>2. Place(t, i) = d % KB_BUF_SIZE
  BY DEF Place
<1> HIDE DEF d
<1>3. d % KB_BUF_SIZE = IF d < 0 THEN d + KB_BUF_SIZE ELSE IF d < KB_BUF_SIZE THEN d ELSE d - KB_BUF_SIZE
  BY <1>1, ModIs
<1>4. Place(t, i) = (IF d < KB_BUF_SIZE THEN d ELSE d - KB_BUF_SIZE) /\ Place(t, i) \in 0 .. KB_BUF_SIZE - 1
  BY <1>1, <1>2, <1>3
<1>5. QED
  BY <1>1, <1>4 DEF d, Slots

\* What Content computes: the characters from the tail to the head, in order.
IsContent(S, buf, h, t) ==
  /\ Content(buf, h, t) \in Seq(S)
  /\ Len(Content(buf, h, t)) = CountOf(h, t)
  /\ \A i \in 1 .. CountOf(h, t) : Content(buf, h, t)[i] = buf[Place(t, i)]

\* Content is that sequence for every ring and every two places in it.
LEMMA ContentIs ==
  ASSUME NEW S, NEW buf \in [Slots -> S], NEW h \in Slots, NEW t \in Slots
  PROVE  IsContent(S, buf, h, t)
<1>1. CountOf(h, t) \in Nat /\ CountOf(h, t) < KB_BUF_SIZE /\ KB_BUF_SIZE \in Nat
  BY CountIs, KeyboardAssumption
<1>2. \A i \in 1 .. CountOf(h, t) : Place(t, i) \in Slots
  BY <1>1, PlaceIs
<1>3. Content(buf, h, t) \in [1 .. CountOf(h, t) -> S]
  BY <1>2 DEF Content
<1>4. QED
  BY <1>1, <1>3 DEF Content, IsContent

\* Two sequences that agree are equal.
LEMMA SeqEq ==
  ASSUME NEW S, NEW s \in Seq(S), NEW t \in Seq(S), Len(s) = Len(t),
         \A i \in 1 .. Len(s) : s[i] = t[i]
  PROVE  s = t
OBVIOUS

\* Writing at the head, unless it is the slot before the tail, appends.
LEMMA WriteAppends ==
  ASSUME NEW S, NEW buf \in [Slots -> S], NEW h \in Slots, NEW t \in Slots,
         NEW c \in S, Succ(h) # t
  PROVE  /\ Content([buf EXCEPT ![h] = c], Succ(h), t) = Append(Content(buf, h, t), c)
         /\ Len(Content(buf, h, t)) < KB_BUF_SIZE - 1
<1> DEFINE new == [buf EXCEPT ![h] = c]
<1> DEFINE n == CountOf(h, t)
<1>1. /\ Succ(h) \in Slots /\ Succ(h) = (IF h + 1 = KB_BUF_SIZE THEN 0 ELSE h + 1)
      /\ KB_BUF_SIZE \in Nat \ {0, 1} /\ h \in Nat /\ t \in Nat
      /\ h < KB_BUF_SIZE /\ t < KB_BUF_SIZE
  BY SuccIs, KeyboardAssumption DEF Slots
<1>2. n \in Nat /\ CountOf(Succ(h), t) = n + 1 /\ n < KB_BUF_SIZE - 1
  BY <1>1, CountIs
<1>3. Place(t, n + 1) = h
  <2>1. n + 1 \in 1 .. KB_BUF_SIZE
    BY <1>1, <1>2
  <2>2. Place(t, n + 1) = IF t + n < KB_BUF_SIZE THEN t + n ELSE t + n - KB_BUF_SIZE
    BY <1>1, <1>2, <2>1, PlaceIs
  <2>3. n = IF t <= h THEN h - t ELSE h - t + KB_BUF_SIZE
    BY CountIs
  <2>4. QED
    BY <1>1, <2>2, <2>3
<1>4. ASSUME NEW i \in 1 .. n PROVE Place(t, i) # h /\ Place(t, i) \in Slots
  <2>1. i \in 1 .. KB_BUF_SIZE
    BY <1>1, <1>2
  <2>2. /\ Place(t, i) = IF t + i - 1 < KB_BUF_SIZE THEN t + i - 1 ELSE t + i - 1 - KB_BUF_SIZE
        /\ Place(t, i) \in Slots
    BY <2>1, PlaceIs
  <2>3. n = IF t <= h THEN h - t ELSE h - t + KB_BUF_SIZE
    BY CountIs
  <2>4. QED
    BY <1>1, <2>2, <2>3
<1>5. new \in [Slots -> S] /\ new[h] = c /\ \A j \in Slots : j # h => new[j] = buf[j]
  OBVIOUS
<1> HIDE DEF new, n
<1>6. /\ Content(buf, h, t) \in Seq(S) /\ Len(Content(buf, h, t)) = n
      /\ \A i \in 1 .. n : Content(buf, h, t)[i] = buf[Place(t, i)]
  BY ContentIs DEF IsContent, n
<1>7. /\ Content(new, Succ(h), t) \in Seq(S) /\ Len(Content(new, Succ(h), t)) = n + 1
      /\ \A i \in 1 .. n + 1 : Content(new, Succ(h), t)[i] = new[Place(t, i)]
  <2>1. PICK k \in Slots : k = Succ(h)
    BY <1>1
  <2>2. new \in [Slots -> S]
    BY <1>5
  <2>3. /\ Content(new, k, t) \in Seq(S) /\ Len(Content(new, k, t)) = CountOf(k, t)
        /\ \A i \in 1 .. CountOf(k, t) : Content(new, k, t)[i] = new[Place(t, i)]
    <3>1. IsContent(S, new, k, t)
      BY <2>2, ContentIs
    <3>2. QED
      BY <3>1 DEF IsContent
  <2>4. QED
    BY <1>2, <2>1, <2>3
<1>8. \A i \in 1 .. n + 1 :
        Content(new, Succ(h), t)[i] = Append(Content(buf, h, t), c)[i]
  <2>1. ASSUME NEW i \in 1 .. n
        PROVE  Content(new, Succ(h), t)[i] = Append(Content(buf, h, t), c)[i]
    BY <1>2, <1>4, <1>5, <1>6, <1>7
  <2>2. Content(new, Succ(h), t)[n + 1] = c /\ Append(Content(buf, h, t), c)[n + 1] = c
    BY <1>2, <1>3, <1>5, <1>6, <1>7
  <2>3. \A i \in 1 .. n + 1 : i \in 1 .. n \/ i = n + 1
    BY <1>2
  <2>4. QED
    BY <2>1, <2>2, <2>3
<1>9. Append(Content(buf, h, t), c) \in Seq(S) /\ Len(Append(Content(buf, h, t), c)) = n + 1
  BY <1>6
<1>10. Content(new, Succ(h), t) = Append(Content(buf, h, t), c)
  BY <1>7, <1>8, <1>9, SeqEq
<1>11. QED
  BY <1>2, <1>6, <1>10 DEF new

\* A ring with no free slot but the one before the tail is full.
LEMMA FullHolds ==
  ASSUME NEW S, NEW buf \in [Slots -> S], NEW h \in Slots, NEW t \in Slots, Succ(h) = t
  PROVE  Len(Content(buf, h, t)) = KB_BUF_SIZE - 1
<1>1. CountOf(h, t) = KB_BUF_SIZE - 1
  <2>1. CountOf(h, t) = IF t <= h THEN h - t ELSE h - t + KB_BUF_SIZE
    BY CountIs
  <2>2. t = IF h + 1 = KB_BUF_SIZE THEN 0 ELSE h + 1
    BY SuccIs
  <2>3. QED
    BY <2>1, <2>2, KeyboardAssumption DEF Slots
<1>2. IsContent(S, buf, h, t)
  BY ContentIs
<1>3. QED
  BY <1>1, <1>2 DEF IsContent

\* Moving the tail of a ring that is not empty takes the first character off.
LEMMA MoveTakes ==
  ASSUME NEW S, NEW buf \in [Slots -> S], NEW h \in Slots, NEW t \in Slots, t # h
  PROVE  /\ Content(buf, h, t) # <<>>
         /\ Content(buf, h, Succ(t)) = Tail(Content(buf, h, t))
<1> DEFINE n == CountOf(h, t)
<1>1. /\ Succ(t) \in Slots /\ Succ(t) = (IF t + 1 = KB_BUF_SIZE THEN 0 ELSE t + 1)
      /\ KB_BUF_SIZE \in Nat \ {0, 1} /\ h \in Nat /\ t \in Nat
      /\ h < KB_BUF_SIZE /\ t < KB_BUF_SIZE
  BY SuccIs, KeyboardAssumption DEF Slots
<1>2. n \in Nat /\ n > 0 /\ n < KB_BUF_SIZE /\ CountOf(h, Succ(t)) = n - 1
  BY <1>1, CountIs
<1>3. ASSUME NEW i \in 1 .. n - 1 PROVE Place(Succ(t), i) = Place(t, i + 1)
  <2>1. i \in 1 .. KB_BUF_SIZE /\ i + 1 \in 1 .. KB_BUF_SIZE
    BY <1>1, <1>2
  <2>2. Place(Succ(t), i) = IF Succ(t) + i - 1 < KB_BUF_SIZE THEN Succ(t) + i - 1
                            ELSE Succ(t) + i - 1 - KB_BUF_SIZE
    BY <1>1, <2>1, PlaceIs
  <2>3. Place(t, i + 1) = IF t + i < KB_BUF_SIZE THEN t + i ELSE t + i - KB_BUF_SIZE
    BY <1>1, <2>1, PlaceIs
  <2>4. QED
    BY <1>1, <1>2, <2>1, <2>2, <2>3
<1> HIDE DEF n
<1>4. /\ Content(buf, h, t) \in Seq(S) /\ Len(Content(buf, h, t)) = n
      /\ \A i \in 1 .. n : Content(buf, h, t)[i] = buf[Place(t, i)]
  BY ContentIs DEF IsContent, n
<1>5. /\ Content(buf, h, Succ(t)) \in Seq(S) /\ Len(Content(buf, h, Succ(t))) = n - 1
      /\ \A i \in 1 .. n - 1 : Content(buf, h, Succ(t))[i] = buf[Place(Succ(t), i)]
  <2>1. PICK k \in Slots : k = Succ(t)
    BY <1>1
  <2>2. /\ Content(buf, h, k) \in Seq(S) /\ Len(Content(buf, h, k)) = CountOf(h, k)
        /\ \A i \in 1 .. CountOf(h, k) : Content(buf, h, k)[i] = buf[Place(k, i)]
    <3>1. IsContent(S, buf, h, k)
      BY ContentIs
    <3>2. QED
      BY <3>1 DEF IsContent
  <2>3. CountOf(h, k) = n - 1
    BY <1>2, <2>1
  <2>4. QED
    BY <2>1, <2>2, <2>3
<1>6. Content(buf, h, t) # <<>>
  BY <1>2, <1>4
<1>7. /\ Tail(Content(buf, h, t)) \in Seq(S) /\ Len(Tail(Content(buf, h, t))) = n - 1
      /\ \A i \in 1 .. n - 1 : Tail(Content(buf, h, t))[i] = Content(buf, h, t)[i + 1]
  BY <1>2, <1>4, <1>6
<1>8. \A i \in 1 .. n - 1 : Content(buf, h, Succ(t))[i] = Tail(Content(buf, h, t))[i]
  BY <1>2, <1>3, <1>4, <1>5, <1>7
<1>9. QED
  BY <1>5, <1>6, <1>7, <1>8, SeqEq

\* The ring is the bounded queue of module CharQueue (ImplementsQueue): what is
\* pending leaves in the order it came, whole, and a character is dropped only
\* while KB_BUF_SIZE - 1 are pending.
THEOREM Refinement == Spec => ImplementsQueue
<1>1. Init => Queue!Init
  <2> SUFFICES ASSUME Init PROVE Pending = <<>>
    BY DEF Init, Queue!Init
  <2>1. kb_head = 0 /\ kb_tail = 0 /\ KB_BUF_SIZE \in Nat \ {0} /\ 0 \in Slots
    BY KeyboardAssumption DEF Init, Slots
  <2>2. CountOf(kb_head, kb_tail) = 0
    BY <2>1, CountIs
  <2>3. QED
    BY <2>2 DEF Pending, CountOf
<1>2. IInv /\ [Next]_vars => [Queue!Next]_<<Pending, lost>>
  <2> SUFFICES ASSUME IInv, [Next]_vars, <<Pending, lost>>' # <<Pending, lost>>
               PROVE  Queue!Next
    OBVIOUS
  <2>1. /\ Pending = Content(kb_buf, kb_head, kb_tail)
        /\ Pending' = Content(kb_buf', kb_head', kb_tail')
    BY DEF Pending, Content, CountOf, Place
  <2>2. kb_buf \in [Slots -> Chars \cup {NoChar}] /\ kb_head \in Slots /\ kb_tail \in Slots
    BY DEF IInv, TypeOK
  <2>3. ASSUME NEW k \in Keys, KeyDown(k) PROVE Queue!Next
    <3> DEFINE c == <<k, shift_pressed>>
    <3>0. CASE Succ(kb_head) = kb_tail
      <4>1. UNCHANGED ring /\ lost' = ~lost
        BY <2>3, <3>0 DEF KeyDown, Enqueued, ring
      <4>2. Pending' = Pending
        BY <2>1, <4>1 DEF ring
      <4>3. Len(Pending) = KB_BUF_SIZE - 1
        BY <2>1, <2>2, <3>0, FullHolds
      <4>4. QED
        BY <4>1, <4>2, <4>3 DEF Queue!Next, Queue!Drop
    <3> SUFFICES ASSUME Succ(kb_head) # kb_tail PROVE Queue!Next
      BY <3>0
    <3>1. /\ Succ(kb_head) # kb_tail /\ kb_buf' = [kb_buf EXCEPT ![kb_head] = c]
          /\ kb_head' = Succ(kb_head) /\ kb_tail' = kb_tail /\ lost' = lost
      BY <2>2, <2>3, SuccIs DEF KeyDown, Enqueued
    <3>2. c \in Chars
      BY DEF IInv, TypeOK, Chars
    <3> DEFINE S == Chars \cup {NoChar}
    <3> c \in S /\ kb_buf \in [Slots -> S]
      BY <2>2, <3>2
    <3> HIDE DEF c, S
    <3>3. Pending' = Content([kb_buf EXCEPT ![kb_head] = c], Succ(kb_head), kb_tail)
      BY <2>1, <3>1
    <3>4. /\ Content([kb_buf EXCEPT ![kb_head] = c], Succ(kb_head), kb_tail)
               = Append(Content(kb_buf, kb_head, kb_tail), c)
          /\ Len(Content(kb_buf, kb_head, kb_tail)) < KB_BUF_SIZE - 1
      <4>1. Succ(kb_head) # kb_tail
        BY <3>1
      <4>2. QED
        BY <2>2, <4>1, WriteAppends
    <3>5. Pending' = Append(Pending, c) /\ Len(Pending) < KB_BUF_SIZE - 1
      BY <2>1, <3>3, <3>4
    <3>6. QED
      BY <3>1, <3>2, <3>5 DEF Queue!Next, Queue!Put
  <2>4. CASE Pop
    <3>1. /\ kb_tail # kb_head /\ kb_tail' = Succ(kb_tail)
          /\ kb_buf' = kb_buf /\ kb_head' = kb_head /\ lost' = lost
      BY <2>4 DEF Pop, IInv, ConsumesWhatItRead
    <3>2. Pending # <<>> /\ Pending' = Tail(Pending)
      BY <2>1, <2>2, <3>1, MoveTakes
    <3>3. QED
      BY <3>1, <3>2 DEF Queue!Next, Queue!Get
  <2>5. ASSUME UNCHANGED <<ring, lost>> PROVE FALSE
    BY <2>1, <2>5 DEF ring
  <2>6. QED
    BY <2>3, <2>4, <2>5 DEF Next, Interrupt, Reader, ShiftDown, ShiftUp, Poll, Peek, Clear,
      ring, vars
<1>3. QED
  BY <1>1, <1>2, Inductive, PTL DEF Spec, ImplementsQueue, Queue!Spec
=============================================================================
