-------------------------- MODULE RingBuffer_proofs --------------------------
(***************************************************************************)
(* The ring buffer implements the bounded first-in first-out buffer, for   *)
(* every size and every interleaving of the producer and the consumer.     *)
(*                                                                         *)
(* The inductive invariant says what each side knows between its steps: a  *)
(* free slot once found stays free until the producer advances, and a byte *)
(* once found stays in place until the consumer advances.                  *)
(***************************************************************************)
EXTENDS RingBuffer, SequenceTheorems, TLAPS

IInv ==
  /\ TypeOK
  /\ putting # 0 => ~Full
  /\ putting = 2 => data[put_ptr] = byte
  /\ getting # 0 => ~Empty
  /\ getting = 2 => c = data[get_ptr]

(* Below twice the size, the remainder is at most one subtraction.         *)
LEMMA Wraps ==
  ASSUME NEW n \in Nat \ {0}, NEW a \in 0 .. 2 * n - 1
  PROVE  a % n = IF a < n THEN a ELSE a - n
OBVIOUS

LEMMA WrapsSize ==
  ASSUME NEW a \in 0 .. 2 * Size - 1
  PROVE  a % Size = IF a < Size THEN a ELSE a - Size
BY Wraps, RingAssumption

LEMMA FollowingValue ==
  ASSUME NEW ptr \in Slots
  PROVE  /\ Following(ptr) = IF ptr + 1 < Size THEN ptr + 1 ELSE 0
         /\ Following(ptr) \in Slots
<1>0. ptr \in Nat /\ ptr < Size /\ Size \in Nat
  BY RingAssumption DEF Slots
<1>1. PICK a \in 0 .. 2 * Size - 1 : a = ptr + 1
  BY <1>0
<1>2. a % Size = IF a < Size THEN a ELSE a - Size
  BY WrapsSize
<1>3. Following(ptr) = IF a < Size THEN a ELSE a - Size
  BY <1>1, <1>2 DEF Following
<1> QED
  BY <1>0, <1>1, <1>3 DEF Slots

(* The distance between two slots, as Elements computes it.                *)
Span(p, g) == (p + Size - g) % Size

LEMMA SpanValue ==
  ASSUME NEW p \in Slots, NEW g \in Slots
  PROVE  /\ Span(p, g) = IF p >= g THEN p - g ELSE p + Size - g
         /\ Span(p, g) \in 0 .. Size - 1
<1>0. /\ p \in Nat /\ g \in Nat /\ p < Size /\ g < Size
      /\ Size \in Nat
  BY RingAssumption DEF Slots
<1>1. PICK a \in 0 .. 2 * Size - 1 : a = p + Size - g
  BY <1>0
<1>2. a % Size = IF a < Size THEN a ELSE a - Size
  BY WrapsSize
<1>3. Span(p, g) = IF a < Size THEN a ELSE a - Size
  BY <1>1, <1>2 DEF Span
<1> QED
  BY <1>0, <1>1, <1>3

(* The slot of the i-th byte after g.                                      *)
SlotOf(g, i) == (g + i - 1) % Size

LEMMA SlotOfValue ==
  ASSUME NEW g \in Slots, NEW i \in 1 .. Size
  PROVE  /\ SlotOf(g, i) = IF g + i - 1 < Size THEN g + i - 1 ELSE g + i - 1 - Size
         /\ SlotOf(g, i) \in Slots
<1>0. g \in Nat /\ g < Size /\ i \in Nat /\ 1 <= i /\ i <= Size /\ Size \in Nat
  BY RingAssumption DEF Slots
<1>1. PICK a \in 0 .. 2 * Size - 1 : a = g + i - 1
  BY <1>0
<1>2. a % Size = IF a < Size THEN a ELSE a - Size
  BY WrapsSize
<1>3. SlotOf(g, i) = IF a < Size THEN a ELSE a - Size
  BY <1>1, <1>2 DEF SlotOf
<1> QED
  BY <1>0, <1>1, <1>3 DEF Slots

(* The bytes of the ring lie in other slots than put_ptr, which is next.   *)
LEMMA FreeSlot ==
  ASSUME NEW p \in Slots, NEW g \in Slots
  PROVE  /\ SlotOf(g, Span(p, g) + 1) = p
         /\ \A i \in 1 .. Span(p, g) : SlotOf(g, i) \in Slots /\ SlotOf(g, i) # p
<1>0. p \in Nat /\ g \in Nat /\ p < Size /\ g < Size /\ Size \in Nat
  BY RingAssumption DEF Slots
<1>1. SlotOf(g, Span(p, g) + 1) = p
  <2>1. Span(p, g) + 1 \in 1 .. Size
    BY SpanValue, RingAssumption
  <2>2. SlotOf(g, Span(p, g) + 1) =
          IF g + (Span(p, g) + 1) - 1 < Size
            THEN g + (Span(p, g) + 1) - 1 ELSE g + (Span(p, g) + 1) - 1 - Size
    BY <2>1, SlotOfValue
  <2> QED
    BY <1>0, <2>2, SpanValue
<1>2. ASSUME NEW i \in 1 .. Span(p, g)
      PROVE  SlotOf(g, i) \in Slots /\ SlotOf(g, i) # p
  <2>1. i \in 1 .. Size
    BY SpanValue, RingAssumption
  <2> QED
    BY SMTT(60), <1>0, <2>1, SlotOfValue, SpanValue
<1> QED
  BY <1>1, <1>2

(* One step of either pointer, while the ring is not full or not empty.    *)
LEMMA SpanAfterPut ==
  ASSUME NEW p \in Slots, NEW g \in Slots, Span(p, g) # Size - 1
  PROVE  Span(Following(p), g) = Span(p, g) + 1
<1>0. p \in Nat /\ g \in Nat /\ p < Size /\ g < Size /\ Size \in Nat
  BY RingAssumption DEF Slots
<1>1. Span(Following(p), g) = IF Following(p) >= g THEN Following(p) - g
                                                   ELSE Following(p) + Size - g
  BY FollowingValue, SpanValue
<1> QED
  BY <1>0, <1>1, FollowingValue, SpanValue

LEMMA SpanAfterGet ==
  ASSUME NEW p \in Slots, NEW g \in Slots, Span(p, g) # 0
  PROVE  Span(p, Following(g)) = Span(p, g) - 1
<1>0. p \in Nat /\ g \in Nat /\ p < Size /\ g < Size /\ Size \in Nat
  BY RingAssumption DEF Slots
<1>1. Span(p, Following(g)) = IF p >= Following(g) THEN p - Following(g)
                                                   ELSE p + Size - Following(g)
  BY FollowingValue, SpanValue
<1>2. Span(p, g) = IF p >= g THEN p - g ELSE p + Size - g
  BY SpanValue
<1>3. CASE g + 1 < Size
  <2>1. Following(g) = g + 1
    BY <1>3, FollowingValue
  <2> QED
    BY <1>0, <1>1, <1>2, <2>1
<1>4. CASE ~(g + 1 < Size)
  <2>1. Following(g) = 0 /\ g = Size - 1
    BY <1>0, <1>4, FollowingValue
  <2> QED
    BY <1>0, <1>1, <1>2, <2>1
<1> QED
  BY <1>3, <1>4

LEMMA SlotAfterGet ==
  ASSUME NEW g \in Slots, NEW i \in 1 .. Size - 1
  PROVE  SlotOf(Following(g), i) = SlotOf(g, i + 1)
<1>0. g \in Nat /\ g < Size /\ i \in Nat /\ 1 <= i /\ i + 1 <= Size /\ Size \in Nat
  BY RingAssumption DEF Slots
<1>1. i \in 1 .. Size /\ i + 1 \in 1 .. Size
  BY <1>0
<1>2. SlotOf(Following(g), i) = IF Following(g) + i - 1 < Size
                                  THEN Following(g) + i - 1
                                  ELSE Following(g) + i - 1 - Size
  BY <1>1, FollowingValue, SlotOfValue
<1>3. SlotOf(g, i + 1) = IF g + (i + 1) - 1 < Size
                           THEN g + (i + 1) - 1 ELSE g + (i + 1) - 1 - Size
  BY <1>1, SlotOfValue
<1> QED
  BY <1>0, <1>2, <1>3, FollowingValue

(* The module's operators in these terms. *)
LEMMA Spans == Elements = Span(put_ptr, get_ptr)
BY DEF Elements, Span

LEMMA ContentsValue ==
  ASSUME TypeOK
  PROVE  /\ Elements \in 0 .. Size - 1
         /\ Contents = [i \in 1 .. Elements |-> data[SlotOf(get_ptr, i)]]
         /\ Contents \in Seq(Byte) /\ Len(Contents) = Elements
         /\ \A i \in 1 .. Elements : Contents[i] = data[SlotOf(get_ptr, i)]
<1>1. put_ptr \in Slots /\ get_ptr \in Slots /\ data \in [Slots -> Byte]
  BY DEF TypeOK
<1>2. Elements \in 0 .. Size - 1
  BY <1>1, SpanValue, Spans
<1>3. Contents = [i \in 1 .. Elements |-> data[SlotOf(get_ptr, i)]]
  BY DEF Contents, SlotOf
<1>4. \A i \in 1 .. Elements : data[SlotOf(get_ptr, i)] \in Byte
  BY <1>1, FreeSlot, Spans
<1>5. Elements \in Nat
  BY <1>2, RingAssumption
<1> QED
  BY <1>2, <1>3, <1>4, <1>5

(* A sequence with one item appended, as a function. *)
LEMMA AppendIsFunction ==
  ASSUME NEW S, NEW s \in Seq(S), NEW e \in S
  PROVE  Append(s, e) = [i \in 1 .. Len(s) + 1 |->
                           IF i = Len(s) + 1 THEN e ELSE s[i]]
<1> DEFINE f == [i \in 1 .. Len(s) + 1 |-> IF i = Len(s) + 1 THEN e ELSE s[i]]
<1>1. Append(s, e) \in Seq(S) /\ Len(Append(s, e)) = Len(s) + 1
  OBVIOUS
<1>2. f \in Seq(S) /\ Len(f) = Len(s) + 1
  <2>1. Len(s) \in Nat /\ \A i \in 1 .. Len(s) : s[i] \in S
    OBVIOUS
  <2>2. \A i \in 1 .. Len(s) + 1 : i # Len(s) + 1 => i \in 1 .. Len(s)
    BY <2>1
  <2> QED
    BY <2>1, <2>2
<1>3. ASSUME NEW i \in 1 .. Len(s) + 1
      PROVE  Append(s, e)[i] = f[i]
  OBVIOUS
<1> QED
  BY <1>1, <1>2, <1>3, SeqEqual

LEMMA TailIsFunction ==
  ASSUME NEW S, NEW s \in Seq(S), s # <<>>
  PROVE  Tail(s) = [i \in 1 .. Len(s) - 1 |-> s[i + 1]]
<1> DEFINE f == [i \in 1 .. Len(s) - 1 |-> s[i + 1]]
<1>0. Len(s) \in Nat /\ Len(s) # 0 /\ \A i \in 1 .. Len(s) : s[i] \in S
  OBVIOUS
<1>1. Tail(s) \in Seq(S) /\ Len(Tail(s)) = Len(s) - 1
  OBVIOUS
<1>2. f \in Seq(S) /\ Len(f) = Len(s) - 1
  <2>1. Len(s) - 1 \in Nat /\ \A i \in 1 .. Len(s) - 1 : i + 1 \in 1 .. Len(s)
    BY <1>0
  <2> QED
    BY <1>0, <2>1
<1>3. ASSUME NEW i \in 1 .. Len(s) - 1
      PROVE  Tail(s)[i] = f[i]
  BY <1>0
<1> QED
  BY <1>1, <1>2, <1>3, SeqEqual

------------------------------------------------------------------------------
(* The two steps of ringbuf_put, and the two of ringbuf_get. *)
Store == PutStep /\ putting = 1
PutAdvance == PutStep /\ putting = 2
Copy == GetStep /\ getting = 1
GetAdvance == GetStep /\ getting = 2

LEMMA Steps ==
  ASSUME TypeOK, Next
  PROVE  \/ Store \/ PutAdvance \/ Copy \/ GetAdvance \/ GetTest
         \/ \E b \in Byte : PutTest(b)
BY DEF Next, Store, PutAdvance, Copy, GetAdvance, PutStep, GetStep, TypeOK

(* What each of them does. *)
LEMMA StoreEffect ==
  ASSUME Store
  PROVE  /\ putting = 1 /\ putting' = 2
         /\ data' = [data EXCEPT ![put_ptr] = byte]
         /\ UNCHANGED <<put_ptr, get_ptr, byte, getting, c>>
<1>1. PutOrder[1] = "store" /\ (1 + 1) % 3 = 2
  BY DEF PutOrder
<1> QED
  BY <1>1 DEF Store, PutStep

LEMMA PutAdvanceEffect ==
  ASSUME PutAdvance
  PROVE  /\ putting = 2 /\ putting' = 0
         /\ put_ptr' = Following(put_ptr)
         /\ UNCHANGED <<data, get_ptr, byte, getting, c>>
<1>1. PutOrder[2] = "advance" /\ (2 + 1) % 3 = 0
  BY DEF PutOrder
<1> QED
  BY <1>1 DEF PutAdvance, PutStep

LEMMA CopyEffect ==
  ASSUME Copy
  PROVE  /\ getting = 1 /\ getting' = 2
         /\ c' = data[get_ptr]
         /\ UNCHANGED <<data, put_ptr, get_ptr, putting, byte>>
<1>1. GetOrder[1] = "copy" /\ (1 + 1) % 3 = 2
  BY DEF GetOrder
<1> QED
  BY <1>1 DEF Copy, GetStep

LEMMA GetAdvanceEffect ==
  ASSUME GetAdvance
  PROVE  /\ getting = 2 /\ getting' = 0
         /\ get_ptr' = Following(get_ptr)
         /\ UNCHANGED <<data, put_ptr, putting, byte, c>>
<1>1. GetOrder[2] = "advance" /\ (2 + 1) % 3 = 0
  BY DEF GetOrder
<1> QED
  BY <1>1 DEF GetAdvance, GetStep

(* And what it does to the contents. *)
LEMMA StoreContents ==
  ASSUME TypeOK, Store
  PROVE  Contents' = Contents /\ Elements' = Elements
<1>1. put_ptr \in Slots /\ get_ptr \in Slots /\ data \in [Slots -> Byte]
  BY DEF TypeOK
<1>2. Elements' = Elements
  BY StoreEffect DEF Elements
<1>3. \A i \in 1 .. Elements : data'[SlotOf(get_ptr, i)] = data[SlotOf(get_ptr, i)]
  BY <1>1, FreeSlot, Spans, StoreEffect
<1>4. Contents' = [i \in 1 .. Elements |-> data'[SlotOf(get_ptr, i)]]
  BY <1>2, StoreEffect DEF Contents, SlotOf
<1> QED
  BY <1>2, <1>3, <1>4, ContentsValue

LEMMA PutAdvanceContents ==
  ASSUME IInv, PutAdvance
  PROVE  /\ Elements' = Elements + 1
         /\ Contents' = Append(Contents, byte)
<1>1. /\ put_ptr \in Slots /\ get_ptr \in Slots /\ data \in [Slots -> Byte]
      /\ byte \in Byte
  BY DEF IInv, TypeOK
<1>2. Span(put_ptr, get_ptr) # Size - 1 /\ data[put_ptr] = byte
  BY PutAdvanceEffect, Spans DEF IInv, Full
<1>3. Elements' = Elements + 1
  <2>1. Elements' = Span(Following(put_ptr), get_ptr)
    BY PutAdvanceEffect DEF Elements, Span
  <2> QED
    BY <1>1, <1>2, <2>1, SpanAfterPut, Spans
<1>4. Contents' = [i \in 1 .. Elements + 1 |-> data[SlotOf(get_ptr, i)]]
  BY <1>3, PutAdvanceEffect DEF Contents, SlotOf
<1>5. data[SlotOf(get_ptr, Elements + 1)] = byte
  BY <1>1, <1>2, FreeSlot, Spans
<1>6. Elements \in Nat /\ Contents \in Seq(Byte) /\ Len(Contents) = Elements
  BY ContentsValue, RingAssumption DEF IInv
<1>7. Contents' = [i \in 1 .. Elements + 1 |->
                     IF i = Elements + 1 THEN byte ELSE Contents[i]]
  <2>1. ASSUME NEW i \in 1 .. Elements + 1, i # Elements + 1
        PROVE  data[SlotOf(get_ptr, i)] = Contents[i]
    <3>1. i \in 1 .. Elements
      BY <1>6, <2>1
    <3> QED
      BY <3>1, ContentsValue DEF IInv
  <2> QED
    BY <1>4, <1>5, <2>1
<1> QED
  BY <1>1, <1>3, <1>6, <1>7, AppendIsFunction

LEMMA GetAdvanceContents ==
  ASSUME IInv, GetAdvance
  PROVE  /\ Contents # <<>> /\ c = Head(Contents)
         /\ Elements' = Elements - 1
         /\ Contents' = Tail(Contents)
<1>1. put_ptr \in Slots /\ get_ptr \in Slots /\ data \in [Slots -> Byte]
  BY DEF IInv, TypeOK
<1>2. Span(put_ptr, get_ptr) # 0 /\ c = data[get_ptr]
  BY GetAdvanceEffect, Spans DEF IInv, Empty
<1>3. /\ Elements \in 1 .. Size - 1 /\ Elements \in Nat /\ Elements - 1 \in Nat
      /\ Contents \in Seq(Byte) /\ Len(Contents) = Elements
  BY <1>2, ContentsValue, Spans, RingAssumption DEF IInv
<1>4. Contents # <<>> /\ c = Head(Contents)
  <2>1. Contents[1] = data[SlotOf(get_ptr, 1)]
    BY <1>3, ContentsValue DEF IInv
  <2>2. SlotOf(get_ptr, 1) = get_ptr
    <3>1. get_ptr \in Nat /\ get_ptr < Size /\ 1 \in 1 .. Size
      BY <1>1, RingAssumption DEF Slots
    <3> QED
      BY <1>1, <3>1, SlotOfValue, RingAssumption
  <2> QED
    BY <1>2, <1>3, <2>1, <2>2
<1>5. Elements' = Elements - 1
  <2>1. Elements' = Span(put_ptr, Following(get_ptr))
    BY GetAdvanceEffect DEF Elements, Span
  <2> QED
    BY <1>1, <1>2, <2>1, SpanAfterGet, Spans
<1>6. Contents' = [i \in 1 .. Elements - 1 |-> data[SlotOf(Following(get_ptr), i)]]
  BY <1>5, GetAdvanceEffect DEF Contents, SlotOf
<1>7. ASSUME NEW i \in 1 .. Elements - 1
      PROVE  data[SlotOf(Following(get_ptr), i)] = Contents[i + 1]
  <2>1. i \in 1 .. Size - 1 /\ i + 1 \in 1 .. Elements
    BY <1>3, RingAssumption
  <2>2. SlotOf(Following(get_ptr), i) = SlotOf(get_ptr, i + 1)
    BY <1>1, <2>1, SlotAfterGet
  <2> QED
    BY <2>1, <2>2, ContentsValue DEF IInv
<1>8. Contents' = [i \in 1 .. Elements - 1 |-> Contents[i + 1]]
  BY <1>6, <1>7
<1>9. Tail(Contents) = [i \in 1 .. Elements - 1 |-> Contents[i + 1]]
  BY <1>3, TailIsFunction
<1> QED
  BY <1>4, <1>5, <1>8, <1>9

------------------------------------------------------------------------------
LEMMA InvInit == Init => IInv
BY RingAssumption DEF Init, IInv, TypeOK, Slots

LEMMA InvStep == IInv /\ [Next]_vars => IInv'
<1> SUFFICES ASSUME IInv, [Next]_vars PROVE IInv'
  OBVIOUS
<1>0. TypeOK /\ Elements \in Nat
  BY ContentsValue, RingAssumption DEF IInv
<1>1. CASE Store
  <2>1. TypeOK'
    BY <1>1, StoreEffect DEF IInv, TypeOK
  <2>2. data'[put_ptr] = byte
    BY <1>1, StoreEffect DEF IInv, TypeOK
  <2>3. getting # 0 => data'[get_ptr] = data[get_ptr]
    <3>1. get_ptr # put_ptr \/ Elements = 0
      <4>1. CASE put_ptr = get_ptr
        <5>1. Span(put_ptr, get_ptr) = put_ptr - put_ptr
          BY <4>1, SpanValue, RingAssumption DEF IInv, TypeOK, Slots
        <5> QED
          BY <5>1, Spans, RingAssumption DEF IInv, TypeOK, Slots
      <4> QED
        BY <4>1
    <3> QED
      BY <1>1, <3>1, StoreEffect DEF IInv, TypeOK, Empty
  <2> QED
    BY <1>0, <1>1, <2>1, <2>2, <2>3, StoreEffect, StoreContents
       DEF IInv, Full, Empty
<1>2. CASE PutAdvance
  <2>1. TypeOK'
    BY <1>2, PutAdvanceEffect, FollowingValue DEF IInv, TypeOK
  <2>2. Elements' = Elements + 1
    BY <1>2, PutAdvanceContents
  <2> QED
    BY <1>0, <1>2, <2>1, <2>2, PutAdvanceEffect DEF IInv, Full, Empty
<1>3. CASE Copy
  <2>1. TypeOK'
    BY <1>3, CopyEffect DEF IInv, TypeOK
  <2>2. Elements' = Elements
    BY <1>3, CopyEffect DEF Elements
  <2> QED
    BY <1>3, <2>1, <2>2, CopyEffect DEF IInv, Full, Empty
<1>4. CASE GetAdvance
  <2>1. TypeOK'
    BY <1>4, GetAdvanceEffect, FollowingValue DEF IInv, TypeOK
  <2>2. Elements' = Elements - 1 /\ Elements <= Size - 1
    BY <1>4, GetAdvanceContents, ContentsValue, RingAssumption DEF IInv
  <2> QED
    BY <1>0, <1>4, <2>1, <2>2, GetAdvanceEffect, RingAssumption
       DEF IInv, Full, Empty
<1>5. CASE GetTest
  BY <1>5 DEF GetTest, IInv, TypeOK, Full, Empty, Elements
<1>6. ASSUME NEW b \in Byte, PutTest(b) PROVE IInv'
  BY <1>6 DEF PutTest, IInv, TypeOK, Full, Empty, Elements
<1>7. CASE UNCHANGED vars
  BY <1>7 DEF vars, IInv, TypeOK, Full, Empty, Elements
<1> QED
  BY <1>0, <1>1, <1>2, <1>3, <1>4, <1>5, <1>6, <1>7, Steps

(* The pointers stay inside the array, whatever the interleaving.          *)
THEOREM TypeCorrect == Spec => []TypeOK
<1>1. IInv => TypeOK
  BY DEF IInv
<1> QED
  BY <1>1, InvInit, InvStep, PTL DEF Spec

(* Bytes enter and leave the ring unchanged and in order. *)
THEOREM InOrder == Spec => BytesInOrder
<1> DEFINE Enters == putting = 2 /\ putting' = 0 => Contents' = Append(Contents, byte)
           Leaves == getting = 2 /\ getting' = 0 =>
                       /\ Contents # <<>> /\ c = Head(Contents)
                       /\ Contents' = Tail(Contents)
<1>1. IInv /\ [Next]_vars => [Enters /\ Leaves]_vars
  <2> SUFFICES ASSUME IInv, Next PROVE Enters /\ Leaves
    OBVIOUS
  <2>1. TypeOK
    BY DEF IInv
  <2>2. CASE Store
    BY <2>2, StoreEffect
  <2>3. CASE PutAdvance
    BY <2>3, PutAdvanceEffect, PutAdvanceContents
  <2>4. CASE Copy
    BY <2>4, CopyEffect
  <2>5. CASE GetAdvance
    BY <2>5, GetAdvanceEffect, GetAdvanceContents
  <2>6. CASE GetTest
    BY <2>6 DEF GetTest
  <2>7. ASSUME NEW b \in Byte, PutTest(b) PROVE Enters /\ Leaves
    BY <2>7 DEF PutTest
  <2> QED
    BY <2>1, <2>2, <2>3, <2>4, <2>5, <2>6, <2>7, Steps
<1> QED
  BY <1>1, InvInit, InvStep, PTL DEF Spec, BytesInOrder

(* The ring is a bounded FIFO of Size - 1 bytes: a byte is accepted when   *)
(* the producer advances, and leaves when the consumer does.               *)
THEOREM Refinement == Spec => ImplementsFIFO
<1>1. Init => FIFO!Init
  <2>1. ASSUME Init PROVE Elements = 0
    <3>1. 0 \in Slots
      BY RingAssumption DEF Slots
    <3>2. Span(0, 0) = 0 - 0
      BY <3>1, SpanValue, RingAssumption
    <3> QED
      BY <2>1, <3>2, Spans DEF Init
  <2> QED
    BY <2>1 DEF FIFO!Init, Contents
<1>2. IInv /\ [Next]_vars => [FIFO!Next]_Contents
  <2> SUFFICES ASSUME IInv, [Next]_vars PROVE [FIFO!Next]_Contents
    OBVIOUS
  <2>1. TypeOK
    BY DEF IInv
  <2>2. CASE Store
    BY <2>1, <2>2, StoreContents
  <2>3. CASE PutAdvance
    <3>1. Len(Contents) < Size - 1
      BY <2>1, <2>3, ContentsValue, PutAdvanceEffect, RingAssumption
         DEF IInv, Full
    <3>2. Contents' = Append(Contents, byte) /\ byte \in Byte
      BY <2>1, <2>3, PutAdvanceContents DEF TypeOK
    <3> QED
      BY <3>1, <3>2 DEF FIFO!Next, FIFO!Put
  <2>4. CASE Copy
    BY <2>4, CopyEffect DEF Contents, Elements
  <2>5. CASE GetAdvance
    BY <2>5, GetAdvanceContents DEF FIFO!Next, FIFO!Get
  <2>6. CASE GetTest
    BY <2>6 DEF GetTest, Contents, Elements
  <2>7. ASSUME NEW b \in Byte, PutTest(b) PROVE UNCHANGED Contents
    BY <2>7 DEF PutTest, Contents, Elements
  <2>8. CASE UNCHANGED vars
    BY <2>8 DEF vars, Contents, Elements
  <2> QED
    BY <2>1, <2>2, <2>3, <2>4, <2>5, <2>6, <2>7, <2>8, Steps
<1> QED
  BY <1>1, <1>2, InvInit, InvStep, PTL DEF Spec, ImplementsFIFO, FIFO!Spec
==============================================================================
