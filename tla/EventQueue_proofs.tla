-------------------------- MODULE EventQueue_proofs --------------------------
(***************************************************************************)
(* The event array implements the bounded first-in first-out buffer, for   *)
(* every array size and every integer type that satisfy SizeAssumption.    *)
(***************************************************************************)
EXTENDS EventQueue, SequenceTheorems, TLAPS

(* Below twice the array's size, the remainder is at most one subtraction. *)
LEMMA Wraps ==
  ASSUME NEW n \in Nat \ {0}, NEW a \in 0 .. 2 * n - 1
  PROVE  a % n = IF a < n THEN a ELSE a - n
OBVIOUS

LEMMA WrapsSlot ==
  ASSUME NEW a \in 0 .. 2 * NUMEVENTS - 1
  PROVE  a % NUMEVENTS = IF a < NUMEVENTS THEN a ELSE a - NUMEVENTS
BY Wraps, SizeAssumption

LEMMA Fits ==
  ASSUME NEW a \in Nat, a < NumRange
  PROVE  a % NumRange = a
BY SizeAssumption

(* A sequence with one item appended, as a function. *)
LEMMA AppendIsFunction ==
  ASSUME NEW S, NEW s \in Seq(S), NEW e \in S
  PROVE  Append(s, e) = [i \in 1 .. Len(s) + 1 |->
                           IF i = Len(s) + 1 THEN e ELSE s[i]]
<1> DEFINE f == [i \in 1 .. Len(s) + 1 |-> IF i = Len(s) + 1 THEN e ELSE s[i]]
<1>1. Append(s, e) \in Seq(S) /\ Len(Append(s, e)) = Len(s) + 1
  OBVIOUS
<1>2. f \in Seq(S) /\ Len(f) = Len(s) + 1
  <2>1. Len(s) \in Nat /\ \A i \in 1 .. Len(s) : s[i] \in S
    OBVIOUS
  <2>2. \A i \in 1 .. Len(s) + 1 : i # Len(s) + 1 => i \in 1 .. Len(s)
    BY <2>1
  <2> QED
    BY <2>1, <2>2
<1>3. ASSUME NEW i \in 1 .. Len(s) + 1
      PROVE  Append(s, e)[i] = f[i]
  OBVIOUS
<1> QED
  BY <1>1, <1>2, <1>3, SeqEqual

(* The slot of the i-th queued event, and the free slot, without modulo. *)
LEMMA FreeSlotValue ==
  ASSUME TypeOK, nevents # NUMEVENTS
  PROVE  /\ FreeSlot = IF fevent + nevents < NUMEVENTS
                         THEN fevent + nevents
                         ELSE fevent + nevents - NUMEVENTS
         /\ FreeSlot \in Slots
<1>1. /\ fevent + nevents \in 0 .. 2 * NUMEVENTS - 1
      /\ fevent + nevents \in Nat
      /\ fevent + nevents < NumRange
  BY SizeAssumption DEF TypeOK, Slots
<1>2. (fevent + nevents) % NumRange = fevent + nevents
  BY <1>1, Fits
<1>3. (fevent + nevents) % NUMEVENTS =
         IF fevent + nevents < NUMEVENTS
           THEN fevent + nevents
           ELSE fevent + nevents - NUMEVENTS
  <2>1. PICK a \in 0 .. 2 * NUMEVENTS - 1 : a = fevent + nevents
    BY <1>1
  <2>2. a % NUMEVENTS = IF a < NUMEVENTS THEN a ELSE a - NUMEVENTS
    BY WrapsSlot
  <2> QED
    BY <2>1, <2>2, SizeAssumption DEF TypeOK, Slots
<1> QED
  BY <1>1, <1>2, <1>3, SizeAssumption DEF FreeSlot, TypeOK, Slots

LEMMA TypeStep == TypeOK /\ [Next]_vars => TypeOK'
<1> SUFFICES ASSUME TypeOK, [Next]_vars PROVE TypeOK'
  OBVIOUS
<1>1. CASE Take
  <2>1. fevent + 1 \in 0 .. 2 * NUMEVENTS - 1
    BY SizeAssumption DEF TypeOK, Slots
  <2>2. (fevent + 1) % NUMEVENTS \in Slots
    BY <2>1, WrapsSlot, SizeAssumption DEF TypeOK, Slots
  <2> QED
    BY <1>1, <2>2, SizeAssumption DEF Take, Following, TypeOK
<1>2. ASSUME NEW event \in Event, Post(event) PROVE TypeOK'
  BY <1>2, FreeSlotValue, SizeAssumption DEF Post, TypeOK
<1>3. CASE UNCHANGED vars
  BY <1>3 DEF vars, TypeOK
<1> QED
  BY <1>1, <1>2, <1>3 DEF Next

(* The three variables keep their types: the indices stay inside the array. *)
THEOREM TypeCorrect == Spec => []TypeOK
<1>1. Init => TypeOK
  BY SizeAssumption DEF Init, TypeOK, Slots
<1> QED
  BY <1>1, TypeStep, PTL DEF Spec

(* Every step of the array is a step of the bounded FIFO buffer or leaves  *)
(* the queued events as they are: nothing is lost, duplicated or reordered.*)
THEOREM Refinement == Spec => ImplementsFIFO
<1>1. Init => FIFO!Init
  BY DEF Init, FIFO!Init, Contents
<1>2. TypeOK /\ [Next]_vars => [FIFO!Next]_Contents
  <2> SUFFICES ASSUME TypeOK, [Next]_vars PROVE [FIFO!Next]_Contents
    OBVIOUS
  <2> DEFINE Slot(i) == IF fevent + i - 1 < NUMEVENTS
                          THEN fevent + i - 1 ELSE fevent + i - 1 - NUMEVENTS
  <2>0. /\ fevent \in Nat /\ fevent' \in Nat /\ nevents \in Nat
        /\ fevent < NUMEVENTS /\ nevents <= NUMEVENTS
    BY TypeStep, SizeAssumption DEF TypeOK, Slots
  <2>1. ASSUME NEW i \in 1 .. nevents
        PROVE  (fevent + i - 1) % NUMEVENTS = Slot(i) /\ Slot(i) \in Slots
    <3>1. fevent + i - 1 \in 0 .. 2 * NUMEVENTS - 1
      BY <2>0, SizeAssumption
    <3>2. (fevent + i - 1) % NUMEVENTS = Slot(i)
      <4>1. PICK a \in 0 .. 2 * NUMEVENTS - 1 : a = fevent + i - 1
        BY <3>1
      <4>2. a % NUMEVENTS = IF a < NUMEVENTS THEN a ELSE a - NUMEVENTS
        BY WrapsSlot
      <4> QED
        BY <2>0, <4>1, <4>2, SizeAssumption
    <3>3. Slot(i) \in Slots
      BY <2>0, <3>1, SizeAssumption DEF Slots
    <3> QED
      BY <3>2, <3>3
  <2>2. Contents = [i \in 1 .. nevents |-> events[Slot(i)]]
    BY <2>1 DEF Contents
  <2>3. Contents \in Seq(Event) /\ Len(Contents) = nevents
    BY <2>1, <2>2 DEF TypeOK
  <2>4. CASE Take
    <3>1. fevent' = IF fevent + 1 < NUMEVENTS
                      THEN fevent + 1 ELSE fevent + 1 - NUMEVENTS
      <4>1. fevent + 1 \in 0 .. 2 * NUMEVENTS - 1
        BY SizeAssumption DEF TypeOK, Slots
      <4> QED
        BY <2>0, <2>4, <4>1, WrapsSlot, SizeAssumption DEF Take, Following
    <3>2. ASSUME NEW i \in 1 .. nevents - 1
          PROVE  (fevent' + i - 1) % NUMEVENTS = Slot(i + 1)
      <4>1. fevent' + i - 1 \in 0 .. 2 * NUMEVENTS - 1
        BY <2>0, <3>1, SizeAssumption
      <4>2. (fevent' + i - 1) % NUMEVENTS =
              IF fevent' + i - 1 < NUMEVENTS
                THEN fevent' + i - 1 ELSE fevent' + i - 1 - NUMEVENTS
        <5>1. PICK a \in 0 .. 2 * NUMEVENTS - 1 : a = fevent' + i - 1
          BY <4>1
        <5>2. a % NUMEVENTS = IF a < NUMEVENTS THEN a ELSE a - NUMEVENTS
          BY WrapsSlot
        <5> QED
          BY <2>0, <3>1, <5>1, <5>2, SizeAssumption, SMTT(30)
      <4> QED
        BY <2>0, <3>1, <4>2, SizeAssumption
    <3>3. Contents' = [i \in 1 .. nevents - 1 |-> events[Slot(i + 1)]]
      <4>1. Contents' = [i \in 1 .. nevents - 1 |->
                           events[(fevent' + i - 1) % NUMEVENTS]]
        BY <2>4 DEF Take, Contents, TypeOK
      <4> QED
        BY <3>2, <4>1
    <3>4. Contents' = Tail(Contents)
      BY <2>2, <2>3, <3>3, <2>4 DEF Take, TypeOK
    <3>5. Contents # <<>>
      BY <2>3, <2>4 DEF Take, TypeOK
    <3> QED
      BY <3>4, <3>5 DEF FIFO!Next, FIFO!Get
  <2>5. ASSUME NEW event \in Event, Post(event) PROVE FIFO!Put(event)
    <3>1. FreeSlot = Slot(nevents + 1) /\ FreeSlot \in Slots
      BY <2>5, FreeSlotValue, SizeAssumption DEF Post, TypeOK, Slots
    <3>2. ASSUME NEW i \in 1 .. nevents
          PROVE  (fevent + i - 1) % NUMEVENTS # FreeSlot
      BY <2>1, <2>5, <3>1, <3>2, SizeAssumption DEF Post, TypeOK, Slots
    <3>3. (fevent + (nevents + 1) - 1) % NUMEVENTS = FreeSlot
      <4>1. PICK a \in 0 .. 2 * NUMEVENTS - 1 : a = fevent + nevents
        BY <2>0, <2>5, SizeAssumption DEF Post
      <4>2. a % NUMEVENTS = IF a < NUMEVENTS THEN a ELSE a - NUMEVENTS
        BY WrapsSlot
      <4>3. a % NUMEVENTS = FreeSlot
        BY <2>0, <2>5, <4>1, <4>2, FreeSlotValue, SizeAssumption DEF Post
      <4>4. fevent + (nevents + 1) - 1 = a
        BY <2>0, <4>1
      <4> QED
        BY <2>0, <4>3, <4>4, SizeAssumption
    <3>4. nevents' = nevents + 1 /\ fevent' = fevent
      BY <2>5 DEF Post
    <3>5. ASSUME NEW i \in 1 .. nevents
          PROVE  events'[(fevent + i - 1) % NUMEVENTS] = Contents[i]
      BY <2>1, <2>5, <3>2 DEF Post, Contents, TypeOK
    <3>6. events'[(fevent + (nevents + 1) - 1) % NUMEVENTS] = event
      BY <2>5, <3>1, <3>3 DEF Post, TypeOK
    <3>7. Contents' = [i \in 1 .. nevents + 1 |->
                         events'[(fevent + i - 1) % NUMEVENTS]]
      BY <3>4 DEF Contents
    <3>8. Contents' = [i \in 1 .. nevents + 1 |->
                         IF i = nevents + 1 THEN event ELSE Contents[i]]
      BY <3>5, <3>6, <3>7 DEF TypeOK
    <3>9. Append(Contents, event) =
            [i \in 1 .. nevents + 1 |->
               IF i = nevents + 1 THEN event ELSE Contents[i]]
      BY <2>3, AppendIsFunction DEF TypeOK
    <3> QED
      <4>1. Len(Contents) < NUMEVENTS
        BY <2>0, <2>3, <2>5, SizeAssumption DEF Post
      <4> QED
        BY <3>8, <3>9, <4>1 DEF FIFO!Put
  <2>6. CASE UNCHANGED vars
    BY <2>6 DEF vars, Contents
  <2> QED
    BY <2>4, <2>5, <2>6 DEF Next, FIFO!Next
<1> QED
  BY <1>1, <1>2, TypeCorrect, PTL DEF Spec, ImplementsFIFO, FIFO!Spec
==============================================================================
