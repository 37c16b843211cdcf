----------------------------- MODULE RingBuffer ------------------------------
(***************************************************************************)
(* The byte ring (core/lib/ringbuf.c) between one producer and one         *)
(* consumer, of which one is an interrupt handler and the other the main   *)
(* program.  No lock protects it.  Each call is split into its test of the *)
(* pointers and its accesses to shared memory, which CC_ACCESS_NOW keeps   *)
(* in program order, and the two sides interleave freely, which includes   *)
(* either one running as an interrupt of the other.                        *)
(*                                                                         *)
(* ringbuf.h requires a size that is a power of two, so that r->mask takes *)
(* remainders modulo the size.                                             *)
(***************************************************************************)
EXTENDS Naturals, Sequences

CONSTANTS
  Byte,   \* What is stored.
  Size    \* The size of the array; one slot always stays free.

ASSUME RingAssumption == Size \in Nat \ {0}

Slots == 0 .. Size - 1

VARIABLES
  data, put_ptr, get_ptr,   \* struct ringbuf; data holds anything at first.
  putting,   \* The next step of ringbuf_put in PutOrder, or 0 outside it.
  byte,      \* Its argument.
  getting,   \* The same for ringbuf_get.
  c          \* Its local variable.

vars == <<data, put_ptr, get_ptr, putting, byte, getting, c>>

TypeOK ==
  /\ data \in [Slots -> Byte]
  /\ put_ptr \in Slots /\ get_ptr \in Slots
  /\ putting \in 0 .. 2 /\ getting \in 0 .. 2
  /\ byte \in Byte /\ c \in Byte

Following_Unmasked(ptr) == ptr + 1
Following(ptr) == (ptr + 1) % Size

(* (put_ptr - get_ptr) & mask *)
Elements == (put_ptr + Size - get_ptr) % Size

Full_Never == Elements = Size      \* Fault: the size for the mask.
Full == Elements = Size - 1
Empty == Elements = 0

PutOrder_Swapped == <<"advance", "store">>
PutOrder == <<"store", "advance">>     \* The fault publishes before it stores.

GetOrder == <<"copy", "advance">>

------------------------------------------------------------------------------
(* ringbuf_put; when the ring is full it returns 0 and changes nothing.    *)
PutTest(b) ==
  /\ putting = 0 /\ ~Full
  /\ putting' = 1
  /\ byte' = b
  /\ UNCHANGED <<data, put_ptr, get_ptr, getting, c>>

PutStep ==
  /\ putting # 0
  /\ \/ /\ PutOrder[putting] = "store"
        /\ data' = [data EXCEPT ![put_ptr] = byte]
        /\ UNCHANGED put_ptr
     \/ /\ PutOrder[putting] = "advance"
        /\ put_ptr' = Following(put_ptr)
        /\ UNCHANGED data
  /\ putting' = (putting + 1) % 3
  /\ UNCHANGED <<get_ptr, byte, getting, c>>

(* ringbuf_get; when the ring is empty it returns -1 and changes nothing.  *)
GetTest ==
  /\ getting = 0 /\ ~Empty
  /\ getting' = 1
  /\ UNCHANGED <<data, put_ptr, get_ptr, putting, byte, c>>

GetStep ==
  /\ getting # 0
  /\ \/ /\ GetOrder[getting] = "copy"
        /\ c' = data[get_ptr]
        /\ UNCHANGED get_ptr
     \/ /\ GetOrder[getting] = "advance"
        /\ get_ptr' = Following(get_ptr)
        /\ UNCHANGED c
  /\ getting' = (getting + 1) % 3
  /\ UNCHANGED <<data, put_ptr, putting, byte>>

Init ==
  /\ data \in [Slots -> Byte]
  /\ put_ptr = 0 /\ get_ptr = 0
  /\ putting = 0 /\ getting = 0
  /\ byte \in Byte /\ c \in Byte

Next == PutStep \/ GetTest \/ GetStep \/ \E b \in Byte : PutTest(b)

Spec == Init /\ [][Next]_vars

------------------------------------------------------------------------------
(* The bytes between the pointers, oldest first. *)
Contents == [i \in 1 .. Elements |-> data[(get_ptr + i - 1) % Size]]

FIFO == INSTANCE BoundedFIFO WITH
          Item <- Byte, Capacity <- Size - 1, queue <- Contents

(* Whatever moment of one call the other interrupts, every byte that       *)
(* ringbuf_put accepted leaves the ring once and in order, none is changed *)
(* while it is in the ring, and at most Size - 1 bytes are in it.          *)
ImplementsFIFO == FIFO!Spec

(* The byte that enters is the argument of ringbuf_put, and the one that   *)
(* leaves is the result of ringbuf_get: no slot is read before it is       *)
(* written, or written again before it has been read.                      *)
BytesInOrder ==
  [][/\ putting = 2 /\ putting' = 0 => Contents' = Append(Contents, byte)
     /\ getting = 2 /\ getting' = 0 => /\ Contents # <<>> /\ c = Head(Contents)
                                       /\ Contents' = Tail(Contents)]_vars
==============================================================================
