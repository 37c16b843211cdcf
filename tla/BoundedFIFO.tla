----------------------------- MODULE BoundedFIFO -----------------------------
(***************************************************************************)
(* What a bounded first-in first-out buffer promises: an item that was     *)
(* accepted comes out exactly once and in the order of acceptance, and an  *)
(* item is accepted exactly when there is room.                            *)
(*                                                                         *)
(* The kernel's event array (EventQueue, core/sys/process.c) and the byte  *)
(* ring between an interrupt handler and the main program (RingBuffer,     *)
(* core/lib/ringbuf.c) are both shown to implement this module.            *)
(***************************************************************************)
EXTENDS Naturals, Sequences

CONSTANTS
  Item,      \* What can be stored.
  Capacity   \* How many items fit.

VARIABLE queue

FIFOTypeOK == queue \in Seq(Item) /\ Len(queue) <= Capacity

Init == queue = <<>>

Put(item) ==
  /\ Len(queue) < Capacity
  /\ queue' = Append(queue, item)

Get ==
  /\ queue # <<>>
  /\ queue' = Tail(queue)

Next == Get \/ \E item \in Item : Put(item)

Spec == Init /\ [][Next]_queue
==============================================================================
