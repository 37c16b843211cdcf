----------------------------- MODULE EventQueue ------------------------------
(***************************************************************************)
(* The kernel's event queue (core/sys/process.c): the array events[] with  *)
(* the index fevent of its oldest element and the count nevents.           *)
(*                                                                         *)
(* process_num_events_t is an unsigned char, so the slot index is computed *)
(* as (fevent + nevents) truncated to that type and only then reduced      *)
(* modulo PROCESS_CONF_NUMEVENTS.  The truncation is harmless as long as   *)
(* the sum always fits the type: SizeAssumption.  The default of 32 events *)
(* in an 8-bit type satisfies it; an array of 200 would not.               *)
(***************************************************************************)
EXTENDS Naturals, Sequences

CONSTANTS
  Event,        \* The triples (ev, data, p) that are posted, abstracted.
  NUMEVENTS,    \* PROCESS_CONF_NUMEVENTS.
  NumRange      \* 2^8: the number of values of process_num_events_t.

ASSUME SizeAssumption ==
  /\ NUMEVENTS \in Nat \ {0}
  /\ NumRange \in Nat
  /\ 2 * NUMEVENTS - 1 <= NumRange

Slots == 0 .. NUMEVENTS - 1

VARIABLES
  events,    \* The array; a slot that was never written holds any event.
  nevents,   \* How many events are queued.
  fevent     \* The slot of the oldest one.

vars == <<events, nevents, fevent>>

TypeOK ==
  /\ events \in [Slots -> Event]
  /\ nevents \in 0 .. NUMEVENTS
  /\ fevent \in Slots

FreeSlot_FromZero == nevents % NUMEVENTS       \* Fault: ignores fevent.

(* The slot process_post writes, with the cast the code applies. *)
FreeSlot == ((fevent + nevents) % NumRange) % NUMEVENTS

Init ==
  /\ events \in [Slots -> Event]
  /\ nevents = 0
  /\ fevent = 0

(* process_post when it returns PROCESS_ERR_OK.  When the queue is full it *)
(* returns PROCESS_ERR_FULL and changes nothing.                           *)
Post(event) ==
  /\ nevents # NUMEVENTS
  /\ events' = [events EXCEPT ![FreeSlot] = event]
  /\ nevents' = nevents + 1
  /\ UNCHANGED fevent

Following_NoWrap == fevent + 1                 \* Fault: no modulo.
Following == (fevent + 1) % NUMEVENTS

(* do_event takes the oldest event before it calls any process. *)
Take ==
  /\ nevents > 0
  /\ fevent' = Following
  /\ nevents' = nevents - 1
  /\ UNCHANGED events

Next == Take \/ \E event \in Event : Post(event)

Spec == Init /\ [][Next]_vars

------------------------------------------------------------------------------
(* The abstract queue: the used slots, oldest first. *)
Contents == [i \in 1 .. nevents |-> events[(fevent + i - 1) % NUMEVENTS]]

FIFO == INSTANCE BoundedFIFO WITH
          Item <- Event, Capacity <- NUMEVENTS, queue <- Contents

(* Every event that process_post accepted is taken by do_event exactly     *)
(* once and in the order of posting, wherever fevent stands in the array:  *)
(* the array implements a bounded first-in first-out buffer.               *)
ImplementsFIFO == FIFO!Spec
==============================================================================
