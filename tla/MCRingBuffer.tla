---------------------------- MODULE MCRingBuffer -----------------------------
(* RingBuffer with a small ring. *)
EXTENDS RingBuffer
==============================================================================
