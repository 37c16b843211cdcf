---------------------------- MODULE MCEventQueue -----------------------------
(***************************************************************************)
(* EventQueue with a small array in a small integer type, at the boundary  *)
(* of SizeAssumption: 2 * NUMEVENTS - 1 values are just representable.     *)
(***************************************************************************)
EXTENDS EventQueue
==============================================================================
