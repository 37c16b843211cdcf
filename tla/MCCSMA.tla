------------------------------- MODULE MCCSMA --------------------------------
(* Instances of CSMA for TLC. *)
EXTENDS CSMA
==============================================================================
