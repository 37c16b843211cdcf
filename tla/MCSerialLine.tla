---------------------------- MODULE MCSerialLine -----------------------------
(* Instances of SerialLine for TLC. *)
EXTENDS SerialLine
==============================================================================
