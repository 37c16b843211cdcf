---------------------------- MODULE MCEventTimer -----------------------------
(* Instances of EventTimer for TLC. *)
EXTENDS EventTimer, TLC

(* Arguments of etimer_adjust (a configuration has no negative numbers).   *)
Either == {-1, 1}

Symmetry == Permutations(Timer) \union Permutations(Proc)
==============================================================================
