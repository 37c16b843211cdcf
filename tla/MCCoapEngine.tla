---------------------------- MODULE MCCoapEngine -----------------------------
(* Instances of CoapEngine for TLC. *)
EXTENDS CoapEngine, TLC

(* One client gets its response in two blocks, the others without blocks.  *)
Mixed == LET c == CHOOSE x \in Client : TRUE
         IN  [x \in Client |-> IF x = c THEN 1 ELSE NULL]
Plain == [c \in Client |-> NULL]
One == {<<"a">>}
Resources == {<<"a">>, <<"b">>}
Nested == {<<"a">>, <<"a", "/">>}
==============================================================================
