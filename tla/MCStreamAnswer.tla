--------------------------- MODULE MCStreamAnswer ---------------------------
(* Instances of StreamAnswer for TLC. *)
EXTENDS StreamAnswer, TLC

CONSTANTS w1, w2, a1, a2, g1

Sym == Permutations({w1, w2}) \cup Permutations({a1, a2})
=============================================================================
