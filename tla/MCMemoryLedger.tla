--------------------------- MODULE MCMemoryLedger ---------------------------
(* Instances of MemoryLedger for TLC. *)
EXTENDS MemoryLedger, TLC

CONSTANTS u1, u2, v1, v2, p1, p2

Sym == Permutations({u1, u2}) \cup Permutations({v1, v2}) \cup Permutations({p1, p2})
=============================================================================
