---------------------------- MODULE MCSharedLatest ----------------------------
(* SharedLatest on small instances. *)
EXTENDS SharedLatest, TLC

CONSTANTS w1, w2, r1, r2

Symmetry == Permutations(Writers) \cup Permutations(Readers)
===============================================================================
