------------------------ MODULE MCSharedRingBufferMPMC ------------------------
(* The MPMC ring on small instances. *)
EXTENDS SharedRingBufferMPMC, TLC

CONSTANTS p1, p2, c1, c2

Symmetry == Permutations(Producers) \cup Permutations(Consumers)

\* The invariants speak of behaviours up to the first overrun.
UpToOverrun == ~ overrun
===============================================================================
