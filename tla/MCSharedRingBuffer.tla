-------------------------- MODULE MCSharedRingBuffer --------------------------
(* Small instances of the MPSC ring. *)
EXTENDS SharedRingBufferInv, TLC

CONSTANTS p1, p2

ProducerSymmetry == Permutations(Producers)
===============================================================================
