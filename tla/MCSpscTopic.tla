----------------------------- MODULE MCSpscTopic -----------------------------
(* SpscTopic on small instances. *)
EXTENDS SpscTopic

CONSTANTS p1, p2, s1

ThreeMessages == <<2, 1, 2>>
===============================================================================
