-------------------------- MODULE MCLatestSubscriber --------------------------
(* LatestSubscriber on small instances. *)
EXTENDS LatestSubscriber

CONSTANTS w1, w2, r1
===============================================================================
