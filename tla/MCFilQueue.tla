---------------------------- MODULE MCFilQueue ----------------------------
(* FilQueue on small instances.  The requests of the pool are alike.        *)
EXTENDS FilQueue, TLC

RequestSymmetry == Permutations(Requests)
=============================================================================
