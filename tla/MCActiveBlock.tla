--------------------------- MODULE MCActiveBlock ---------------------------
(* ActiveBlock on small instances.                                         *)
EXTENDS ActiveBlock

CONSTANTS x, y

MCBucket == [lpn \in LPN |-> IF lpn = x THEN 0 ELSE 1]
=============================================================================
