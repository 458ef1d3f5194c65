---------------------------- MODULE MCMetaCache ----------------------------
(* MetaCache on small instances: the constants of the configurations.      *)
EXTENDS MetaCache

CONSTANTS e1, e2, e3

OneEntry     == {e1}
TwoEntries   == {e1, e2}
ThreeEntries == {e1, e2, e3}
=============================================================================
