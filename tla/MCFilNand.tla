---------------------------- MODULE MCFilNand ----------------------------
(* FilNand on small instances.                                              *)
EXTENDS FilNand
=============================================================================
