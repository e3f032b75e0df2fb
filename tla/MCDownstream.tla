---------------------------- MODULE MCDownstream ----------------------------
(* Model-checking instance of Downstream: the constants are in the cfg files. *)
EXTENDS Downstream
=============================================================================
