------------------------------- MODULE MCInput -------------------------------
(* Model-checking instance of Input. *)
EXTENDS Input
=============================================================================
