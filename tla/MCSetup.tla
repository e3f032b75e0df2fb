------------------------------- MODULE MCSetup -------------------------------
(* Model-checking instance of Setup. *)
EXTENDS Setup, TLC

Symmetry == Permutations(Procs)
=============================================================================
