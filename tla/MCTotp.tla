------------------------------- MODULE MCTotp -------------------------------
(* Model-checking instance of Totp. *)
EXTENDS Totp, TLC

Symmetry == Permutations(Logins) \cup Permutations(Admins)
=============================================================================
