----------------------------- MODULE MCAccounts -----------------------------
(* Model-checking instance of Accounts. *)
EXTENDS Accounts, TLC

Symmetry == Permutations(Actors) \cup Permutations(Names)
              \cup Permutations(Fingerprints)
=============================================================================
