-------------------------- MODULE MCOidcIdentities --------------------------
(* Model-checking instance of OidcIdentities. *)
EXTENDS OidcIdentities, TLC

Symmetry == Permutations(Users) \cup Permutations(Subjects)
              \cup Permutations(Usernames) \cup Permutations(Flows)
=============================================================================
