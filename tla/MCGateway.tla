------------------------------ MODULE MCGateway ------------------------------
(* Model-checking instance of Gateway. *)
EXTENDS Gateway, TLC

Symmetry == Permutations(Channels)

\* Grants an administrator hands out in the instance: one that lists the
\* target without a shell, the default one, and one for forwarding only.
MCGrantSets == {{}, {"shell", "sftp"}, {"forward"}}

\* The first target with id 1 and the second one with id 2 use an agent.
MCAgentRows == {<<1, 1>>, <<2, 2>>}
=============================================================================
