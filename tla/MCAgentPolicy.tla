---------------------------- MODULE MCAgentPolicy ----------------------------
(* Two resources on one policy of two grants.                               *)
EXTENDS AgentPolicy, TLC

CONSTANTS r1, r2, g1, g2

Two == {r1, r2}
Symmetry == Permutations(Two) \union Permutations({g1, g2})

=============================================================================
