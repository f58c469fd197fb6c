---------------------- MODULE MCRollingUpdateProgress ----------------------
(* Two pods, every pod affected by the operation. *)
EXTENDS RollingUpdateProgress, TLC

CONSTANTS p1, p2

MCPods == {p1, p2}

MCSymmetry == Permutations(MCPods)

=============================================================================
