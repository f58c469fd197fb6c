-------------------------- MODULE MCHScaleProgress --------------------------
(* Two pods to create and one to delete, for TLC.                          *)
EXTENDS HScaleProgress, TLC

CONSTANTS c1, c2, d1

MCCreatedPods == {c1, c2}
MCDeletedPods == {d1}

\* The pods to create are interchangeable.
MCSymmetry == Permutations(MCCreatedPods)
=============================================================================
