-------------------------- MODULE MCVolumeExpansion --------------------------
(* Two instances of one component for TLC.                                 *)
EXTENDS VolumeExpansion, TLC

CONSTANTS i1, i2

MCInstances == {i1, i2}

\* Every instance from the default template: the instances are
\* interchangeable.
MCSymmetry == Permutations(MCInstances)

\* i2 comes from a spec.instances template.
MCTemplateInstances == {i2}
=============================================================================
