------------------------- MODULE MCArtifactMutation -------------------------
(***************************************************************************)
(* Instances of ArtifactMutation for TLC.                                  *)
(***************************************************************************)
EXTENDS ArtifactMutation, TLC

\* Callers are interchangeable.
CallerSymmetry == Permutations(Callers)

=============================================================================
