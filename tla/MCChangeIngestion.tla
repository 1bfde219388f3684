-------------------------- MODULE MCChangeIngestion --------------------------
(***************************************************************************)
(* Instances of ChangeIngestion for TLC.                                   *)
(***************************************************************************)
EXTENDS ChangeIngestion, TLC

\* Instances and workflow ids are interchangeable (not used for liveness).
IngestionSymmetry == Permutations(Instances) \union Permutations(Workflows)

=============================================================================
