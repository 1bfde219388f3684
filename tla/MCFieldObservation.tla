-------------------------- MODULE MCFieldObservation --------------------------
(***************************************************************************)
(* Instances of FieldObservation for TLC.                                  *)
(***************************************************************************)
EXTENDS FieldObservation

\* Images differ in nothing but their identity.
ImageSymmetry == Permutations(Images)

=============================================================================
