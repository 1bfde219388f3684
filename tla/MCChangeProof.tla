---------------------------- MODULE MCChangeProof ----------------------------
(* Small instances of ChangeProof. *)
EXTENDS ChangeProof, TLC

GeneratorSymmetry == Permutations(Generators)

=============================================================================
