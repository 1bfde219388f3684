---------------------------- MODULE MCPublicPilot ----------------------------
(***************************************************************************)
(* Instances of PublicPilot for TLC.                                       *)
(***************************************************************************)
EXTENDS PublicPilot, TLC

\* Tabs and photographs are interchangeable: no action tells two of them apart.
PilotSymmetry == Permutations(Tabs) \union Permutations(Photos)

=============================================================================
