-------------------------- MODULE MCDurableSession --------------------------
(***************************************************************************)
(* Instances of DurableSession for TLC.                                    *)
(***************************************************************************)
EXTENDS DurableSession, TLC

\* Instances are interchangeable: no action or property tells two of them apart.
InstanceSymmetry == Permutations(Instances)

=============================================================================
