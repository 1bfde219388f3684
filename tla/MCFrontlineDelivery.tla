------------------------ MODULE MCFrontlineDelivery ------------------------
(***************************************************************************)
(* Instances of FrontlineDelivery for TLC.                                 *)
(***************************************************************************)
EXTENDS FrontlineDelivery, TLC

\* Threads are interchangeable.
ThreadSymmetry == Permutations(Threads)

=============================================================================
