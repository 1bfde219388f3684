--------------------------- MODULE MCResumeLeases ---------------------------
(***************************************************************************)
(* Instances of ResumeLeases for TLC.                                      *)
(***************************************************************************)
EXTENDS ResumeLeases, TLC

\* Processes and tokens are interchangeable (not used where liveness is checked).
LeaseSymmetry == Permutations(Procs) \union Permutations(Tokens)

=============================================================================
