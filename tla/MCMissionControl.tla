--------------------------- MODULE MCMissionControl ---------------------------
(***************************************************************************)
(* An instance of MissionControl for TLC: p qualifies when it is proposed  *)
(* alone, and d, which does too, has drifted from the value the change     *)
(* replaces, so that its remediation is refused.                           *)
(***************************************************************************)
EXTENDS MissionControl, TLC

CONSTANTS p, d

CatalogContent == [a \in Artifacts |-> IF a = d THEN "OTHER" ELSE "BEFORE"]

\* Images are interchangeable: no action or property tells two of them apart.
ImageSymmetry == Permutations(Images)

=============================================================================
