---------------------------- MODULE MCHeroService ----------------------------
(***************************************************************************)
(* Instances of HeroService for TLC.  The catalog: p and q both qualify    *)
(* when proposed alone, d has drifted from the value the change replaces   *)
(* (it qualifies, but the mutation tool refuses it), and x is out of       *)
(* scope.  The pilot catalog has p and x only.                             *)
(***************************************************************************)
EXTENDS HeroService, TLC

CONSTANTS p, q, d, x

CatalogScope == Artifacts \ {x}
CatalogContent == [a \in Artifacts |-> IF a = d THEN "OTHER" ELSE "BEFORE"]

\* Images are interchangeable: no action or property tells two of them apart.
ImageSymmetry == Permutations(Images)

=============================================================================
