------------------------- MODULE MCCollectionImport -------------------------
(* Definitions for model-checking CollectionImport. *)
EXTENDS CollectionImport, TLC

CONSTANTS rel1, rel2, rel3

\* Two pages: the first has one release, the second the others.
MCPage == [rel \in Releases |-> IF rel = rel1 THEN 1 ELSE 2]

RunSymmetry == Permutations(Runs) \cup Permutations({rel2, rel3})
=============================================================================
