----------------------------- MODULE MCCatalog -----------------------------
(* Instances of Catalog. *)
EXTENDS Catalog, TLC

CONSTANTS r1, r2, alice, bob, T, t, U

\* Names T and t fold to the same relation, U is a relation of its own.
FoldedName == [x \in Account \X Indexer \X Name |->
                <<x[1], x[2], IF x[3] = t THEN T ELSE x[3]>>]

Symmetry == Permutations(Request)
=============================================================================
