--------------------------- MODULE IndexerPaging ---------------------------
(***************************************************************************)
(* The paged query of PdaProcessor.  The query has no ORDER BY of its own; *)
(* because it uses take/skip over a join, TypeORM first selects the page's *)
(* primary keys in ascending order, so a page is a rank interval of ids.   *)
(***************************************************************************)
EXTENDS Integers, FiniteSets

CONSTANT GET_INDEXER_PAGING    \* indexers per page, 10 unless configured

ASSUME PagingAssumption == GET_INDEXER_PAGING \in Nat \ {0}

\* The number of rows of S that the query orders before row i.
Rank(S, i) == Cardinality({j \in S : j < i})

\* Mutant: pages counted from one.
PageFromOne(S, page) ==
    {i \in S : /\ (page + 1) * GET_INDEXER_PAGING <= Rank(S, i)
               /\ Rank(S, i) < (page + 2) * GET_INDEXER_PAGING}

\* Mutant: the skip is forgotten.
PageNoSkip(S, page) == {i \in S : Rank(S, i) < GET_INDEXER_PAGING}

\* .take(GET_INDEXER_PAGING).skip(page * GET_INDEXER_PAGING) over the rows S.
Page(S, page) ==
    {i \in S : /\ page * GET_INDEXER_PAGING <= Rank(S, i)
               /\ Rank(S, i) < (page + 1) * GET_INDEXER_PAGING}
=============================================================================
