------------------------ MODULE PdaProcessor_proofs ------------------------
(***************************************************************************)
(* What one sweep of PdaProcessor guarantees, for every set of indexers,   *)
(* every page size and every number of attempts.                           *)
(***************************************************************************)
EXTENDS PdaProcessor, FiniteSetTheorems, WellFoundedInduction, TLAPS
-----------------------------------------------------------------------------
(* Pages.                                                                  *)

\* A page is made of rows, and row i is preceded by fewer rows than there are.
LEMMA RankType ==
    ASSUME NEW S, S \subseteq Nat, IsFiniteSet(S), NEW i \in S
    PROVE  Rank(S, i) \in Nat /\ Rank(S, i) < Cardinality(S)
<1> DEFINE below == {j \in S : j < i}
<1>1. below \in SUBSET S /\ below # S
    OBVIOUS
<1>2. /\ IsFiniteSet(below)
      /\ Cardinality(below) <= Cardinality(S)
      /\ Cardinality(below) # Cardinality(S)
    BY <1>1, FS_Subset
<1>3. Cardinality(below) \in Nat /\ Cardinality(S) \in Nat
    BY <1>2, FS_CardinalityType
<1> QED
    BY <1>2, <1>3 DEF Rank

\* When the rows fit on one page, page 0 holds them all.
LEMMA FirstPageIsAll ==
    ASSUME NEW S, S \subseteq Nat, IsFiniteSet(S),
           Cardinality(S) <= GET_INDEXER_PAGING
    PROVE  Page(S, 0) = S
<1>1. ASSUME NEW i \in S PROVE i \in Page(S, 0)
    <2>1. Rank(S, i) \in Nat /\ Rank(S, i) < Cardinality(S)
        BY RankType
    <2>2. Cardinality(S) \in Nat
        BY FS_CardinalityType
    <2> QED
        BY <2>1, <2>2, PagingAssumption DEF Page
<1> QED
    BY <1>1 DEF Page

\* A page that is not empty leaves out the rows of the pages before it.
LEMMA PageBound ==
    ASSUME NEW S, S \subseteq Nat, IsFiniteSet(S), NEW p \in Nat, Page(S, p) # {}
    PROVE  /\ Page(S, p) \subseteq S
           /\ IsFiniteSet(Page(S, p))
           /\ p + Cardinality(Page(S, p)) <= Cardinality(S)
<1> DEFINE P == Page(S, p)
<1>1. P \in SUBSET S
    BY DEF Page
<1>2. PICK i \in P : \A j \in P : ~ (<<j, i>> \in OpToRel(<, Nat))
    BY <1>1, WFMin, NatLessThanWellFounded
<1>3. \A j \in P : ~ (j < i)
    BY <1>1, <1>2 DEF OpToRel
<1> DEFINE below == {j \in S : j < i}
<1>4. below \in SUBSET S /\ below \cap P = {} /\ below \cup P \in SUBSET S
    BY <1>1, <1>3
<1>5. IsFiniteSet(below) /\ IsFiniteSet(P)
    BY <1>1, <1>4, FS_Subset
<1>6. Cardinality(below \cup P) = Cardinality(below) + Cardinality(P)
    <2>1. Cardinality(below \cup P)
            = Cardinality(below) + Cardinality(P) - Cardinality(below \cap P)
        BY <1>5, FS_Union
    <2>2. Cardinality(below \cap P) = 0
        BY <1>4, FS_EmptySet
    <2>3. Cardinality(below) \in Nat /\ Cardinality(P) \in Nat
        BY <1>5, FS_CardinalityType
    <2> QED
        BY <2>1, <2>2, <2>3
<1>7. Cardinality(below \cup P) <= Cardinality(S)
    BY <1>4, FS_Subset
<1>8. p * GET_INDEXER_PAGING <= Cardinality(below)
    BY DEF Page, Rank
<1>9. p <= p * GET_INDEXER_PAGING
    BY PagingAssumption, SMT
<1>10. /\ Cardinality(below) \in Nat /\ Cardinality(P) \in Nat
       /\ Cardinality(S) \in Nat /\ p * GET_INDEXER_PAGING \in Nat
    BY <1>5, FS_CardinalityType, PagingAssumption
<1>11. p + Cardinality(P) <= Cardinality(S)
    BY <1>6, <1>7, <1>8, <1>9, <1>10
<1> QED
    BY <1>1, <1>5, <1>11

-----------------------------------------------------------------------------
(* The invariant.                                                          *)

\* The first query of the sweep has returned.
FirstQueryDone == pc = "add" \/ (pc = "query" /\ page > 0)

\* On one page, what matched all along is served or still in the batch.
Served ==
    FirstQueryDone /\ found <= GET_INDEXER_PAGING => steady \subseteq added \cup todo

\* The query repeated inside a batch is never that of page 0.
BatchOpen == pc = "query" /\ todo # {} => page > 0

IInv == TypeOK /\ FanOutBounded /\ Served /\ BatchOpen

LEMMA InitIInv == Init => IInv
<1> SUFFICES ASSUME Init PROVE IInv
    OBVIOUS
<1> QED
    BY SweepAssumption DEF Init, IInv, TypeOK, FanOutBounded, Served, BatchOpen, FirstQueryDone

\* Sets of indexers are finite sets of naturals, with a cardinality.
LEMMA IndexerSets ==
    ASSUME NEW S \in SUBSET Indexer
    PROVE  /\ IsFiniteSet(S)
           /\ S \subseteq Nat
           /\ Cardinality(S) \in Nat
           /\ Cardinality(Indexer) \in Nat
           /\ Cardinality(S) <= Cardinality(Indexer)
    BY SweepAssumption, FS_Subset, FS_CardinalityType

LEMMA StepIInv == IInv /\ [Next]_vars => IInv'
<1> SUFFICES ASSUME IInv, [Next]_vars PROVE IInv'
    OBVIOUS
<1> USE DEF IInv
<1>1. CASE PdaChange
    BY <1>1, SweepAssumption
    DEF PdaChange, TypeOK, FanOutBounded, Served, BatchOpen, FirstQueryDone, ghosts
<1>2. ASSUME NEW i \in Indexer, Match(i) PROVE IInv'
    BY <1>2 DEF Match, TypeOK, FanOutBounded, Served, BatchOpen, FirstQueryDone, ghosts
<1>3. ASSUME NEW i \in Indexer, Unmatch(i) PROVE IInv'
    BY <1>3 DEF Unmatch, TypeOK, FanOutBounded, Served, BatchOpen, FirstQueryDone
<1>4. CASE Take
    <2>1. Cardinality(todo') = 0 /\ Cardinality(Indexer) \in Nat
        BY <1>4, FS_EmptySet, IndexerSets DEF Take
    <2> QED
        BY <1>4, <2>1
        DEF Take, TypeOK, FanOutBounded, Served, BatchOpen, FirstQueryDone, ghosts
<1>5. CASE QueryInBatch
    BY <1>5
        DEF QueryInBatch, TypeOK, FanOutBounded, Served, BatchOpen,
        FirstQueryDone, ghosts
<1>6. CASE QueryNextBatch
    <2>1. matching \in SUBSET Indexer /\ page \in Nat
        BY DEF TypeOK
    <2>2. /\ IsFiniteSet(matching) /\ matching \subseteq Nat
          /\ Cardinality(matching) \in Nat /\ Cardinality(Indexer) \in Nat
          /\ Cardinality(matching) <= Cardinality(Indexer)
        BY <2>1, IndexerSets
    <2>3. /\ todo' \subseteq matching
          /\ Cardinality(todo') \in Nat
          /\ page + Cardinality(todo') <= Cardinality(matching)
        BY <1>6, <2>1, <2>2, PageBound, FS_CardinalityType DEF QueryNextBatch
    <2>4. TypeOK'
        BY <1>6, <2>1, <2>2, <2>3
        DEF QueryNextBatch, ObserveFirst, ghosts, TypeOK
    <2>5. FanOutBounded'
        BY <1>6, <2>1, <2>2, <2>3 DEF QueryNextBatch, FanOutBounded
    <2>6. Served'
        <3>1. CASE page = 0
            <4>1. Cardinality(matching) <= GET_INDEXER_PAGING
                    => Page(matching, 0) = matching
                BY <2>2, FirstPageIsAll
            <4> QED
                BY <1>6, <3>1, <4>1
                DEF QueryNextBatch, ObserveFirst, FirstQuery, Served
        <3>2. CASE page > 0
            BY <1>6, <2>1, <3>2
            DEF QueryNextBatch, ObserveFirst, FirstQuery, ghosts, Served,
                FirstQueryDone
        <3> QED
            BY <2>1, <3>1, <3>2
    <2>7. BatchOpen'
        BY <1>6 DEF QueryNextBatch, BatchOpen
    <2> QED
        BY <2>4, <2>5, <2>6, <2>7
<1>7. CASE QueryEmpty
    <2>1. Cardinality(matching) \in Nat
        BY IndexerSets DEF TypeOK
    <2> QED
        BY <1>7, <2>1
        DEF QueryEmpty, ObserveFirst, ghosts, TypeOK, FanOutBounded, Served,
            BatchOpen, FirstQueryDone
<1>8. ASSUME NEW i \in Indexer, AddUpdate(i) PROVE IInv'
    <2>1. todo \in SUBSET Indexer /\ i \in todo /\ todo' = todo \ {i}
        BY <1>8 DEF AddUpdate, TypeOK
    <2>2. /\ Cardinality(todo') = Cardinality(todo) - 1
          /\ Cardinality(todo) \in Nat /\ Cardinality(Indexer) \in Nat
        BY <2>1, FS_RemoveElement, IndexerSets
    <2> QED
        BY <1>8, <2>1, <2>2
        DEF AddUpdate, ghosts, TypeOK, FanOutBounded, Served, BatchOpen,
            FirstQueryDone
<1>9. CASE Throw
    BY <1>9, SweepAssumption
    DEF Throw, TypeOK, FanOutBounded, Served, BatchOpen, FirstQueryDone, ghosts
<1>10. CASE UNCHANGED vars
    BY <1>10 DEF vars, TypeOK, FanOutBounded, Served, BatchOpen, FirstQueryDone
<1> QED
    BY <1>1, <1>2, <1>3, <1>4, <1>5, <1>6, <1>7, <1>8, <1>9, <1>10
    DEF Next, Handler
-----------------------------------------------------------------------------
(* The theorems.                                                           *)

THEOREM Invariance == Spec => []IInv
<1>1. Init => IInv
    BY InitIInv
<1>2. IInv /\ [Next]_vars => IInv'
    BY StepIInv
<1> QED
    BY <1>1, <1>2, PTL DEF Spec

\* Every state of the job's processing is well typed.
THEOREM TypeCorrect == Spec => []TypeOK
<1>1. IInv => TypeOK
    BY DEF IInv
<1> QED
    BY <1>1, Invariance, PTL

\* A run of the handler adds no more jobs than the program has indexers.
THEOREM FanOutIsBounded == Spec => []FanOutBounded
<1>1. IInv => FanOutBounded
    BY DEF IInv
<1> QED
    BY <1>1, Invariance, PTL

\* A sweep that starts on one page serves every indexer that matches all along.
THEOREM SmallSweepIsComplete == Spec => SmallSweepComplete
<1>1. IInv /\ [Next]_vars
        => [QueryEmpty /\ found' <= GET_INDEXER_PAGING => steady' \subseteq added]_vars
    <2> SUFFICES ASSUME IInv, QueryEmpty, found' <= GET_INDEXER_PAGING
                 PROVE  steady' \subseteq added
        OBVIOUS
    <2>1. CASE page = 0
        <3>1. /\ IsFiniteSet(matching) /\ matching \subseteq Nat
            BY IndexerSets DEF IInv, TypeOK
        <3>2. Cardinality(matching) <= GET_INDEXER_PAGING /\ steady' = matching
            BY <2>1 DEF QueryEmpty, ObserveFirst, FirstQuery
        <3>3. matching = {}
            BY <2>1, <3>1, <3>2, FirstPageIsAll DEF QueryEmpty
        <3> QED
            BY <3>2, <3>3
    <2>2. CASE page > 0
        BY <2>2
        DEF IInv, TypeOK, Served, FirstQueryDone, QueryEmpty, ObserveFirst,
            FirstQuery, ghosts
    <2> QED
        BY <2>1, <2>2 DEF IInv, TypeOK
<1> QED
    BY <1>1, Invariance, PTL DEF Spec, SmallSweepComplete
=============================================================================
