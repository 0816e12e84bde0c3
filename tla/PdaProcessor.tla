---------------------------- MODULE PdaProcessor ----------------------------
(***************************************************************************)
(* One PDA_CHANGE job, from the moment it is added to the pda-system queue *)
(* to the moment Bull removes it.  The handler sweeps, page by page, the   *)
(* active indexers that have a trigger on the changed PDA and adds one     *)
(* UPDATE_INDEXER job for each.  Every await is a point where the database *)
(* may change under the sweep and where the handler may throw.             *)
(*                                                                         *)
(* The for..of of the code keeps the array it was started on while its     *)
(* body assigns the variable `indexers' again: todo is the part of that    *)
(* array still to come.  What the body assigns is read again only by the   *)
(* while, so only the body's last query of a batch has an effect.          *)
(***************************************************************************)
EXTENDS IndexerPaging

CONSTANTS
    Indexer,    \* ids of the indexers of the account's owner program
    Attempts    \* BULL_DEFAULT_ATTEMPTS_COUNT, the runs a job may have

ASSUME SweepAssumption ==
    /\ Indexer \subseteq Nat
    /\ IsFiniteSet(Indexer)
    /\ Attempts \in Nat \ {0}

VARIABLES
    matching,      \* indexers the query selects now
    pc,            \* where the job is; "query" and "add" name the next await
    attemptsMade,  \* failed runs so far
    page,          \* the handler's page counter
    todo,          \* rest of the array the for..of iterates over
    added,         \* indexers this run has added an UPDATE_INDEXER job for
    found,         \* ghost: how many indexers matched at the first query
    steady         \* ghost: those of them that have matched ever since

vars == <<matching, pc, attemptsMade, page, todo, added, found, steady>>
ghosts == <<found, steady>>

TypeOK ==
    /\ matching \subseteq Indexer
    /\ pc \in {"absent", "waiting", "query", "add"}
    /\ attemptsMade \in 0 .. Attempts - 1
    /\ page \in Nat
    /\ todo \subseteq Indexer
    /\ added \subseteq Indexer
    /\ found \in Nat
    /\ steady \subseteq matching

Init ==
    /\ matching \in SUBSET Indexer
    /\ pc = "absent"
    /\ attemptsMade = 0
    /\ page = 0
    /\ todo = {} /\ added = {}
    /\ found = 0 /\ steady = {}
-----------------------------------------------------------------------------
(* The environment: the listener adds the job; triggers come and go.       *)

\* The listener adds the job; while its id is in the queue an add is ignored.
PdaChange ==
    /\ pc = "absent"
    /\ pc' = "waiting"
    /\ attemptsMade' = 0
    /\ UNCHANGED <<matching, page, todo, added, ghosts>>

\* The first trigger of indexer i on the PDA is registered.
Match(i) ==
    /\ i \notin matching
    /\ matching' = matching \cup {i}
    /\ UNCHANGED <<pc, attemptsMade, page, todo, added, ghosts>>

\* The last trigger of indexer i on the PDA is deleted.
Unmatch(i) ==
    /\ i \in matching
    /\ matching' = matching \ {i}
    /\ steady' = steady \ {i}
    /\ UNCHANGED <<pc, attemptsMade, page, todo, added, found>>
-----------------------------------------------------------------------------
(* The handler.                                                            *)

\* Bull hands the job to the handler.
Take ==
    /\ pc = "waiting"
    /\ pc' = "query"
    /\ page' = 0 /\ todo' = {} /\ added' = {}
    /\ UNCHANGED <<matching, attemptsMade, ghosts>>

\* The query before the loops, the only one of page 0.
FirstQuery == page = 0

ObserveFirst ==
    IF FirstQuery
    THEN found' = Cardinality(matching) /\ steady' = matching
    ELSE UNCHANGED ghosts

\* A query of the for..of's body that is not its last: the result is unused.
QueryInBatch ==
    /\ pc = "query" /\ todo # {}
    /\ pc' = "add"
    /\ UNCHANGED <<matching, attemptsMade, page, todo, added, ghosts>>

\* The while finds the page just read non-empty and starts a for..of over it.
QueryNextBatch ==
    /\ pc = "query" /\ todo = {}
    /\ Page(matching, page) # {}
    /\ todo' = Page(matching, page)
    /\ pc' = "add"
    /\ ObserveFirst
    /\ UNCHANGED <<matching, attemptsMade, page, added>>

\* The while finds it empty: the job completes and Bull removes it.
QueryEmpty ==
    /\ pc = "query" /\ todo = {}
    /\ Page(matching, page) = {}
    /\ pc' = "absent"
    /\ ObserveFirst
    /\ UNCHANGED <<matching, attemptsMade, page, todo, added>>

\* Mutant: the page is not counted.
AddUpdateSamePage(i) ==
    /\ pc = "add" /\ i \in todo
    /\ added' = added \cup {i}
    /\ todo' = todo \ {i}
    /\ pc' = "query"
    /\ UNCHANGED <<matching, attemptsMade, page, ghosts>>

\* The for..of's body adds the job of indexer i and counts a page.
AddUpdate(i) ==
    /\ pc = "add" /\ i \in todo
    /\ added' = added \cup {i}
    /\ todo' = todo \ {i}
    /\ page' = page + 1
    /\ pc' = "query"
    /\ UNCHANGED <<matching, attemptsMade, ghosts>>

\* Mutant: one run too many.
ThrowOnceMore ==
    /\ pc \in {"query", "add"}
    /\ IF attemptsMade + 1 <= Attempts
       THEN pc' = "waiting" /\ attemptsMade' = attemptsMade + 1
       ELSE pc' = "absent" /\ attemptsMade' = 0
    /\ UNCHANGED <<matching, page, todo, added, ghosts>>

\* A query or an add throws: the handler rethrows, and Bull runs the job
\* again, after the backoff, until its attempts are used up and it is removed.
Throw ==
    /\ pc \in {"query", "add"}
    /\ IF attemptsMade + 1 < Attempts
       THEN pc' = "waiting" /\ attemptsMade' = attemptsMade + 1
       ELSE pc' = "absent" /\ attemptsMade' = 0
    /\ UNCHANGED <<matching, page, todo, added, ghosts>>

Handler ==
    \/ Take \/ QueryInBatch \/ QueryNextBatch \/ QueryEmpty
    \/ \E i \in Indexer : AddUpdate(i)

Next ==
    \/ PdaChange
    \/ \E i \in Indexer : Match(i) \/ Unmatch(i)
    \/ Handler
    \/ Throw

Spec == Init /\ [][Next]_vars

\* Bull's worker keeps driving the job it has taken; nothing else is promised.
FairSpec == Spec /\ WF_vars(Handler)
-----------------------------------------------------------------------------
(* Properties.                                                             *)

\* If no more indexers matched at the sweep's first query than fit on one
\* page, a sweep that ends without an error has added a job for each of them
\* that still matches, whatever was registered or deleted during the sweep:
\* the counter that runs ahead of the for..of does no harm on one page.
SmallSweepComplete ==
    [][QueryEmpty /\ found' <= GET_INDEXER_PAGING => steady' \subseteq added]_vars

\* Every registered PDA of an indexer that is swept is to be transformed: a
\* sweep that ends without an error has added a job for each indexer that
\* matched all along.  (It fails: `page++' is inside the for..of.)
SweepComplete == [][QueryEmpty => steady' \subseteq added]_vars

\* The fan-out of one run is bounded: whatever is registered during the sweep,
\* the adds made (one per page counted) and those of the batch still to come
\* never exceed the program's indexers.
FanOutBounded ==
    pc \in {"query", "add"} => page + Cardinality(todo) <= Cardinality(Indexer)

\* A run of the handler ends, although triggers may come and go between any
\* two of its queries and although every query made inside a batch is wasted.
SweepEnds == pc = "query" ~> pc \in {"absent", "waiting"}
=============================================================================
