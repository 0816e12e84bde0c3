------------------------------ MODULE Catalog ------------------------------
(***************************************************************************)
(* The catalog of IndexerService: indexers, the metadata of their tables,  *)
(* the tables themselves, triggers and transformers, under requests that   *)
(* overlap at every await.  A @Transactional request reads what is         *)
(* committed, keeps its own writes to itself and commits them at its end   *)
(* (PostgreSQL, READ COMMITTED); any await may throw, which rolls it back. *)
(*                                                                         *)
(* A request that is refused by a check (no such indexer of the caller, no *)
(* such table or trigger, a name taken) changes nothing and is left out.   *)
(***************************************************************************)
EXTENDS Integers, FiniteSets

CONSTANTS
    Request,   \* requests that can be under way at the same time
    Account,   \* accounts that passed IndexerGuard: their user names are final
    Indexer,   \* ids for indexers
    Slug,      \* what createSlug makes of indexer names
    Name,      \* names of tables, as typed
    FullName,  \* <<account, indexer, table name>> -> the relation PostgreSQL takes
               \* userName_id_tableName to mean; the SQL does not quote it, so it
               \* is folded to lower case, and two tables can have the same one
    MaxIds     \* bound: ids given out for the rows of the other three tables

ASSUME CatalogAssumption == DOMAIN FullName = Account \X Indexer \X Name /\ MaxIds \in Nat

VARIABLES
    indexers,      \* rows of indexer
    tables,        \* rows of indexer_table_metadata
    triggers,      \* rows of indexer_trigger
    transformers,  \* rows of transformer_pda
    relations,     \* the users' tables that exist in the database
    req,           \* the requests, each with what it knows and holds
    ids,           \* ids given out, those of rolled back rows too
    lenient        \* ghost: relations of which a CREATE TABLE IF NOT EXISTS found one
                   \* in place, or a DROP TABLE IF EXISTS none

rows == <<indexers, tables, triggers, transformers, relations>>
vars == <<rows, req, ids, lenient>>

Relation       == {FullName[x] : x \in Account \X Indexer \X Name}
IndexerRow     == [id : Indexer, owner : Account, slug : Slug]
TableRow       == [id : 1 .. MaxIds, indexer : Indexer, name : Name, full : Relation]
TransformerRow == [id : 1 .. MaxIds, indexer : Indexer]
TriggerRow     == [id : 1 .. MaxIds, indexer : Indexer, table : 1 .. MaxIds,
                   transformer : 1 .. MaxIds]

Idle == [step |-> "idle"]

\* The steps a request has behind it, with what it found, made or locked.
RequestState ==
    {Idle}
    \cup [step : {"slug checked"}, owner : Account, slug : Slug]
    \cup [step : {"name checked"}, owner : Account, indexer : Indexer, name : Name]
    \cup [step : {"created"}, row : TableRow, makes : SUBSET Relation]
    \cup [step : {"table found"}, row : TableRow]
    \cup [step : {"triggers deleted"}, row : TableRow, deletes : SUBSET TriggerRow]
    \cup [step : {"dropped"}, row : TableRow, deletes : SUBSET TriggerRow,
          drops : SUBSET Relation]
    \cup [step : {"located"}, indexer : Indexer, table : 1 .. MaxIds]
    \cup [step : {"linked"}, trigger : TriggerRow, transformer : TransformerRow]

TypeOK ==
    /\ indexers \subseteq IndexerRow
    /\ tables \subseteq TableRow
    /\ triggers \subseteq TriggerRow
    /\ transformers \subseteq TransformerRow
    /\ relations \subseteq Relation
    /\ req \in [Request -> RequestState]
    /\ ids \in 0 .. MaxIds
    /\ lenient \subseteq Relation

Init ==
    /\ indexers = {} /\ tables = {} /\ triggers = {} /\ transformers = {}
    /\ relations = {}
    /\ req = [r \in Request |-> Idle]
    /\ ids = 0
    /\ lenient = {}

Begins(r, state) == req[r] = Idle /\ req' = [req EXCEPT ![r] = state]
Goes(r, state)   == req' = [req EXCEPT ![r] = state]

\* An await of a request throws.
Abort(r) ==
    /\ req[r] # Idle
    /\ Goes(r, Idle)
    /\ UNCHANGED <<rows, ids, lenient>>

-----------------------------------------------------------------------------
(* createIndexerSpace: no transaction and no unique constraint *)

CheckSlug(r, a, s) ==
    /\ ~ \E x \in indexers : x.owner = a /\ x.slug = s
    /\ Begins(r, [step |-> "slug checked", owner |-> a, slug |-> s])
    /\ UNCHANGED <<rows, ids, lenient>>

SaveIndexer(r, i) ==
    /\ req[r].step = "slug checked"
    /\ \A x \in indexers : x.id # i
    /\ indexers' = indexers \cup {[id |-> i, owner |-> req[r].owner, slug |-> req[r].slug]}
    /\ Goes(r, Idle)
    /\ UNCHANGED <<tables, triggers, transformers, relations, ids, lenient>>

-----------------------------------------------------------------------------
(* createTable *)

CheckTable(r, x, n) ==
    /\ x \in indexers
    /\ ~ \E t \in tables : t.indexer = x.id /\ t.name = n
    /\ Begins(r, [step |-> "name checked", owner |-> x.owner, indexer |-> x.id, name |-> n])
    /\ UNCHANGED <<rows, ids, lenient>>

\* The relations that transactions under way are creating, or dropping.
Making   == UNION {req[r].makes : r \in {q \in Request : req[q].step = "created"}}
Dropping == UNION {req[r].drops : r \in {q \in Request : req[q].step = "dropped"}}

\* Mutant: the table is created outside the transaction.
CreateRelationAtOnce(r) ==
    LET full == FullName[<<req[r].owner, req[r].indexer, req[r].name>>]
        row  == [id |-> ids + 1, indexer |-> req[r].indexer, name |-> req[r].name,
                 full |-> full]
    IN  /\ req[r].step = "name checked"
        /\ ids < MaxIds
        /\ ids' = ids + 1
        /\ relations' = relations \cup {full}
        /\ Goes(r, [step |-> "created", row |-> row, makes |-> {}])
        /\ lenient' = lenient \cup ({full} \cap relations)
        /\ UNCHANGED <<indexers, tables, triggers, transformers>>

\* The row is saved and CREATE TABLE IF NOT EXISTS run.  It skips a relation
\* that is there, without locking it, and waits for another transaction that
\* is creating it; when that commits the statement fails, which is Abort.
CreateRelation(r) ==
    LET full == FullName[<<req[r].owner, req[r].indexer, req[r].name>>]
        row  == [id |-> ids + 1, indexer |-> req[r].indexer, name |-> req[r].name,
                 full |-> full]
    IN  /\ req[r].step = "name checked"
        /\ ids < MaxIds
        /\ full \in relations \/ full \notin Making
        /\ ids' = ids + 1
        /\ Goes(r, [step |-> "created", row |-> row, makes |-> {full} \ relations])
        /\ lenient' = lenient \cup ({full} \cap relations)
        /\ UNCHANGED rows

CommitTable(r) ==
    /\ req[r].step = "created"
    /\ tables' = tables \cup {req[r].row}
    /\ relations' = relations \cup req[r].makes
    /\ Goes(r, Idle)
    /\ UNCHANGED <<indexers, triggers, transformers, ids, lenient>>

-----------------------------------------------------------------------------
(* deleteTable *)

FindTable(r, t) ==
    /\ t \in tables
    /\ Begins(r, [step |-> "table found", row |-> t])
    /\ UNCHANGED <<rows, ids, lenient>>

\* A trigger that a transaction under way has deleted: others wait for it.
Locked(g) == \E q \in Request :
    req[q].step \in {"triggers deleted", "dropped"} /\ g \in req[q].deletes

DeleteTriggers(r) ==
    LET deletes == {g \in triggers : g.table = req[r].row.id}
    IN  /\ req[r].step = "table found"
        /\ \A g \in deletes : ~Locked(g)
        /\ Goes(r, [step |-> "triggers deleted", row |-> req[r].row, deletes |-> deletes])
        /\ UNCHANGED <<rows, ids, lenient>>

\* DROP TABLE IF EXISTS: it waits for another transaction that drops it.
DropRelation(r) ==
    LET full == req[r].row.full
    IN  /\ req[r].step = "triggers deleted"
        /\ full \notin Dropping
        /\ Goes(r, [step |-> "dropped", row |-> req[r].row, deletes |-> req[r].deletes,
                    drops |-> {full} \cap relations])
        /\ lenient' = lenient \cup ({full} \ relations)
        /\ UNCHANGED <<rows, ids>>

\* Every row of the indexer and name is deleted, not only the one found, and
\* the transaction commits.  The statement waits for a transaction whose new
\* trigger refers to such a row; when a trigger that is not deleted refers to
\* one it fails, which is Abort.
DeleteRows(r) ==
    LET gone == {t \in tables : t.indexer = req[r].row.indexer /\ t.name = req[r].row.name}
        kept == triggers \ req[r].deletes
        new  == {req[q].trigger : q \in {p \in Request : req[p].step = "linked"}}
    IN  /\ req[r].step = "dropped"
        /\ \A t \in gone, g \in kept \cup new : g.table # t.id
        /\ tables' = tables \ gone
        /\ triggers' = kept
        /\ relations' = relations \ req[r].drops
        /\ Goes(r, Idle)
        /\ UNCHANGED <<indexers, transformers, ids, lenient>>

-----------------------------------------------------------------------------
(* registerIndexerWithTransform and deleteTrigger *)

\* Mutant: the table is looked up by its name.
LocateTableByName(r, x, t) ==
    /\ x \in indexers /\ t \in tables
    /\ t.indexer = x.id
    /\ Begins(r, [step |-> "located", indexer |-> x.id, table |-> t.name])
    /\ UNCHANGED <<rows, ids, lenient>>

\* Mutant: it is looked up by its id alone.
LocateTableAnywhere(r, x, t) ==
    /\ x \in indexers /\ t \in tables
    /\ Begins(r, [step |-> "located", indexer |-> x.id, table |-> t.id])
    /\ UNCHANGED <<rows, ids, lenient>>

\* The transformer is inserted and the table looked up, both for the indexer.
LocateTable(r, x, t) ==
    /\ x \in indexers /\ t \in tables
    /\ t.indexer = x.id
    /\ Begins(r, [step |-> "located", indexer |-> x.id, table |-> t.id])
    /\ UNCHANGED <<rows, ids, lenient>>

\* The foreign key asks for the table's row once more, and locks it.
SaveTrigger(r) ==
    LET id == ids + 1
    IN  /\ req[r].step = "located"
        /\ ids < MaxIds
        /\ \E t \in tables : t.id = req[r].table
        /\ ids' = id
        /\ Goes(r, [step |-> "linked",
                    transformer |-> [id |-> id, indexer |-> req[r].indexer],
                    trigger |-> [id |-> id, indexer |-> req[r].indexer,
                                 table |-> req[r].table, transformer |-> id]])
        /\ UNCHANGED <<rows, lenient>>

CommitTrigger(r) ==
    /\ req[r].step = "linked"
    /\ transformers' = transformers \cup {req[r].transformer}
    /\ triggers' = triggers \cup {req[r].trigger}
    /\ Goes(r, Idle)
    /\ UNCHANGED <<indexers, tables, relations, ids, lenient>>

\* Looked up and deleted: nothing that comes between the two matters.
DeleteTrigger(g) ==
    /\ g \in triggers /\ ~Locked(g)
    /\ triggers' = triggers \ {g}
    /\ UNCHANGED <<indexers, tables, transformers, relations, req, ids, lenient>>

-----------------------------------------------------------------------------
Next ==
    \/ \E r \in Request :
        \/ Abort(r)
        \/ \E a \in Account, s \in Slug : CheckSlug(r, a, s)
        \/ \E i \in Indexer : SaveIndexer(r, i)
        \/ \E x \in indexers, n \in Name : CheckTable(r, x, n)
        \/ CreateRelation(r) \/ CommitTable(r)
        \/ \E t \in tables : FindTable(r, t)
        \/ DeleteTriggers(r) \/ DropRelation(r) \/ DeleteRows(r)
        \/ \E x \in indexers, t \in tables : LocateTable(r, x, t)
        \/ SaveTrigger(r) \/ CommitTrigger(r)
    \/ \E g \in triggers : DeleteTrigger(g)

Spec == Init /\ [][Next]_vars

-----------------------------------------------------------------------------
\* A trigger's table and transformer exist and are of the trigger's indexer:
\* the pipeline reads all three of a trigger, and a deleteTable that overlaps
\* a registration leaves none of them without the others.
References ==
    \A g \in triggers :
        /\ \E t \in tables : t.id = g.table /\ t.indexer = g.indexer
        /\ \E x \in transformers : x.id = g.transformer /\ x.indexer = g.indexer

\* Relations that one table alone can go by.
Unshared == {f \in Relation :
    \A x, y \in DOMAIN FullName : FullName[x] = f /\ FullName[y] = f => x = y}

\* The catalog and the database agree on which tables there are, however
\* requests overlap and wherever they fail: a transaction that fails half way
\* leaves no table without its row and no row without its table.  Left out
\* are relations whose names several tables share, and those of which an IF
\* EXISTS or an IF NOT EXISTS has let pass what an overlapping request did.
InStep ==
    \A f \in Unshared \ lenient :
        f \in relations <=> \E t \in tables : t.full = f
=============================================================================
