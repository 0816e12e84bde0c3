--------------------------- MODULE Catalog_proofs ---------------------------
(***************************************************************************)
(* What the catalog guarantees for all accounts, indexers and names, for   *)
(* every way in which names share a relation, and any number of requests   *)
(* that overlap.                                                           *)
(***************************************************************************)
EXTENDS Catalog, TLAPS
-----------------------------------------------------------------------------
(* Requests.                                                               *)

\* What a request at each step knows.
LEMMA States ==
    ASSUME NEW x \in RequestState
    PROVE  /\ x.step = "slug checked" => x.owner \in Account /\ x.slug \in Slug
           /\ x.step = "name checked" =>
                 x.owner \in Account /\ x.indexer \in Indexer /\ x.name \in Name
           /\ x.step = "created" => x.row \in TableRow /\ x.makes \subseteq Relation
           /\ x.step \in {"table found", "triggers deleted", "dropped"} => x.row \in TableRow
           /\ x.step \in {"triggers deleted", "dropped"} => x.deletes \subseteq TriggerRow
           /\ x.step = "dropped" => x.drops \subseteq Relation
           /\ x.step = "located" => x.indexer \in Indexer /\ x.table \in 1 .. MaxIds
           /\ x.step = "linked" => x.trigger \in TriggerRow /\ x.transformer \in TransformerRow
<1>1. CASE x = Idle
    BY <1>1 DEF Idle
<1>2. CASE x \in [step : {"slug checked"}, owner : Account, slug : Slug]
    BY <1>2
<1>3. CASE x \in [step : {"name checked"}, owner : Account, indexer : Indexer, name : Name]
    BY <1>3
<1>4. CASE x \in [step : {"created"}, row : TableRow, makes : SUBSET Relation]
    BY <1>4
<1>5. CASE x \in [step : {"table found"}, row : TableRow]
    BY <1>5
<1>6. CASE x \in [step : {"triggers deleted"}, row : TableRow, deletes : SUBSET TriggerRow]
    BY <1>6
<1>7. CASE x \in [step : {"dropped"}, row : TableRow, deletes : SUBSET TriggerRow,
                  drops : SUBSET Relation]
    BY <1>7
<1>8. CASE x \in [step : {"located"}, indexer : Indexer, table : 1 .. MaxIds]
    BY <1>8
<1>9. CASE x \in [step : {"linked"}, trigger : TriggerRow, transformer : TransformerRow]
    BY <1>9
<1> QED
    BY <1>1, <1>2, <1>3, <1>4, <1>5, <1>6, <1>7, <1>8, <1>9 DEF RequestState

\* A request that begins or goes on; the others stay where they are.
LEMMA ReqOf ==
    ASSUME TypeOK, NEW r \in Request, NEW x, Begins(r, x) \/ Goes(r, x)
    PROVE  /\ \A q \in Request : req'[q] = IF q = r THEN x ELSE req[q]
           /\ x \in RequestState => req' \in [Request -> RequestState]
    BY DEF TypeOK, Begins, Goes

LEMMA IdleTyped == Idle \in RequestState /\ Idle.step = "idle"
    BY DEF RequestState, Idle
-----------------------------------------------------------------------------
(* Types.                                                                  *)

LEMMA StepTyped == TypeOK /\ [Next]_vars => TypeOK'
<1> SUFFICES ASSUME TypeOK, [Next]_vars PROVE TypeOK'
    OBVIOUS
<1>0. /\ indexers \subseteq IndexerRow /\ tables \subseteq TableRow
      /\ triggers \subseteq TriggerRow /\ transformers \subseteq TransformerRow
      /\ relations \subseteq Relation /\ req \in [Request -> RequestState]
      /\ ids \in 0 .. MaxIds /\ lenient \subseteq Relation /\ MaxIds \in Nat
    BY CatalogAssumption DEF TypeOK
<1>s. \A r \in Request : req[r] \in RequestState
    BY <1>0
<1>1. ASSUME NEW r \in Request, Abort(r) PROVE TypeOK'
    BY <1>0, <1>1, ReqOf, IdleTyped DEF Abort, rows, TypeOK
<1>2. ASSUME NEW r \in Request, NEW a \in Account, NEW s \in Slug, CheckSlug(r, a, s)
      PROVE  TypeOK'
    <2>1. [step |-> "slug checked", owner |-> a, slug |-> s] \in RequestState
        BY DEF RequestState
    <2> QED
        BY <1>0, <1>2, <2>1, ReqOf DEF CheckSlug, rows, TypeOK
<1>3. ASSUME NEW r \in Request, NEW i \in Indexer, SaveIndexer(r, i) PROVE TypeOK'
    <2>1. req[r].owner \in Account /\ req[r].slug \in Slug
        BY <1>s, <1>3, States DEF SaveIndexer
    <2>2. indexers' \subseteq IndexerRow
        <3>1. [id |-> i, owner |-> req[r].owner, slug |-> req[r].slug] \in IndexerRow
            BY <2>1 DEF IndexerRow
        <3> QED
            BY <1>0, <1>3, <3>1 DEF SaveIndexer
    <2> QED
        BY <1>0, <1>3, <2>2, ReqOf, IdleTyped DEF SaveIndexer, TypeOK
<1>4. ASSUME NEW r \in Request, NEW x \in indexers, NEW n \in Name, CheckTable(r, x, n)
      PROVE  TypeOK'
    <2>1. x.owner \in Account /\ x.id \in Indexer
        BY <1>0 DEF IndexerRow
    <2>2. [step |-> "name checked", owner |-> x.owner, indexer |-> x.id, name |-> n]
              \in RequestState
        BY <2>1 DEF RequestState
    <2> QED
        BY <1>0, <1>4, <2>2, ReqOf DEF CheckTable, rows, TypeOK
<1>5. ASSUME NEW r \in Request, CreateRelation(r) PROVE TypeOK'
    <2> DEFINE full == FullName[<<req[r].owner, req[r].indexer, req[r].name>>]
               row == [id |-> ids + 1, indexer |-> req[r].indexer, name |-> req[r].name,
                       full |-> full]
               x == [step |-> "created", row |-> row, makes |-> {full} \ relations]
    <2>1. req[r].step = "name checked" /\ ids < MaxIds /\ ids' = ids + 1
        BY <1>5 DEF CreateRelation
    <2>2. Goes(r, x)
        BY <1>5 DEF CreateRelation
    <2>3. lenient' = lenient \cup ({full} \cap relations) /\ UNCHANGED rows
        BY <1>5 DEF CreateRelation
    <2>4. req[r].owner \in Account /\ req[r].indexer \in Indexer /\ req[r].name \in Name
        BY <1>s, <2>1, States
    <2>5. full \in Relation
        BY <2>4 DEF Relation
    <2>11. ids < MaxIds /\ ids' = ids + 1
        BY <2>1
    <2>6. ids + 1 \in 1 .. MaxIds
        BY <1>0, <2>11
    <2> HIDE DEF full
    <2>7. row \in TableRow
        BY <2>4, <2>5, <2>6 DEF TableRow
    <2> HIDE DEF row
    <2>8. x \in RequestState
        BY <2>5, <2>7 DEF RequestState
    <2> HIDE DEF x
    <2>9. req' \in [Request -> RequestState]
        BY <2>2, <2>8, ReqOf
    <2>10. ids' \in 0 .. MaxIds
        BY <2>6, <2>11
    <2> QED
        BY <1>0, <2>3, <2>5, <2>9, <2>10 DEF TypeOK, rows
<1>6. ASSUME NEW r \in Request, CommitTable(r) PROVE TypeOK'
    <2>1. req[r].row \in TableRow /\ req[r].makes \subseteq Relation
        BY <1>s, <1>6, States DEF CommitTable
    <2> QED
        BY <1>0, <1>6, <2>1, ReqOf, IdleTyped DEF CommitTable, TypeOK
<1>7. ASSUME NEW r \in Request, NEW t \in tables, FindTable(r, t) PROVE TypeOK'
    <2>1. [step |-> "table found", row |-> t] \in RequestState
        BY <1>0 DEF RequestState
    <2> QED
        BY <1>0, <1>7, <2>1, ReqOf DEF FindTable, rows, TypeOK
<1>8. ASSUME NEW r \in Request, DeleteTriggers(r) PROVE TypeOK'
    <2> DEFINE deletes == {g \in triggers : g.table = req[r].row.id}
               x == [step |-> "triggers deleted", row |-> req[r].row, deletes |-> deletes]
    <2>1. req[r].row \in TableRow
        BY <1>s, <1>8, States DEF DeleteTriggers
    <2>2. x \in RequestState
        BY <1>0, <2>1 DEF RequestState
    <2>3. Goes(r, x) /\ UNCHANGED <<rows, ids, lenient>>
        BY <1>8 DEF DeleteTriggers
    <2> HIDE DEF x
    <2> QED
        BY <1>0, <2>2, <2>3, ReqOf DEF rows, TypeOK
<1>9. ASSUME NEW r \in Request, DropRelation(r) PROVE TypeOK'
    <2> DEFINE full == req[r].row.full
               x == [step |-> "dropped", row |-> req[r].row, deletes |-> req[r].deletes,
                     drops |-> {full} \cap relations]
    <2>1. req[r].row \in TableRow /\ req[r].deletes \subseteq TriggerRow
        BY <1>s, <1>9, States DEF DropRelation
    <2>2. full \in Relation
        BY <2>1 DEF TableRow
    <2>3. x \in RequestState
        BY <1>0, <2>1, <2>2 DEF RequestState
    <2>4. Goes(r, x) /\ lenient' = lenient \cup ({full} \ relations) /\ UNCHANGED <<rows, ids>>
        BY <1>9 DEF DropRelation
    <2> HIDE DEF x
    <2> QED
        BY <1>0, <2>2, <2>3, <2>4, ReqOf DEF rows, TypeOK
<1>10. ASSUME NEW r \in Request, DeleteRows(r) PROVE TypeOK'
    <2>1. /\ tables' \subseteq tables /\ triggers' \subseteq triggers
          /\ relations' \subseteq relations
          /\ Goes(r, Idle) /\ UNCHANGED <<indexers, transformers, ids, lenient>>
        BY <1>10 DEF DeleteRows
    <2> QED
        BY <1>0, <2>1, ReqOf, IdleTyped DEF TypeOK
<1>11. ASSUME NEW r \in Request, NEW x \in indexers, NEW t \in tables, LocateTable(r, x, t)
       PROVE  TypeOK'
    <2>1. x.id \in Indexer /\ t.id \in 1 .. MaxIds
        BY <1>0 DEF IndexerRow, TableRow
    <2>2. [step |-> "located", indexer |-> x.id, table |-> t.id] \in RequestState
        BY <2>1 DEF RequestState
    <2> QED
        BY <1>0, <1>11, <2>2, ReqOf DEF LocateTable, rows, TypeOK
<1>12. ASSUME NEW r \in Request, SaveTrigger(r) PROVE TypeOK'
    <2> DEFINE transformer == [id |-> ids + 1, indexer |-> req[r].indexer]
               trigger == [id |-> ids + 1, indexer |-> req[r].indexer,
                           table |-> req[r].table, transformer |-> ids + 1]
               x == [step |-> "linked", transformer |-> transformer, trigger |-> trigger]
    <2>1. req[r].step = "located" /\ ids < MaxIds /\ ids' = ids + 1 /\ UNCHANGED <<rows, lenient>>
        BY <1>12 DEF SaveTrigger
    <2>2. Goes(r, x)
        BY <1>12 DEF SaveTrigger
    <2>3. req[r].indexer \in Indexer /\ req[r].table \in 1 .. MaxIds
        BY <1>s, <2>1, States
    <2>4. ids < MaxIds /\ ids' = ids + 1
        BY <2>1
    <2>5. ids + 1 \in 1 .. MaxIds
        BY <1>0, <2>4
    <2>6. transformer \in TransformerRow
        BY <2>3, <2>5 DEF TransformerRow
    <2>7. trigger \in TriggerRow
        BY <2>3, <2>5 DEF TriggerRow
    <2> HIDE DEF transformer, trigger
    <2>8. x \in RequestState
        BY <2>6, <2>7 DEF RequestState
    <2> HIDE DEF x
    <2>9. req' \in [Request -> RequestState]
        BY <2>2, <2>8, ReqOf
    <2>10. ids' \in 0 .. MaxIds
        BY <2>4, <2>5
    <2> QED
        BY <1>0, <2>1, <2>9, <2>10 DEF TypeOK, rows
<1>13. ASSUME NEW r \in Request, CommitTrigger(r) PROVE TypeOK'
    <2>1. req[r].trigger \in TriggerRow /\ req[r].transformer \in TransformerRow
        BY <1>s, <1>13, States DEF CommitTrigger
    <2> QED
        BY <1>0, <1>13, <2>1, ReqOf, IdleTyped DEF CommitTrigger, TypeOK
<1>14. ASSUME NEW g \in triggers, DeleteTrigger(g) PROVE TypeOK'
    BY <1>0, <1>14 DEF DeleteTrigger, TypeOK
<1>15. CASE UNCHANGED vars
    BY <1>0, <1>15 DEF vars, rows, TypeOK
<1> QED
    BY <1>1, <1>2, <1>3, <1>4, <1>5, <1>6, <1>7, <1>8, <1>9, <1>10, <1>11, <1>12, <1>13,
       <1>14, <1>15 DEF Next
-----------------------------------------------------------------------------
(* What each action makes of its request.                                  *)

To(r, s) == req'[r].step = s /\ \A q \in Request : q # r => req'[q] = req[q]

LEMMA ToIdle ==
    ASSUME TypeOK, NEW r \in Request, Goes(r, Idle)
    PROVE  To(r, "idle")
    BY ReqOf, IdleTyped DEF To

LEMMA ToSlugChecked ==
    ASSUME TypeOK, NEW r \in Request, NEW a \in Account, NEW n \in Slug, CheckSlug(r, a, n)
    PROVE  To(r, "slug checked")
<1> DEFINE x == [step |-> "slug checked", owner |-> a, slug |-> n]
<1>1. Begins(r, x)
    BY DEF CheckSlug
<1>2. x.step = "slug checked"
    OBVIOUS
<1> HIDE DEF x
<1>3. \A q \in Request : req'[q] = IF q = r THEN x ELSE req[q]
    BY <1>1, ReqOf
<1> QED
    BY <1>2, <1>3 DEF To

LEMMA ToNameChecked ==
    ASSUME TypeOK, NEW r \in Request, NEW i \in indexers, NEW n \in Name, CheckTable(r, i, n)
    PROVE  /\ To(r, "name checked")
           /\ req'[r].owner = i.owner /\ req'[r].indexer = i.id /\ req'[r].name = n
<1> DEFINE x == [step |-> "name checked", owner |-> i.owner, indexer |-> i.id, name |-> n]
<1>1. Begins(r, x)
    BY DEF CheckTable
<1>2. x.step = "name checked" /\ x.owner = i.owner /\ x.indexer = i.id /\ x.name = n
    OBVIOUS
<1> HIDE DEF x
<1>3. \A q \in Request : req'[q] = IF q = r THEN x ELSE req[q]
    BY <1>1, ReqOf
<1> QED
    BY <1>2, <1>3 DEF To

\* The name of the relation that a request which checked a name goes for.
Wanted(r) == FullName[<<req[r].owner, req[r].indexer, req[r].name>>]

LEMMA ToCreated ==
    ASSUME TypeOK, NEW r \in Request, CreateRelation(r)
    PROVE  /\ To(r, "created")
           /\ req'[r].row.id = ids + 1 /\ req'[r].row.indexer = req[r].indexer
           /\ req'[r].row.name = req[r].name /\ req'[r].row.full = Wanted(r)
           /\ req'[r].makes = {Wanted(r)} \ relations
<1> DEFINE row == [id |-> ids + 1, indexer |-> req[r].indexer, name |-> req[r].name,
                   full |-> Wanted(r)]
           x == [step |-> "created", row |-> row, makes |-> {Wanted(r)} \ relations]
<1>1. Goes(r, x)
    BY DEF CreateRelation, Wanted
<1>2. /\ row.id = ids + 1 /\ row.indexer = req[r].indexer
      /\ row.name = req[r].name /\ row.full = Wanted(r)
    OBVIOUS
<1>3. x.step = "created" /\ x.row = row /\ x.makes = {Wanted(r)} \ relations
    OBVIOUS
<1> HIDE DEF x, row
<1>4. \A q \in Request : req'[q] = IF q = r THEN x ELSE req[q]
    BY <1>1, ReqOf
<1> QED
    BY <1>2, <1>3, <1>4 DEF To

LEMMA ToFound ==
    ASSUME TypeOK, NEW r \in Request, NEW t \in tables, FindTable(r, t)
    PROVE  To(r, "table found") /\ req'[r].row = t
<1> DEFINE x == [step |-> "table found", row |-> t]
<1>1. Begins(r, x)
    BY DEF FindTable
<1>2. x.step = "table found" /\ x.row = t
    OBVIOUS
<1> HIDE DEF x
<1>3. \A q \in Request : req'[q] = IF q = r THEN x ELSE req[q]
    BY <1>1, ReqOf
<1> QED
    BY <1>2, <1>3 DEF To

LEMMA ToTriggersDeleted ==
    ASSUME TypeOK, NEW r \in Request, DeleteTriggers(r)
    PROVE  To(r, "triggers deleted") /\ req'[r].row = req[r].row
<1> DEFINE deletes == {g \in triggers : g.table = req[r].row.id}
           x == [step |-> "triggers deleted", row |-> req[r].row, deletes |-> deletes]
<1>1. Goes(r, x)
    BY DEF DeleteTriggers
<1>2. x.step = "triggers deleted" /\ x.row = req[r].row
    OBVIOUS
<1> HIDE DEF x
<1>3. \A q \in Request : req'[q] = IF q = r THEN x ELSE req[q]
    BY <1>1, ReqOf
<1> QED
    BY <1>2, <1>3 DEF To

LEMMA ToDropped ==
    ASSUME TypeOK, NEW r \in Request, DropRelation(r)
    PROVE  /\ To(r, "dropped") /\ req'[r].row = req[r].row
           /\ req'[r].drops = {req[r].row.full} \cap relations
<1> DEFINE x == [step |-> "dropped", row |-> req[r].row, deletes |-> req[r].deletes,
                 drops |-> {req[r].row.full} \cap relations]
<1>1. Goes(r, x)
    BY DEF DropRelation
<1>2. /\ x.step = "dropped" /\ x.row = req[r].row
      /\ x.drops = {req[r].row.full} \cap relations
    OBVIOUS
<1> HIDE DEF x
<1>3. \A q \in Request : req'[q] = IF q = r THEN x ELSE req[q]
    BY <1>1, ReqOf
<1> QED
    BY <1>2, <1>3 DEF To

LEMMA ToLocated ==
    ASSUME TypeOK, NEW r \in Request, NEW i \in indexers, NEW t \in tables, LocateTable(r, i, t)
    PROVE  To(r, "located") /\ req'[r].indexer = i.id /\ req'[r].table = t.id
<1> DEFINE x == [step |-> "located", indexer |-> i.id, table |-> t.id]
<1>1. Begins(r, x)
    BY DEF LocateTable
<1>2. x.step = "located" /\ x.indexer = i.id /\ x.table = t.id
    OBVIOUS
<1> HIDE DEF x
<1>3. \A q \in Request : req'[q] = IF q = r THEN x ELSE req[q]
    BY <1>1, ReqOf
<1> QED
    BY <1>2, <1>3 DEF To

LEMMA ToLinked ==
    ASSUME TypeOK, NEW r \in Request, SaveTrigger(r)
    PROVE  /\ To(r, "linked")
           /\ req'[r].trigger.indexer = req[r].indexer /\ req'[r].trigger.table = req[r].table
           /\ req'[r].transformer.indexer = req[r].indexer
           /\ req'[r].transformer.id = req'[r].trigger.transformer
<1> DEFINE transformer == [id |-> ids + 1, indexer |-> req[r].indexer]
           trigger == [id |-> ids + 1, indexer |-> req[r].indexer,
                       table |-> req[r].table, transformer |-> ids + 1]
           x == [step |-> "linked", transformer |-> transformer, trigger |-> trigger]
<1>1. Goes(r, x)
    BY DEF SaveTrigger
<1>2. /\ trigger.indexer = req[r].indexer /\ trigger.table = req[r].table
      /\ transformer.indexer = req[r].indexer /\ transformer.id = trigger.transformer
    OBVIOUS
<1>3. x.step = "linked" /\ x.transformer = transformer /\ x.trigger = trigger
    OBVIOUS
<1> HIDE DEF x, transformer, trigger
<1>4. \A q \in Request : req'[q] = IF q = r THEN x ELSE req[q]
    BY <1>1, ReqOf
<1> QED
    BY <1>2, <1>3, <1>4 DEF To
-----------------------------------------------------------------------------
(* Ids, and what triggers refer to.                                        *)

Creating(r) == req[r].step = "created"

\* Ids are given out once, also to rows that are not committed yet.
IdsApart ==
    /\ \A t \in tables : t.id <= ids
    /\ \A t, u \in tables : t.id = u.id => t = u
    /\ \A r \in Request : Creating(r) =>
          req[r].row.id <= ids /\ \A t \in tables : t.id # req[r].row.id
    /\ \A q, r \in Request : Creating(q) /\ Creating(r) /\ req[q].row.id = req[r].row.id
          => q = r

\* The table a registration has looked up is of its indexer, if it still exists.
LocatedOwn ==
    \A r \in Request : req[r].step = "located" =>
        /\ req[r].table <= ids
        /\ \A t \in tables : t.id = req[r].table => t.indexer = req[r].indexer
        /\ \A q \in Request : Creating(q) => req[q].row.id # req[r].table

\* The table that a trigger about to be committed refers to cannot go.
LinkedOwn ==
    \A r \in Request : req[r].step = "linked" =>
        /\ \E t \in tables : /\ t.id = req[r].trigger.table
                             /\ t.indexer = req[r].trigger.indexer
        /\ req[r].transformer.id = req[r].trigger.transformer
        /\ req[r].transformer.indexer = req[r].trigger.indexer

Linked == IdsApart /\ LocatedOwn /\ LinkedOwn /\ References

\* A step that neither makes a row, nor refers to one.
LEMMA LinkedStep ==
    ASSUME Linked, UNCHANGED <<tables, ids, transformers>>, triggers' \subseteq triggers,
           \A q \in Request :
              req'[q].step \in {"created", "located", "linked"} => req'[q] = req[q]
    PROVE  Linked'
<1>1. IdsApart'
    BY DEF Linked, IdsApart, Creating
<1>2. LocatedOwn'
    BY DEF Linked, LocatedOwn, Creating
<1>3. LinkedOwn'
    BY DEF Linked, LinkedOwn
<1>4. References'
    BY DEF Linked, References
<1> QED
    BY <1>1, <1>2, <1>3, <1>4 DEF Linked

LEMMA LinkedKept == TypeOK /\ Linked /\ [Next]_vars => Linked'
<1> SUFFICES ASSUME TypeOK, Linked, [Next]_vars PROVE Linked'
    OBVIOUS
<1>0. /\ tables \subseteq TableRow /\ ids \in Nat /\ \A t \in TableRow : t.id \in Nat
      /\ \A r \in Request : Creating(r) => req[r].row.id \in Nat
      /\ \A r \in Request : req[r].step = "located" => req[r].table \in Nat
    <2>1. /\ tables \subseteq TableRow /\ ids \in 0 .. MaxIds /\ MaxIds \in Nat
          /\ \A r \in Request : req[r] \in RequestState
        BY CatalogAssumption DEF TypeOK
    <2>2. \A t \in TableRow : t.id \in 1 .. MaxIds
        BY DEF TableRow
    <2>3. 1 .. MaxIds \subseteq Nat
        BY <2>1
    <2>4. \A r \in Request : Creating(r) => req[r].row \in TableRow
        BY <2>1, States DEF Creating
    <2>5. \A r \in Request : req[r].step = "located" => req[r].table \in 1 .. MaxIds
        BY <2>1, States
    <2>6. ids \in Nat
        BY <2>1
    <2> QED
        BY <2>1, <2>2, <2>3, <2>4, <2>5, <2>6
<1>1. ASSUME NEW r \in Request,
             \/ Abort(r)
             \/ \E a \in Account, s \in Slug : CheckSlug(r, a, s)
             \/ \E i \in Indexer : SaveIndexer(r, i)
             \/ \E x \in indexers, n \in Name : CheckTable(r, x, n)
             \/ \E t \in tables : FindTable(r, t)
             \/ DeleteTriggers(r) \/ DropRelation(r)
      PROVE  Linked'
    <2>1. UNCHANGED <<tables, ids, transformers, triggers>>
        BY <1>1 DEF Abort, CheckSlug, SaveIndexer, CheckTable, FindTable, DeleteTriggers,
            DropRelation, rows
    <2>2. \/ To(r, "idle") \/ To(r, "slug checked") \/ To(r, "name checked")
          \/ To(r, "table found") \/ To(r, "triggers deleted") \/ To(r, "dropped")
        BY <1>1, ToIdle, ToSlugChecked, ToNameChecked, ToFound, ToTriggersDeleted, ToDropped
        DEF Abort, SaveIndexer
    <2>3. \A q \in Request :
             req'[q].step \in {"created", "located", "linked"} => req'[q] = req[q]
        BY <2>2 DEF To
    <2> QED
        BY <2>1, <2>3, LinkedStep
<1>2. ASSUME NEW r \in Request, CreateRelation(r) PROVE Linked'
    <2>1. ids' = ids + 1 /\ UNCHANGED <<tables, transformers, triggers>>
        BY <1>2 DEF CreateRelation, rows
    <2>2. /\ To(r, "created") /\ req'[r].row.id = ids + 1
        BY <1>2, ToCreated
    <2>3. \A n \in Nat : n <= ids => n <= ids' /\ n # ids + 1
        BY <1>0, <2>1
    <2>4. \A q \in Request : Creating(q)' =>
             \/ q = r /\ req'[q].row.id = ids + 1
             \/ q # r /\ Creating(q) /\ req'[q] = req[q]
        BY <2>2 DEF To, Creating
    <2>5. \A q \in Request : req'[q].step \in {"located", "linked"} => req'[q] = req[q]
        BY <2>2 DEF To
    <2>6. ids + 1 <= ids'
        BY <1>0, <2>1
    <2>7. IdsApart'
        BY <1>0, <2>1, <2>3, <2>4, <2>6 DEF Linked, IdsApart
    <2>8. LocatedOwn'
        BY <1>0, <2>1, <2>3, <2>4, <2>5 DEF Linked, LocatedOwn
    <2>9. LinkedOwn' /\ References'
        BY <2>1, <2>5 DEF Linked, LinkedOwn, References
    <2> QED
        BY <2>7, <2>8, <2>9 DEF Linked
<1>3. ASSUME NEW r \in Request, CommitTable(r) PROVE Linked'
    <2>1. /\ Creating(r) /\ tables' = tables \cup {req[r].row}
          /\ UNCHANGED <<ids, transformers, triggers>>
        BY <1>3 DEF CommitTable, Creating
    <2>2. To(r, "idle")
        BY <1>3, ToIdle DEF CommitTable
    <2>3. \A q \in Request :
             req'[q].step \in {"created", "located", "linked"} => req'[q] = req[q] /\ q # r
        BY <2>2 DEF To
    <2>4. IdsApart'
        BY <2>1, <2>3 DEF Linked, IdsApart, Creating
    <2>5. LocatedOwn'
        BY <2>1, <2>3 DEF Linked, LocatedOwn, Creating
    <2>6. LinkedOwn' /\ References'
        BY <2>1, <2>3 DEF Linked, LinkedOwn, References
    <2> QED
        BY <2>4, <2>5, <2>6 DEF Linked
<1>4. ASSUME NEW r \in Request, DeleteRows(r) PROVE Linked'
    <2> DEFINE gone == {t \in tables : /\ t.indexer = req[r].row.indexer
                                       /\ t.name = req[r].row.name}
               new == {req[q].trigger : q \in {p \in Request : req[p].step = "linked"}}
    <2>1. /\ tables' = tables \ gone /\ triggers' = triggers \ req[r].deletes
          /\ \A t \in gone, g \in triggers' \cup new : g.table # t.id
          /\ UNCHANGED <<ids, transformers>>
        BY <1>4 DEF DeleteRows
    <2>2. To(r, "idle")
        BY <1>4, ToIdle DEF DeleteRows
    <2>3. \A q \in Request :
             req'[q].step \in {"created", "located", "linked"} => req'[q] = req[q]
        BY <2>2 DEF To
    <2>4. \A q \in Request : req[q].step = "linked" => req[q].trigger \in new
        OBVIOUS
    <2> HIDE DEF gone, new
    <2>5. IdsApart'
        BY <2>1, <2>3 DEF Linked, IdsApart, Creating
    <2>6. LocatedOwn'
        BY <2>1, <2>3 DEF Linked, LocatedOwn, Creating
    <2>7. LinkedOwn'
        BY <2>1, <2>3, <2>4 DEF Linked, LinkedOwn
    <2>8. References'
        BY <2>1 DEF Linked, References
    <2> QED
        BY <2>5, <2>6, <2>7, <2>8 DEF Linked
<1>5. ASSUME NEW r \in Request, NEW x \in indexers, NEW t \in tables, LocateTable(r, x, t)
      PROVE  Linked'
    <2>1. t.indexer = x.id /\ UNCHANGED <<tables, ids, transformers, triggers>>
        BY <1>5 DEF LocateTable, rows
    <2>2. To(r, "located") /\ req'[r].indexer = x.id /\ req'[r].table = t.id
        BY <1>5, ToLocated
    <2>3. \A q \in Request : req'[q].step \in {"created", "linked"} => req'[q] = req[q]
        BY <2>2 DEF To
    <2>4. IdsApart'
        BY <2>1, <2>3 DEF Linked, IdsApart, Creating
    <2>5. LocatedOwn'
        BY <2>1, <2>2, <2>3 DEF To, Linked, LocatedOwn, IdsApart, Creating
    <2>6. LinkedOwn' /\ References'
        BY <2>1, <2>3 DEF Linked, LinkedOwn, References
    <2> QED
        BY <2>4, <2>5, <2>6 DEF Linked
<1>6. ASSUME NEW r \in Request, SaveTrigger(r) PROVE Linked'
    <2>1. /\ req[r].step = "located" /\ ids' = ids + 1
          /\ \E t \in tables : t.id = req[r].table
          /\ UNCHANGED <<tables, transformers, triggers>>
        BY <1>6 DEF SaveTrigger, rows
    <2>2. /\ To(r, "linked")
          /\ req'[r].trigger.indexer = req[r].indexer /\ req'[r].trigger.table = req[r].table
          /\ req'[r].transformer.indexer = req[r].indexer
          /\ req'[r].transformer.id = req'[r].trigger.transformer
        BY <1>6, ToLinked
    <2>3. \A q \in Request : req'[q].step \in {"created", "located"} => req'[q] = req[q]
        BY <2>2 DEF To
    <2>4. \A n \in Nat : n <= ids => n <= ids'
        BY <1>0, <2>1
    <2>5. IdsApart'
        BY <1>0, <2>1, <2>3, <2>4 DEF Linked, IdsApart, Creating
    <2>6. LocatedOwn'
        BY <1>0, <2>1, <2>3, <2>4 DEF Linked, LocatedOwn, Creating
    <2>7. \E t \in tables : t.id = req[r].table /\ t.indexer = req[r].indexer
        BY <2>1 DEF Linked, LocatedOwn
    <2>8. LinkedOwn'
        BY <2>1, <2>2, <2>7 DEF To, Linked, LinkedOwn
    <2>9. References'
        BY <2>1 DEF Linked, References
    <2> QED
        BY <2>5, <2>6, <2>8, <2>9 DEF Linked
<1>7. ASSUME NEW r \in Request, CommitTrigger(r) PROVE Linked'
    <2>1. /\ req[r].step = "linked"
          /\ transformers' = transformers \cup {req[r].transformer}
          /\ triggers' = triggers \cup {req[r].trigger}
          /\ UNCHANGED <<tables, ids>>
        BY <1>7 DEF CommitTrigger
    <2>2. To(r, "idle")
        BY <1>7, ToIdle DEF CommitTrigger
    <2>3. \A q \in Request :
             req'[q].step \in {"created", "located", "linked"} => req'[q] = req[q]
        BY <2>2 DEF To
    <2>4. IdsApart' /\ LocatedOwn' /\ LinkedOwn'
        BY <2>1, <2>3 DEF Linked, IdsApart, LocatedOwn, LinkedOwn, Creating
    <2>5. References'
        BY <2>1 DEF Linked, LinkedOwn, References
    <2> QED
        BY <2>4, <2>5 DEF Linked
<1>8. CASE UNCHANGED vars \/ \E g \in triggers : DeleteTrigger(g)
    <2>1. UNCHANGED <<tables, ids, transformers, req>> /\ triggers' \subseteq triggers
        BY <1>8 DEF vars, rows, DeleteTrigger
    <2> QED
        BY <2>1, LinkedStep
<1> QED
    BY <1>1, <1>2, <1>3, <1>4, <1>5, <1>6, <1>7, <1>8 DEF Next
-----------------------------------------------------------------------------
(* Names of tables.                                                        *)

\* A row bears the name of its relation.
Owned(t) == \E x \in indexers : x.id = t.indexer /\ t.full = FullName[<<x.owner, x.id, t.name>>]

HasRow(r) == req[r].step \in {"created", "table found", "triggers deleted", "dropped"}

NamesOwn ==
    /\ \A x, y \in indexers : x.id = y.id => x = y
    /\ \A r \in Request : req[r].step = "name checked" =>
          \E x \in indexers : x.id = req[r].indexer /\ x.owner = req[r].owner
    /\ \A t \in tables : Owned(t)
    /\ \A r \in Request : HasRow(r) => Owned(req[r].row)

\* A step after which every row there is was there, or has a good name.
LEMMA NamesStep ==
    ASSUME NamesOwn, indexers \subseteq indexers',
           \A x, y \in indexers' : x.id = y.id => x = y,
           \A q \in Request : req'[q].step = "name checked" =>
              \/ req'[q] = req[q]
              \/ \E x \in indexers : x.id = req'[q].indexer /\ x.owner = req'[q].owner,
           \A t \in tables' : Owned(t),
           \A q \in Request : HasRow(q)' => Owned(req'[q].row)
    PROVE  NamesOwn'
<1>1. \A t : Owned(t) => \E x \in indexers' : /\ x.id = t.indexer
                                              /\ t.full = FullName[<<x.owner, x.id, t.name>>]
    BY DEF Owned
<1>2. \A t \in tables' : Owned(t)'
    BY <1>1 DEF Owned
<1>3. ASSUME NEW r \in Request, HasRow(r)' PROVE Owned(req[r].row)'
    <2> DEFINE t == req'[r].row
    <2>1. Owned(t)
        BY <1>3
    <2> HIDE DEF t
    <2>2. \E x \in indexers' : x.id = t.indexer /\ t.full = FullName[<<x.owner, x.id, t.name>>]
        BY <1>1, <2>1
    <2> QED
        BY <2>2 DEF Owned, t
<1>4. \A r \in Request : req'[r].step = "name checked" =>
         \E x \in indexers' : x.id = req'[r].indexer /\ x.owner = req'[r].owner
    BY DEF NamesOwn
<1> QED
    BY <1>2, <1>3, <1>4 DEF NamesOwn

LEMMA NamesKept == TypeOK /\ NamesOwn /\ [Next]_vars => NamesOwn'
<1> SUFFICES ASSUME TypeOK, NamesOwn, [Next]_vars PROVE NamesOwn'
    OBVIOUS
<1>u. \A x, y \in indexers : x.id = y.id => x = y
    BY DEF NamesOwn
<1>r. \A q \in Request : HasRow(q) => Owned(req[q].row)
    BY DEF NamesOwn
<1>1. ASSUME NEW r \in Request, NEW i \in Indexer, SaveIndexer(r, i) PROVE NamesOwn'
    <2> DEFINE row == [id |-> i, owner |-> req[r].owner, slug |-> req[r].slug]
    <2>1. indexers' = indexers \cup {row} /\ tables' = tables /\ \A x \in indexers : x.id # i
        BY <1>1 DEF SaveIndexer
    <2>2. row.id = i
        OBVIOUS
    <2> HIDE DEF row
    <2>3. To(r, "idle")
        BY <1>1, ToIdle DEF SaveIndexer
    <2>4. \A q \in Request : /\ req'[q].step = "name checked" => req'[q] = req[q]
                             /\ HasRow(q)' => HasRow(q) /\ req'[q] = req[q]
        BY <2>3 DEF To, HasRow
    <2>5. \A x, y \in indexers' : x.id = y.id => x = y
        BY <1>u, <2>1, <2>2
    <2>6. \A t \in tables' : Owned(t)
        BY <2>1 DEF NamesOwn
    <2>7. \A q \in Request : HasRow(q)' => Owned(req'[q].row)
        BY <1>r, <2>4
    <2> QED
        BY <2>1, <2>4, <2>5, <2>6, <2>7, NamesStep
<1>2. ASSUME NEW r \in Request, CreateRelation(r) PROVE NamesOwn'
    <2>1. req[r].step = "name checked" /\ UNCHANGED <<indexers, tables>>
        BY <1>2 DEF CreateRelation, rows
    <2>2. /\ To(r, "created") /\ req'[r].row.indexer = req[r].indexer
          /\ req'[r].row.name = req[r].name /\ req'[r].row.full = Wanted(r)
        BY <1>2, ToCreated
    <2>3. PICK x \in indexers : x.id = req[r].indexer /\ x.owner = req[r].owner
        BY <2>1 DEF NamesOwn
    <2>4. Owned(req'[r].row)
        BY <2>2, <2>3 DEF Owned, Wanted
    <2>5. \A q \in Request : req'[q].step = "name checked" => req'[q] = req[q]
        BY <2>2 DEF To
    <2>8. \A q \in Request : HasRow(q)' /\ q # r => HasRow(q) /\ req'[q] = req[q]
        BY <2>2 DEF To, HasRow
    <2>6. \A t \in tables' : Owned(t)
        BY <2>1 DEF NamesOwn
    <2>7. \A q \in Request : HasRow(q)' => Owned(req'[q].row)
        BY <1>r, <2>4, <2>8
    <2> QED
        BY <1>u, <2>1, <2>5, <2>6, <2>7, NamesStep
<1>3. ASSUME NEW r \in Request, CommitTable(r) PROVE NamesOwn'
    <2>1. HasRow(r) /\ tables' = tables \cup {req[r].row} /\ indexers' = indexers
        BY <1>3 DEF CommitTable, HasRow
    <2>2. To(r, "idle")
        BY <1>3, ToIdle DEF CommitTable
    <2>3. \A q \in Request : /\ req'[q].step = "name checked" => req'[q] = req[q]
                             /\ HasRow(q)' => HasRow(q) /\ req'[q] = req[q]
        BY <2>2 DEF To, HasRow
    <2>4. \A t \in tables' : Owned(t)
        BY <1>r, <2>1 DEF NamesOwn
    <2>5. \A q \in Request : HasRow(q)' => Owned(req'[q].row)
        BY <1>r, <2>3
    <2> QED
        BY <1>u, <2>1, <2>3, <2>4, <2>5, NamesStep
<1>4. ASSUME NEW r \in Request, NEW x \in indexers, NEW n \in Name, CheckTable(r, x, n)
      PROVE  NamesOwn'
    <2>1. UNCHANGED <<indexers, tables>>
        BY <1>4 DEF CheckTable, rows
    <2>2. To(r, "name checked") /\ req'[r].owner = x.owner /\ req'[r].indexer = x.id
        BY <1>4, ToNameChecked
    <2>3. \A q \in Request :
             req'[q].step = "name checked" =>
                \/ req'[q] = req[q]
                \/ \E y \in indexers : y.id = req'[q].indexer /\ y.owner = req'[q].owner
        BY <2>2 DEF To
    <2>6. \A q \in Request : HasRow(q)' => HasRow(q) /\ req'[q] = req[q]
        BY <2>2 DEF To, HasRow
    <2>4. \A t \in tables' : Owned(t)
        BY <2>1 DEF NamesOwn
    <2>5. \A q \in Request : HasRow(q)' => Owned(req'[q].row)
        BY <1>r, <2>6
    <2> QED
        BY <1>u, <2>1, <2>3, <2>4, <2>5, NamesStep
<1>5. ASSUME NEW r \in Request, \/ \E t \in tables : FindTable(r, t)
                                \/ DeleteTriggers(r) \/ DropRelation(r)
      PROVE  NamesOwn'
    <2>1. UNCHANGED <<indexers, tables>>
        BY <1>5 DEF FindTable, DeleteTriggers, DropRelation, rows
    <2>a. ASSUME NEW t \in tables, FindTable(r, t)
          PROVE  To(r, "table found") /\ Owned(req'[r].row)
        BY <2>a, ToFound DEF NamesOwn
    <2>b. ASSUME DeleteTriggers(r)
          PROVE  To(r, "triggers deleted") /\ Owned(req'[r].row)
        <3>1. HasRow(r)
            BY <2>b DEF DeleteTriggers, HasRow
        <3>2. To(r, "triggers deleted") /\ req'[r].row = req[r].row
            BY <2>b, ToTriggersDeleted
        <3> QED
            BY <1>r, <3>1, <3>2
    <2>c. ASSUME DropRelation(r)
          PROVE  To(r, "dropped") /\ Owned(req'[r].row)
        <3>1. HasRow(r)
            BY <2>c DEF DropRelation, HasRow
        <3>2. To(r, "dropped") /\ req'[r].row = req[r].row
            BY <2>c, ToDropped
        <3> QED
            BY <1>r, <3>1, <3>2
    <2>2. To(r, "table found") \/ To(r, "triggers deleted") \/ To(r, "dropped")
        BY <1>5, <2>a, <2>b, <2>c
    <2>5. Owned(req'[r].row)
        BY <1>5, <2>a, <2>b, <2>c
    <2>7. /\ req'[r].step # "name checked"
          /\ \A q \in Request : q # r => req'[q] = req[q]
        BY <2>2 DEF To
    <2>3. \A q \in Request : req'[q].step = "name checked" => req'[q] = req[q]
        BY <2>7
    <2>8. \A q \in Request : HasRow(q)' /\ q # r => HasRow(q) /\ req'[q] = req[q]
        BY <2>7 DEF HasRow
    <2>4. \A t \in tables' : Owned(t)
        BY <2>1 DEF NamesOwn
    <2>6. \A q \in Request : HasRow(q)' => Owned(req'[q].row)
        BY <1>r, <2>5, <2>8
    <2> QED
        BY <1>u, <2>1, <2>3, <2>4, <2>6, NamesStep
<1>6. ASSUME indexers' = indexers, tables' \subseteq tables,
             \A q \in Request :
                /\ req'[q].step = "name checked" => req'[q] = req[q]
                /\ HasRow(q)' => HasRow(q) /\ req'[q] = req[q]
      PROVE  NamesOwn'
    <2>1. \A t \in tables' : Owned(t)
        BY <1>6 DEF NamesOwn
    <2>2. \A q \in Request : HasRow(q)' => Owned(req'[q].row)
        BY <1>r, <1>6
    <2> QED
        BY <1>u, <1>6, <2>1, <2>2, NamesStep
<1>7. ASSUME NEW r \in Request,
             \/ Abort(r)
             \/ \E a \in Account, n \in Slug : CheckSlug(r, a, n)
             \/ DeleteRows(r)
             \/ \E x \in indexers, t \in tables : LocateTable(r, x, t)
             \/ SaveTrigger(r) \/ CommitTrigger(r)
      PROVE  NamesOwn'
    <2>1. indexers' = indexers /\ tables' \subseteq tables
        BY <1>7 DEF Abort, CheckSlug, DeleteRows, LocateTable, SaveTrigger, CommitTrigger, rows
    <2>2. To(r, "idle") \/ To(r, "slug checked") \/ To(r, "located") \/ To(r, "linked")
        BY <1>7, ToIdle, ToSlugChecked, ToLocated, ToLinked DEF Abort, DeleteRows, CommitTrigger
    <2>3. \A q \in Request : /\ req'[q].step = "name checked" => req'[q] = req[q]
                             /\ HasRow(q)' => HasRow(q) /\ req'[q] = req[q]
        BY <2>2 DEF To, HasRow
    <2> QED
        BY <1>6, <2>1, <2>3
<1>8. CASE UNCHANGED vars \/ \E g \in triggers : DeleteTrigger(g)
    <2>1. UNCHANGED <<indexers, tables, req>>
        BY <1>8 DEF vars, rows, DeleteTrigger
    <2> QED
        BY <1>6, <2>1 DEF HasRow
<1> QED
    BY <1>1, <1>2, <1>3, <1>4, <1>5, <1>7, <1>8 DEF Next
-----------------------------------------------------------------------------
(* Tables and their rows.                                                  *)

Full(r)  == req[r].row.full
Drops(r) == req[r].step = "dropped"

\* A transaction creates the relation of its row and no other; where no IF NOT
\* EXISTS has been passed, it alone does.
MakesOwn ==
    /\ \A r \in Request : Creating(r) =>
          /\ req[r].makes \subseteq {Full(r)}
          /\ Full(r) \notin lenient => Full(r) \in req[r].makes /\ Full(r) \notin relations
    /\ \A q, r \in Request :
          Creating(q) /\ Creating(r) /\ Full(q) = Full(r) /\ Full(r) \notin lenient => q = r

\* The same of one that drops a relation.
DropsOwn ==
    /\ \A r \in Request : Drops(r) =>
          /\ req[r].drops \subseteq {Full(r)}
          /\ Full(r) \notin lenient => Full(r) \in req[r].drops /\ Full(r) \in relations
    /\ \A q, r \in Request :
          Drops(q) /\ Drops(r) /\ Full(q) = Full(r) /\ Full(r) \notin lenient => q = r

Stepwise == MakesOwn /\ DropsOwn /\ InStep

\* A step that leaves relations and their rows alone.
LEMMA StepwiseStep ==
    ASSUME Stepwise, UNCHANGED <<relations, tables, lenient>>,
           \A q \in Request : Creating(q)' => Creating(q) /\ req'[q] = req[q],
           \A q \in Request : Drops(q)' => Drops(q) /\ req'[q] = req[q]
    PROVE  Stepwise'
<1>1. MakesOwn'
    BY DEF Stepwise, MakesOwn, Full
<1>2. DropsOwn'
    BY DEF Stepwise, DropsOwn, Full
<1>3. InStep'
    BY DEF Stepwise, InStep
<1> QED
    BY <1>1, <1>2, <1>3 DEF Stepwise

\* Rows of the same indexer and name have the same relation; of a relation
\* that is not shared, only they have it.
LEMMA SameRow ==
    ASSUME TypeOK, NamesOwn, NEW t \in TableRow, NEW u \in TableRow, Owned(t), Owned(u)
    PROVE  /\ t.indexer = u.indexer /\ t.name = u.name => t.full = u.full
           /\ t.full = u.full /\ t.full \in Unshared => t.indexer = u.indexer /\ t.name = u.name
<1>1. PICK x \in indexers : x.id = t.indexer /\ t.full = FullName[<<x.owner, x.id, t.name>>]
    BY DEF Owned
<1>2. PICK y \in indexers : y.id = u.indexer /\ u.full = FullName[<<y.owner, y.id, u.name>>]
    BY DEF Owned
<1>3. t.indexer = u.indexer => x = y
    BY <1>1, <1>2 DEF NamesOwn
<1>4. t.indexer = u.indexer /\ t.name = u.name => t.full = u.full
    BY <1>1, <1>2, <1>3
<1>5. /\ <<x.owner, x.id, t.name>> \in DOMAIN FullName
      /\ <<y.owner, y.id, u.name>> \in DOMAIN FullName
    BY CatalogAssumption DEF TypeOK, IndexerRow, TableRow
<1>6. ASSUME t.full = u.full, t.full \in Unshared PROVE t.indexer = u.indexer /\ t.name = u.name
    <2>1. <<x.owner, x.id, t.name>> = <<y.owner, y.id, u.name>>
        BY <1>1, <1>2, <1>5, <1>6 DEF Unshared
    <2> QED
        BY <1>1, <1>2, <2>1
<1> QED
    BY <1>4, <1>6

LEMMA StepwiseKept == TypeOK /\ NamesOwn /\ Stepwise /\ [Next]_vars => Stepwise'
<1> SUFFICES ASSUME TypeOK, NamesOwn, Stepwise, [Next]_vars PROVE Stepwise'
    OBVIOUS
<1>1. ASSUME NEW r \in Request, CreateRelation(r) PROVE Stepwise'
    <2> DEFINE f == Wanted(r)
    <2>1. /\ f \in relations \/ f \notin Making
          /\ lenient' = lenient \cup ({f} \cap relations)
          /\ UNCHANGED <<relations, tables>>
        BY <1>1 DEF CreateRelation, Wanted, rows
    <2>2. To(r, "created") /\ Full(r)' = f /\ req'[r].makes = {f} \ relations
        BY <1>1, ToCreated DEF Full
    <2>3. \A q \in Request : Creating(q) => req[q].makes \subseteq Making
        BY DEF Creating, Making
    <2> HIDE DEF f
    <2>4. \A q \in Request : q # r => req'[q] = req[q]
        BY <2>2 DEF To
    <2>5. Creating(r)' /\ ~ Drops(r)'
        BY <2>2 DEF To, Creating, Drops
    <2>6. \A q \in Request : Creating(q)' /\ q # r => Creating(q) /\ Full(q)' = Full(q)
        BY <2>4 DEF Creating, Full
    <2>7. \A q \in Request : Creating(q) /\ Full(q) = f => f \in lenient'
        BY <2>1, <2>3 DEF Stepwise, MakesOwn
    <2>8. MakesOwn'
        BY <2>1, <2>2, <2>4, <2>5, <2>6, <2>7 DEF Stepwise, MakesOwn
    <2>9. \A q \in Request : Drops(q)' => Drops(q) /\ req'[q] = req[q] /\ Full(q)' = Full(q)
        BY <2>4, <2>5 DEF Drops, Full
    <2>10. DropsOwn'
        BY <2>1, <2>9 DEF Stepwise, DropsOwn
    <2>11. InStep'
        BY <2>1 DEF Stepwise, InStep
    <2> QED
        BY <2>8, <2>10, <2>11 DEF Stepwise
<1>2. ASSUME NEW r \in Request, CommitTable(r) PROVE Stepwise'
    <2>1. /\ Creating(r) /\ tables' = tables \cup {req[r].row}
          /\ relations' = relations \cup req[r].makes /\ lenient' = lenient
        BY <1>2 DEF CommitTable, Creating
    <2>2. To(r, "idle")
        BY <1>2, ToIdle DEF CommitTable
    <2>3. \A q \in Request : Creating(q)' =>
             q # r /\ Creating(q) /\ req'[q] = req[q] /\ Full(q)' = Full(q)
        BY <2>2 DEF To, Creating, Full
    <2>4. \A q \in Request : Drops(q)' =>
             q # r /\ Drops(q) /\ req'[q] = req[q] /\ Full(q)' = Full(q)
        BY <2>2 DEF To, Drops, Full
    <2>5. req[r].makes \subseteq {Full(r)} /\ (Full(r) \notin lenient => Full(r) \in req[r].makes)
        BY <2>1 DEF Stepwise, MakesOwn
    <2>6. MakesOwn'
        BY <2>1, <2>3, <2>5 DEF Stepwise, MakesOwn
    <2>7. DropsOwn'
        BY <2>1, <2>4 DEF Stepwise, DropsOwn
    <2>8. InStep'
        BY <2>1, <2>5 DEF Stepwise, InStep, Full
    <2> QED
        BY <2>6, <2>7, <2>8 DEF Stepwise
<1>3. ASSUME NEW r \in Request, DropRelation(r) PROVE Stepwise'
    <2> DEFINE f == Full(r)
    <2>1. /\ f \notin Dropping
          /\ lenient' = lenient \cup ({f} \ relations)
          /\ UNCHANGED <<relations, tables>>
        BY <1>3 DEF DropRelation, rows, Full
    <2>2. To(r, "dropped") /\ Full(r)' = f /\ req'[r].drops = {f} \cap relations
        BY <1>3, ToDropped DEF Full
    <2>3. \A q \in Request : Drops(q) => req[q].drops \subseteq Dropping
        BY DEF Drops, Dropping
    <2> HIDE DEF f
    <2>4. \A q \in Request : q # r => req'[q] = req[q]
        BY <2>2 DEF To
    <2>5. Drops(r)' /\ ~ Creating(r)'
        BY <2>2 DEF To, Creating, Drops
    <2>6. \A q \in Request : Drops(q)' /\ q # r => Drops(q) /\ Full(q)' = Full(q)
        BY <2>4 DEF Drops, Full
    <2>7. \A q \in Request : Drops(q) /\ Full(q) = f => f \in lenient'
        BY <2>1, <2>3 DEF Stepwise, DropsOwn
    <2>8. DropsOwn'
        BY <2>1, <2>2, <2>4, <2>5, <2>6, <2>7 DEF Stepwise, DropsOwn
    <2>9. \A q \in Request : Creating(q)' => Creating(q) /\ req'[q] = req[q] /\ Full(q)' = Full(q)
        BY <2>4, <2>5 DEF Creating, Full
    <2>10. MakesOwn'
        BY <2>1, <2>9 DEF Stepwise, MakesOwn
    <2>11. InStep'
        BY <2>1 DEF Stepwise, InStep
    <2> QED
        BY <2>8, <2>10, <2>11 DEF Stepwise
<1>4. ASSUME NEW r \in Request, DeleteRows(r) PROVE Stepwise'
    <2> DEFINE gone == {t \in tables : /\ t.indexer = req[r].row.indexer
                                       /\ t.name = req[r].row.name}
    <2>1. /\ Drops(r) /\ tables' = tables \ gone
          /\ relations' = relations \ req[r].drops /\ lenient' = lenient
        BY <1>4 DEF DeleteRows, Drops
    <2>2. To(r, "idle")
        BY <1>4, ToIdle DEF DeleteRows
    <2>3. \A q \in Request : Creating(q)' =>
             q # r /\ Creating(q) /\ req'[q] = req[q] /\ Full(q)' = Full(q)
        BY <2>2 DEF To, Creating, Full
    <2>4. \A q \in Request : Drops(q)' =>
             q # r /\ Drops(q) /\ req'[q] = req[q] /\ Full(q)' = Full(q)
        BY <2>2 DEF To, Drops, Full
    <2>5. req[r].drops \subseteq {Full(r)} /\ (Full(r) \notin lenient => Full(r) \in req[r].drops)
        BY <2>1 DEF Stepwise, DropsOwn
    <2>6. req[r].row \in TableRow /\ Owned(req[r].row)
        BY <2>1, States DEF Drops, HasRow, NamesOwn, TypeOK
    <2>7. \A t \in tables : t \in TableRow /\ Owned(t)
        BY DEF TypeOK, NamesOwn
    <2>8. \A t \in gone : t.full = Full(r)
        BY <2>6, <2>7, SameRow DEF Full
    <2>9. \A t \in tables : t.full = Full(r) /\ Full(r) \in Unshared => t \in gone
        BY <2>6, <2>7, SameRow DEF Full
    <2> HIDE DEF gone
    <2>10. MakesOwn'
        BY <2>1, <2>3 DEF Stepwise, MakesOwn
    <2>11. DropsOwn'
        BY <2>1, <2>4, <2>5 DEF Stepwise, DropsOwn
    <2>12. InStep'
        BY <2>1, <2>5, <2>8, <2>9 DEF Stepwise, InStep
    <2> QED
        BY <2>10, <2>11, <2>12 DEF Stepwise
<1>5. ASSUME NEW r \in Request,
             \/ Abort(r)
             \/ \E a \in Account, n \in Slug : CheckSlug(r, a, n)
             \/ \E i \in Indexer : SaveIndexer(r, i)
             \/ \E x \in indexers, n \in Name : CheckTable(r, x, n)
             \/ \E t \in tables : FindTable(r, t)
             \/ DeleteTriggers(r)
             \/ \E x \in indexers, t \in tables : LocateTable(r, x, t)
             \/ SaveTrigger(r) \/ CommitTrigger(r)
      PROVE  Stepwise'
    <2>1. UNCHANGED <<relations, tables, lenient>>
        BY <1>5 DEF Abort, CheckSlug, SaveIndexer, CheckTable, FindTable, DeleteTriggers,
            LocateTable, SaveTrigger, CommitTrigger, rows
    <2>2. \/ To(r, "idle") \/ To(r, "slug checked") \/ To(r, "name checked")
          \/ To(r, "table found") \/ To(r, "triggers deleted")
          \/ To(r, "located") \/ To(r, "linked")
        BY <1>5, ToIdle, ToSlugChecked, ToNameChecked, ToFound, ToTriggersDeleted, ToLocated,
           ToLinked
        DEF Abort, SaveIndexer, CommitTrigger
    <2>3. \A q \in Request : /\ Creating(q)' => Creating(q) /\ req'[q] = req[q]
                             /\ Drops(q)' => Drops(q) /\ req'[q] = req[q]
        BY <2>2 DEF To, Creating, Drops
    <2> QED
        BY <2>1, <2>3, StepwiseStep
<1>6. CASE UNCHANGED vars \/ \E g \in triggers : DeleteTrigger(g)
    <2>1. UNCHANGED <<relations, tables, lenient, req>>
        BY <1>6 DEF vars, rows, DeleteTrigger
    <2> QED
        BY <2>1, StepwiseStep DEF Creating, Drops
<1> QED
    BY <1>1, <1>2, <1>3, <1>4, <1>5, <1>6 DEF Next
-----------------------------------------------------------------------------
IInv == TypeOK /\ Linked /\ NamesOwn /\ Stepwise

LEMMA InitIInv == Init => IInv
<1> SUFFICES ASSUME Init PROVE IInv
    OBVIOUS
<1>1. \A r \in Request : req[r].step = "idle"
    BY DEF Init, Idle
<1>2. TypeOK
    BY CatalogAssumption, IdleTyped DEF Init, TypeOK
<1>3. Linked
    BY <1>1 DEF Init, Linked, IdsApart, LocatedOwn, LinkedOwn, References, Creating
<1>4. NamesOwn
    BY <1>1 DEF Init, NamesOwn, HasRow
<1>5. Stepwise
    BY <1>1 DEF Init, Stepwise, MakesOwn, DropsOwn, InStep, Creating, Drops
<1> QED
    BY <1>2, <1>3, <1>4, <1>5 DEF IInv

LEMMA Invariance == Spec => []IInv
<1>1. IInv /\ [Next]_vars => IInv'
    BY StepTyped, LinkedKept, NamesKept, StepwiseKept DEF IInv
<1> QED
    BY <1>1, InitIInv, PTL DEF Spec
-----------------------------------------------------------------------------
\* Every state of the catalog and of the requests is well typed.
THEOREM TypeCorrect == Spec => []TypeOK
<1>1. IInv => TypeOK
    BY DEF IInv
<1> QED
    BY <1>1, Invariance, PTL

\* A trigger's table and transformer exist and are of the trigger's indexer.
THEOREM ReferencesHold == Spec => []References
<1>1. IInv => References
    BY DEF IInv, Linked
<1> QED
    BY <1>1, Invariance, PTL

\* The catalog and the database agree on the tables, but for shared names and
\* what IF EXISTS and IF NOT EXISTS let pass.
THEOREM TablesInStep == Spec => []InStep
<1>1. IInv => InStep
    BY DEF IInv, Stepwise
<1> QED
    BY <1>1, Invariance, PTL
=============================================================================
