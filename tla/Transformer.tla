---------------------------- MODULE Transformer ----------------------------
(***************************************************************************)
(* One trigger's EXECUTE_TRANSFORMER jobs, from the worker that takes one  *)
(* to the rows of the user's table: the trigger is loaded with its script  *)
(* and table, the node looked up in Redis and asked for the account, the   *)
(* user's script run, its result checked and saved in one transaction.     *)
(* Meanwhile the script is updated, the trigger deleted, the table dropped *)
(* and made anew, and the process dies.  An error ends the job 'FAILED',   *)
(* which to Bull is a job completed.  The script runs in the main thread,  *)
(* and one that takes long costs the job its lock.                         *)
(***************************************************************************)
EXTENDS BullQueue, FiniteSets, SequencesExt

CONSTANTS
    Id,          \* the jobs that sweeps add for the trigger
    Key,         \* what a row of the user's table can hold
    Script,      \* the scripts the transformer can have
    Outcome,     \* script -> the outcomes execute(context) can have
    Node,        \* urls of active rpc rows of the cluster
    None,        \* no job, no script, no node
    MaxCrashes,  \* bound: deaths of the process
    MaxDrops     \* bound: times the table is dropped

VARIABLES
    job,       \* each job in Bull's queue
    added,     \* jobs that have been added
    rpc,       \* what Redis holds under rpc:<cluster>
    live,      \* the trigger exists
    script,    \* the script of its transformer
    relation,  \* the user's table exists
    rows,      \* key -> how many rows of the table hold it
    worker,    \* the execute-transformer worker, of concurrency 1
    log,       \* ghost: the results committed to the table since it was made
    commits,   \* ghost: how often each job's result was committed
    lost,      \* ghost: how often each job lost its lock
    late,      \* ghost: results committed after the trigger was deleted
    crashes, drops

catalog == <<live, script, relation, drops>>
queue   == <<job, added, lost>>
data    == <<rows, log, commits, late>>
vars    == <<catalog, queue, data, rpc, worker, crashes>>

\* An item of a result; `where` stands for the rows it selects, all of them
\* when it is {} or left out.  "other" is an item validateItem refuses.
Item   == [action : {"INSERT", "UPDATE", "DELETE", "other"}, data : Key, where : SUBSET Key]
Result == UNION {{o.items : o \in Outcome[s]} : s \in Script}

\* A row has a bounded size, so that there are finitely many that differ.
ASSUME TransformerAssumption ==
    /\ IsFiniteSet(Key)
    /\ \A s \in Script : \A o \in Outcome[s] :
          /\ o.is \in {"array", "object", "error", "endless"}
          /\ o.items \in Seq(Item)
    /\ None \notin Id \cup Script \cup [Key -> Nat]
    /\ MaxCrashes \in Nat /\ MaxDrops \in Nat

IdleWorker == [pc |-> "idle", id |-> None, script |-> None, todo |-> <<>>,
               result |-> <<>>, work |-> None]

TypeOK ==
    /\ job \in [Id -> Job] /\ added \subseteq Id
    /\ rpc \in Node \cup {None}
    /\ live \in BOOLEAN /\ relation \in BOOLEAN /\ script \in Script
    /\ rows \in [Key -> Nat]
    /\ worker.pc \in {"idle", "load", "rpc", "account", "script", "long", "endless",
                      "save", "saved"}
    /\ worker.id \in Id \cup {None} /\ worker.script \in Script \cup {None}
    /\ worker.result \in Result \cup {<<>>} /\ IsSuffix(worker.todo, worker.result)
    /\ worker.work \in [Key -> Nat] \cup {None}
    /\ commits \in [Id -> Nat] /\ lost \in [Id -> Nat] /\ late \in Nat
    /\ crashes \in 0 .. MaxCrashes /\ drops \in 0 .. MaxDrops

Empty == [k \in Key |-> 0]

Init ==
    /\ job = [i \in Id |-> NoJob] /\ added = {}
    /\ rpc \in Node \cup {None}
    /\ live = TRUE /\ relation = TRUE /\ script \in Script
    /\ rows = Empty /\ log = <<>>
    /\ worker = IdleWorker
    /\ commits = [i \in Id |-> 0] /\ lost = [i \in Id |-> 0] /\ late = 0
    /\ crashes = 0 /\ drops = 0

-----------------------------------------------------------------------------
(* The rest of the program. *)

AddJob(i) ==
    /\ i \notin added
    /\ added' = added \cup {i}
    /\ job' = [job EXCEPT ![i] = Added(@)]
    /\ UNCHANGED <<lost, catalog, data, rpc, worker, crashes>>

UpdateTransformer(s) ==
    /\ script' = s
    /\ UNCHANGED <<live, relation, drops, queue, data, rpc, worker, crashes>>

DeleteTrigger ==
    /\ live' = FALSE
    /\ UNCHANGED <<script, relation, drops, queue, data, rpc, worker, crashes>>

\* deleteTable, of the trigger's table or of another that shares its
\* relation.  DROP TABLE waits for a transaction that has run a statement.
DropTable(mine) ==
    /\ relation /\ drops < MaxDrops
    /\ worker.work = None
    /\ relation' = FALSE /\ drops' = drops + 1
    /\ live' = (live /\ ~mine)
    /\ rows' = Empty /\ log' = <<>>
    /\ UNCHANGED <<script, queue, commits, late, rpc, worker, crashes>>

CreateTable ==
    /\ ~relation
    /\ relation' = TRUE
    /\ UNCHANGED <<live, script, drops, queue, data, rpc, worker, crashes>>

-----------------------------------------------------------------------------
(* handlerExecuteTransformer *)

Goes(pc) == worker' = [worker EXCEPT !.pc = pc]

Take(i) ==
    /\ worker.pc = "idle" /\ job[i].st = "waiting"
    /\ job' = [job EXCEPT ![i] = Taken(@)]
    /\ worker' = [IdleWorker EXCEPT !.pc = "load", !.id = i]
    /\ UNCHANGED <<added, lost, catalog, data, rpc, crashes>>

\* Mutant: the job goes by what it was given when it was added.
LoadUnread ==
    /\ worker.pc = "load"
    /\ worker' = [worker EXCEPT !.pc = "rpc", !.script = script]
    /\ UNCHANGED <<catalog, queue, data, rpc, crashes>>

\* getIndexer; of a trigger that is gone it gives null and the handler fails.
Load ==
    /\ worker.pc = "load" /\ live
    /\ worker' = [worker EXCEPT !.pc = "rpc", !.script = script]
    /\ UNCHANGED <<catalog, queue, data, rpc, crashes>>

FindNode ==
    /\ worker.pc = "rpc" /\ rpc # None
    /\ Goes("account")
    /\ UNCHANGED <<catalog, queue, data, rpc, crashes>>

\* The account is there and of the kind the trigger names, and is decoded.
ReadAccount ==
    /\ worker.pc = "account"
    /\ Goes("script")
    /\ UNCHANGED <<catalog, queue, data, rpc, crashes>>

\* validateResultUserScript
Valid(o) == o.is = "array" /\ \A n \in DOMAIN o.items : o.items[n].action # "other"

\* The script has returned, soon or after it had lost the job its lock.
RunScript ==
    /\ worker.pc \in {"script", "long"}
    /\ \E o \in Outcome[worker.script] :
        /\ Valid(o)
        /\ worker' = [worker EXCEPT !.pc = "save", !.result = o.items, !.todo = o.items]
    /\ UNCHANGED <<catalog, queue, data, rpc, crashes>>

\* The script runs in the main thread: while it runs nothing else does, the
\* timer that renews the job's lock included.  It outlives the lock, and may
\* still return; for the loss of the lock nothing here stops.
RunLong ==
    /\ worker.pc = "script"
    /\ Goes("long")
    /\ job' = [job EXCEPT ![worker.id] = Orphaned(@)]
    /\ lost' = [lost EXCEPT ![worker.id] = @ + 1]
    /\ UNCHANGED <<added, catalog, data, rpc, crashes>>

RunForever ==
    /\ worker.pc = "script"
    /\ \E o \in Outcome[worker.script] : o.is = "endless"
    /\ Goes("endless")
    /\ UNCHANGED <<catalog, queue, data, rpc, crashes>>

\* What an item makes of the rows.
Applied(item, t) ==
    CASE item.action = "INSERT" -> [t EXCEPT ![item.data] = @ + 1]
      [] item.action = "UPDATE" ->
            LET moved == FoldFunctionOnSet(+, 0, t, item.where)
            IN  [k \in Key |-> (IF k \in item.where THEN 0 ELSE t[k])
                               + (IF k = item.data THEN moved ELSE 0)]
      [] OTHER -> [k \in Key |-> IF k \in item.where THEN 0 ELSE t[k]]

\* Mutant: every statement is a transaction of its own.
SaveItemAtOnce ==
    /\ worker.pc = "save" /\ worker.todo # <<>>
    /\ relation
    /\ rows' = Applied(Head(worker.todo), rows)
    /\ worker' = [worker EXCEPT !.todo = Tail(@), !.work = rows']
    /\ UNCHANGED <<catalog, queue, log, commits, late, rpc, crashes>>

\* saveDataToIndexerTable: a statement of its transaction, which sees the
\* rows as committed at the first one; from then on the table is locked.
SaveItem ==
    /\ worker.pc = "save" /\ worker.todo # <<>>
    /\ relation
    /\ worker' = [worker EXCEPT
           !.todo = Tail(@),
           !.work = Applied(Head(worker.todo), IF @ = None THEN rows ELSE @)]
    /\ UNCHANGED <<catalog, queue, data, rpc, crashes>>

Commit ==
    /\ worker.pc = "save" /\ worker.todo = <<>>
    /\ worker' = [worker EXCEPT !.pc = "saved", !.work = None]
    /\ IF worker.work = None
       THEN UNCHANGED <<rows, log, late>>
       ELSE /\ rows' = worker.work
            /\ log' = Append(log, worker.result)
            /\ late' = IF live THEN late ELSE late + 1
    /\ commits' = [commits EXCEPT ![worker.id] = @ + 1]
    /\ UNCHANGED <<catalog, queue, rpc, crashes>>

\* Bull removes the job, which is completed; without its lock it refuses to,
\* and leaves the job to the stalled check.
Ended ==
    /\ worker' = IdleWorker
    /\ job' = [job EXCEPT ![worker.id] = IF @.st = "active" THEN NoJob ELSE @]

Finish ==
    /\ worker.pc = "saved"
    /\ Ended
    /\ UNCHANGED <<added, lost, catalog, data, rpc, crashes>>

\* Mutant: the handler throws its errors, as the other processors do.
FailRetried ==
    /\ worker.pc \notin {"idle", "endless"}
    /\ worker' = IdleWorker
    /\ job' = [job EXCEPT ![worker.id] = IF @.st = "active" THEN Failed(@) ELSE @]
    /\ UNCHANGED <<added, lost, catalog, data, rpc, crashes>>

\* An error anywhere (no trigger, node, account or table, a script that
\* throws or gives something else, a statement refused, a commit whose answer
\* is lost) is caught and makes the job 'FAILED'; what is not committed is
\* rolled back.
Fail ==
    /\ worker.pc \notin {"idle", "endless"}
    /\ Ended
    /\ UNCHANGED <<added, lost, catalog, data, rpc, crashes>>

-----------------------------------------------------------------------------
(* Death and return of the process *)

\* onModuleInit of RpcService: of several rows the one read last stays; of
\* none, what was there before.
Crash ==
    /\ crashes < MaxCrashes
    /\ crashes' = crashes + 1
    /\ job' = [i \in Id |-> Orphaned(job[i])]
    /\ lost' = [i \in Id |-> lost[i] + IF job[i].st = "active" THEN 1 ELSE 0]
    /\ worker' = IdleWorker
    /\ rpc' \in Node \cup {rpc}
    /\ UNCHANGED <<added, catalog, data>>

\* The run that lost the lock may still be saving: the job waits for its end,
\* the worker being one.
StalledCheck(i) ==
    /\ job[i].st = "stalled"
    /\ job' = [job EXCEPT ![i] = Recovered(@)]
    /\ UNCHANGED <<added, lost, catalog, data, rpc, worker, crashes>>

Handler == Load \/ FindNode \/ ReadAccount \/ RunScript \/ SaveItem \/ Commit \/ Finish \/ Fail
Bull    == \E i \in Id : Take(i) \/ StalledCheck(i)
Users   == \/ \E i \in Id : AddJob(i)
           \/ \E s \in Script : UpdateTransformer(s)
           \/ DeleteTrigger \/ CreateTable
           \/ \E mine \in BOOLEAN : DropTable(mine)
Running == worker.pc # "endless"
Blocked == worker.pc \in {"long", "endless"}

Next == \/ Crash
        \/ Running /\ Handler
        \/ ~Blocked /\ (RunLong \/ RunForever \/ Bull \/ Users)

\* The worker and Bull go on while the process is up.
Spec == Init /\ [][Next]_vars /\ WF_vars(Running /\ Handler) /\ WF_vars(~Blocked /\ Bull)

-----------------------------------------------------------------------------
\* The table holds what the committed results make of it one after another,
\* each of them whole: a statement refused, a crash or a drop between two
\* items of a result leaves no part of it.
AllOrNothing ==
    rows = FoldLeft(LAMBDA t, r : FoldLeft(LAMBDA u, item : Applied(item, u), t, r), Empty, log)

\* A result is committed again only by a job that has lost its lock, by a crash
\* or to a long script, and once for each time it was lost; Bull takes it up
\* again once.  A failed run is never repeated.
RepeatedWhenLostOnly ==
    \A i \in Id : commits[i] <= 1 + MaxStalledCount /\ commits[i] <= 1 + lost[i]

\* Of all the jobs in the queue when a trigger is deleted, at most the run
\* under way then still writes, be it to a table made anew of the same name.
LateWriteOnce == late <= 1

\* Every job comes to its end, through failures and crashes, unless a script
\* that does not return has stopped the process for good.  (The guide for
\* scripts says that they run in a worker thread; they do not.)
JobsEnd ==
    \A i \in Id : job[i].st # "none" ~> job[i].st = "none" \/ worker.pc = "endless"
=============================================================================
