---------------------------- MODULE SyncPipeline ----------------------------
(***************************************************************************)
(* The way of an account's change from the websocket notification to the   *)
(* rows of an indexer table, through three Bull queues, each with one      *)
(* worker of concurrency 1 in the one process that is deployed:            *)
(*                                                                         *)
(*   notification -> PDA_CHANGE(pda) -> UPDATE_INDEXER(indexer, pda)       *)
(*                -> EXECUTE_TRANSFORMER(trigger, now) -> indexer table    *)
(*                                                                         *)
(* The first two job ids are fixed, so an add is ignored while a job with  *)
(* the id exists; the third holds the time and is never ignored.  No job   *)
(* carries account data: the last one reads the account afresh.            *)
(*                                                                         *)
(* A job loses its lock here by the death of the process only.  Behind a   *)
(* thread that is blocked for too long the handler runs to its end before  *)
(* the job is run again, or given up, by the stalled check: what that does *)
(* twice is the subject of Transformer.                                    *)
(***************************************************************************)
EXTENDS IndexerPaging, BullQueue

CONSTANTS
    Trigger,      \* rows of indexer_trigger, past and future
    Pda,          \* accounts
    IndexerOf,    \* trigger -> id of its indexer
    PdaOf,        \* trigger -> its account
    None,         \* no job at hand
    MaxVersion,   \* bound: changes of an account
    MaxFaults     \* bound: errors, lost notifications and crashes

Indexer == {IndexerOf[t] : t \in Trigger}
Key     == {<<IndexerOf[t], PdaOf[t]>> : t \in Trigger}    \* of UPDATE_INDEXER
KeyOf(t) == <<IndexerOf[t], PdaOf[t]>>

ASSUME PipelineAssumption ==
    /\ IsFiniteSet(Trigger)
    /\ PdaOf \in [Trigger -> Pda]
    /\ IndexerOf \in [Trigger -> Nat]
    /\ None \notin Trigger /\ None \notin Pda /\ None \notin Key
    /\ MaxVersion \in Nat /\ MaxFaults \in Nat

VARIABLES
    status,    \* of a trigger: not registered yet, live, or deleted
    chain,     \* version of each account, as the RPC node serves it
    feed,      \* notifications of an account not delivered yet
    pdaJob,    \* the PDA_CHANGE job of each account
    sweep,     \* the pda-system worker
    updJob,    \* the UPDATE_INDEXER job of each key
    update,    \* the indexer-system worker
    execQ,     \* EXECUTE_TRANSFORMER jobs waiting, by trigger and stalls
    exec,      \* the execute-transformer worker
    written,   \* version each trigger's transformer last wrote to its table
    missed,    \* ghost: triggers that were denied a change, see below
    faults     \* faults so far

env     == <<status, chain>>
sweepVs == <<pdaJob, sweep>>
updVs   == <<updJob, update>>
execVs  == <<execQ, exec, written>>
vars    == <<env, feed, sweepVs, updVs, execVs, missed, faults>>

Live       == {t \in Trigger : status[t] = "live"}
LiveOn(p)  == {t \in Live : PdaOf[t] = p}
Matching(p) == {IndexerOf[t] : t \in LiveOn(p)}

IdleSweep  == [pc |-> "idle", pda |-> None, page |-> 0, todo |-> {}]
IdleUpdate == [pc |-> "idle", key |-> None, todo |-> {}]
IdleExec   == [pc |-> "idle", trigger |-> None, stalls |-> 0, ver |-> 0]

TypeOK ==
    /\ status \in [Trigger -> {"new", "live", "deleted"}]
    /\ chain \in [Pda -> 0 .. MaxVersion]
    /\ feed \in [Pda -> Nat]
    /\ pdaJob \in [Pda -> Job]
    /\ sweep \in [pc : {"idle", "query", "add"}, pda : Pda \cup {None},
                  page : Nat, todo : SUBSET Indexer]
    /\ updJob \in [Key -> Job]
    /\ update \in [pc : {"idle", "query", "add"}, key : Key \cup {None},
                   todo : SUBSET Trigger]
    /\ execQ \in [Trigger \X (0 .. MaxStalledCount) -> Nat]
    /\ exec \in [pc : {"idle", "load", "read", "save", "done"},
                 trigger : Trigger \cup {None},
                 stalls : 0 .. MaxStalledCount, ver : 0 .. MaxVersion]
    /\ written \in [Trigger -> 0 .. MaxVersion]
    /\ missed \subseteq Trigger
    /\ faults \in 0 .. MaxFaults

Init ==
    /\ status \in [Trigger -> {"new", "live"}]
    /\ chain = [p \in Pda |-> 0]
    /\ feed = [p \in Pda |-> 0]
    /\ pdaJob = [p \in Pda |-> NoJob]
    /\ sweep = IdleSweep
    /\ updJob = [k \in Key |-> NoJob]
    /\ update = IdleUpdate
    /\ execQ = [e \in Trigger \X (0 .. MaxStalledCount) |-> 0]
    /\ exec = IdleExec
    /\ written = [t \in Trigger |-> 0]
    /\ missed = {}
    /\ faults = 0

Fault == faults < MaxFaults /\ faults' = faults + 1
-----------------------------------------------------------------------------
(* Where a trigger still has its turn to come.                             *)

\* The sweep under way will still come to the indexer of t.
SweepAhead(t) ==
    /\ sweep.pda = PdaOf[t]
    /\ \/ sweep.pc = "query" /\ sweep.page = 0
       \/ IndexerOf[t] \in sweep.todo

\* The UPDATE_INDEXER job under way will still come to t.
UpdateAhead(t) ==
    /\ update.key = KeyOf(t)
    /\ \/ update.pc = "query"
       \/ t \in update.todo
-----------------------------------------------------------------------------
(* Accounts and triggers.                                                  *)

\* An account changes and the node sends the subscribed listener a message.
Change(p) ==
    /\ chain[p] < MaxVersion
    /\ chain' = [chain EXCEPT ![p] = @ + 1]
    /\ feed' = [feed EXCEPT ![p] = @ + 1]
    /\ UNCHANGED <<status, sweepVs, updVs, execVs, missed, faults>>

\* It changes while no socket is subscribed, or the message is lost.
ChangeUnheard(p) ==
    /\ Fault
    /\ chain[p] < MaxVersion
    /\ chain' = [chain EXCEPT ![p] = @ + 1]
    /\ missed' = missed \cup LiveOn(p)
    /\ UNCHANGED <<status, feed, sweepVs, updVs, execVs>>

\* A trigger is registered: it is subscribed, but its account is not read.
Register(t) ==
    /\ status[t] = "new"
    /\ status' = [status EXCEPT ![t] = "live"]
    /\ missed' = missed \cup {t}
    /\ UNCHANGED <<chain, feed, sweepVs, updVs, execVs, faults>>

DeleteTrigger(t) ==
    /\ status[t] = "live"
    /\ status' = [status EXCEPT ![t] = "deleted"]
    /\ UNCHANGED <<chain, feed, sweepVs, updVs, execVs, missed, faults>>

\* The listener adds the PDA_CHANGE job.  If the add is ignored because the
\* job is active, the triggers that its sweep is past miss the change.
Deliver(p) ==
    /\ feed[p] > 0
    /\ feed' = [feed EXCEPT ![p] = @ - 1]
    /\ pdaJob' = [pdaJob EXCEPT ![p] = Added(@)]
    /\ missed' = missed \cup {t \in LiveOn(p) : pdaJob[p].st = "active" /\ ~ SweepAhead(t)}
    /\ UNCHANGED <<env, sweep, updVs, execVs, faults>>
-----------------------------------------------------------------------------
(* PdaProcessor: see module PdaProcessor for the paging.                   *)

SweepTake(p) ==
    /\ sweep.pc = "idle" /\ pdaJob[p].st = "waiting"
    /\ pdaJob' = [pdaJob EXCEPT ![p] = Taken(@)]
    /\ sweep' = [IdleSweep EXCEPT !.pc = "query", !.pda = p]
    /\ UNCHANGED <<env, feed, updVs, execVs, missed, faults>>

\* A query whose result is not used, in the middle of a batch.
SweepQueryInBatch ==
    /\ sweep.pc = "query" /\ sweep.todo # {}
    /\ sweep' = [sweep EXCEPT !.pc = "add"]
    /\ UNCHANGED <<env, feed, pdaJob, updVs, execVs, missed, faults>>

\* The page is a new batch; an indexer that is not on page 0 may never be.
SweepQueryNextBatch ==
    LET batch == Page(Matching(sweep.pda), sweep.page) IN
    /\ sweep.pc = "query" /\ sweep.todo = {} /\ batch # {}
    /\ sweep' = [sweep EXCEPT !.pc = "add", !.todo = batch]
    /\ missed' = IF sweep.page = 0
                 THEN missed \cup {t \in LiveOn(sweep.pda) : IndexerOf[t] \notin batch}
                 ELSE missed
    /\ UNCHANGED <<env, feed, pdaJob, updVs, execVs, faults>>

\* The page is empty: the job completes and is removed.
SweepQueryEmpty ==
    /\ sweep.pc = "query" /\ sweep.todo = {}
    /\ Page(Matching(sweep.pda), sweep.page) = {}
    /\ pdaJob' = [pdaJob EXCEPT ![sweep.pda] = NoJob]
    /\ sweep' = IdleSweep
    /\ UNCHANGED <<env, feed, updVs, execVs, missed, faults>>

\* The UPDATE_INDEXER job of indexer i is added.  If the add is ignored because
\* the job is active, the triggers that it is past miss the change.
SweepAdd(i) ==
    LET k == <<i, sweep.pda>> IN
    /\ sweep.pc = "add" /\ i \in sweep.todo
    /\ updJob' = [updJob EXCEPT ![k] = Added(@)]
    /\ missed' = missed \cup
         {t \in Live : KeyOf(t) = k /\ updJob[k].st = "active" /\ ~ UpdateAhead(t)}
    /\ sweep' = [sweep EXCEPT !.pc = "query", !.page = @ + 1, !.todo = @ \ {i}]
    /\ UNCHANGED <<env, feed, pdaJob, update, execVs, faults>>

\* A query or an add throws; after the last attempt the job is removed.
SweepThrow ==
    /\ Fault
    /\ sweep.pc # "idle"
    /\ pdaJob' = [pdaJob EXCEPT ![sweep.pda] = Failed(@)]
    /\ missed' = IF pdaJob'[sweep.pda] = NoJob
                 THEN missed \cup {t \in Live : SweepAhead(t)}
                 ELSE missed
    /\ sweep' = IdleSweep
    /\ UNCHANGED <<env, feed, updVs, execVs>>
-----------------------------------------------------------------------------
(* IndexerProcessor.                                                       *)

UpdateTake(k) ==
    /\ update.pc = "idle" /\ updJob[k].st = "waiting"
    /\ updJob' = [updJob EXCEPT ![k] = Taken(@)]
    /\ update' = [IdleUpdate EXCEPT !.pc = "query", !.key = k]
    /\ UNCHANGED <<env, feed, sweepVs, execVs, missed, faults>>

\* getIndexer finds the indexer with its triggers on the account.
UpdateQuery ==
    LET triggers == {t \in Live : KeyOf(t) = update.key} IN
    /\ update.pc = "query" /\ triggers # {}
    /\ update' = [update EXCEPT !.pc = "add", !.todo = triggers]
    /\ UNCHANGED <<env, feed, sweepVs, updJob, execVs, missed, faults>>

\* It finds no row, null: reading its triggers throws, and so do the retries.
UpdateQueryNull ==
    /\ update.pc = "query"
    /\ {t \in Live : KeyOf(t) = update.key} = {}
    /\ updJob' = [updJob EXCEPT ![update.key] = Failed(@)]
    /\ update' = IdleUpdate
    /\ UNCHANGED <<env, feed, sweepVs, execVs, missed, faults>>

\* Mutant: the job id without Date.now().
UpdateAddFixedId(t) ==
    /\ update.pc = "add" /\ t \in update.todo
    /\ execQ' = [execQ EXCEPT ![<<t, 0>>] =
                   IF exec.trigger = t \/ \E s \in 0 .. MaxStalledCount : execQ[<<t, s>>] > 0
                   THEN @ ELSE @ + 1]
    /\ update' = [update EXCEPT !.todo = @ \ {t}]
    /\ UNCHANGED <<env, feed, sweepVs, updJob, exec, written, missed, faults>>

UpdateAdd(t) ==
    /\ update.pc = "add" /\ t \in update.todo
    /\ execQ' = [execQ EXCEPT ![<<t, 0>>] = @ + 1]
    /\ update' = [update EXCEPT !.todo = @ \ {t}]
    /\ UNCHANGED <<env, feed, sweepVs, updJob, exec, written, missed, faults>>

\* Mutant: removeOnComplete is not set.
UpdateDoneKept ==
    /\ update.pc = "add" /\ update.todo = {}
    /\ update' = IdleUpdate
    /\ UNCHANGED <<env, feed, sweepVs, updJob, execVs, missed, faults>>

UpdateDone ==
    /\ update.pc = "add" /\ update.todo = {}
    /\ updJob' = [updJob EXCEPT ![update.key] = NoJob]
    /\ update' = IdleUpdate
    /\ UNCHANGED <<env, feed, sweepVs, execVs, missed, faults>>

UpdateThrow ==
    /\ Fault
    /\ update.pc # "idle"
    /\ updJob' = [updJob EXCEPT ![update.key] = Failed(@)]
    /\ missed' = IF updJob'[update.key] = NoJob
                 THEN missed \cup {t \in Live : UpdateAhead(t)}
                 ELSE missed
    /\ update' = IdleUpdate
    /\ UNCHANGED <<env, feed, sweepVs, execVs>>
-----------------------------------------------------------------------------
(* ExecuteTransformerProcessor.                                            *)

ExecTake(t, s) ==
    /\ exec.pc = "idle" /\ execQ[<<t, s>>] > 0
    /\ execQ' = [execQ EXCEPT ![<<t, s>>] = @ - 1]
    /\ exec' = [pc |-> "load", trigger |-> t, stalls |-> s, ver |-> 0]
    /\ UNCHANGED <<env, feed, sweepVs, updVs, written, missed, faults>>

\* The trigger is loaded with its indexer, table and script.
ExecLoad ==
    /\ exec.pc = "load" /\ exec.trigger \in Live
    /\ exec' = [exec EXCEPT !.pc = "read"]
    /\ UNCHANGED <<env, feed, sweepVs, updVs, execQ, written, missed, faults>>

\* It was deleted: reading its indexer throws, the job completes as 'FAILED'.
ExecLoadNull ==
    /\ exec.pc = "load" /\ exec.trigger \notin Live
    /\ exec' = IdleExec
    /\ UNCHANGED <<env, feed, sweepVs, updVs, execQ, written, missed, faults>>

\* Mutant: the account is read from another node, which may be behind.
ExecReadBehind ==
    /\ exec.pc = "read"
    /\ \E v \in 0 .. chain[PdaOf[exec.trigger]] :
          exec' = [exec EXCEPT !.pc = "save", !.ver = v]
    /\ missed' = missed \ {exec.trigger}
    /\ UNCHANGED <<env, feed, sweepVs, updVs, execQ, written, faults>>

\* getAccountInfo returns the account as it is now.
ExecRead ==
    /\ exec.pc = "read"
    /\ exec' = [exec EXCEPT !.pc = "save", !.ver = chain[PdaOf[exec.trigger]]]
    /\ missed' = missed \ {exec.trigger}
    /\ UNCHANGED <<env, feed, sweepVs, updVs, execQ, written, faults>>

\* saveDataToIndexerTable commits what the script made of it.
ExecSave ==
    /\ exec.pc = "save"
    /\ written' = [written EXCEPT ![exec.trigger] = exec.ver]
    /\ exec' = [exec EXCEPT !.pc = "done"]
    /\ UNCHANGED <<env, feed, sweepVs, updVs, execQ, missed, faults>>

ExecDone ==
    /\ exec.pc = "done"
    /\ exec' = IdleExec
    /\ UNCHANGED <<env, feed, sweepVs, updVs, execQ, written, missed, faults>>

\* Any error, or no RPC url, or a refused result: the error is caught and the
\* job completes as 'FAILED', so that Bull does not run it again.
ExecFail ==
    /\ Fault
    /\ exec.pc \in {"load", "read", "save"}
    /\ missed' = missed \cup {exec.trigger}
    /\ exec' = IdleExec
    /\ UNCHANGED <<env, feed, sweepVs, updVs, execQ, written>>
-----------------------------------------------------------------------------
(* The process crashes and pm2 starts it again.                            *)

\* Notifications not handled yet are lost with the sockets, active jobs with
\* the workers.  An EXECUTE_TRANSFORMER job, whose id nobody adds again, is
\* put back at once instead of at the stalled check.
Crash ==
    LET t == exec.trigger
        again == exec.pc # "idle" /\ exec.stalls < MaxStalledCount
        dropped == exec.pc \in {"load", "read", "save"} /\ ~ again
    IN
    /\ Fault
    /\ feed' = [p \in Pda |-> 0]
    /\ pdaJob' = [p \in Pda |-> Orphaned(pdaJob[p])]
    /\ updJob' = [k \in Key |-> Orphaned(updJob[k])]
    /\ execQ' = IF again THEN [execQ EXCEPT ![<<t, exec.stalls + 1>>] = @ + 1] ELSE execQ
    /\ sweep' = IdleSweep /\ update' = IdleUpdate /\ exec' = IdleExec
    /\ missed' = missed \cup {u \in Live : feed[PdaOf[u]] > 0}
                        \cup (IF dropped THEN {t} ELSE {})
    /\ UNCHANGED <<env, written>>

PdaStalledCheck(p) ==
    /\ pdaJob[p].st = "stalled"
    /\ pdaJob' = [pdaJob EXCEPT ![p] = Recovered(@)]
    /\ missed' = IF pdaJob'[p] = NoJob THEN missed \cup LiveOn(p) ELSE missed
    /\ UNCHANGED <<env, feed, sweep, updVs, execVs, faults>>

UpdateStalledCheck(k) ==
    /\ updJob[k].st = "stalled"
    /\ updJob' = [updJob EXCEPT ![k] = Recovered(@)]
    /\ missed' = IF updJob'[k] = NoJob
                 THEN missed \cup {t \in Live : KeyOf(t) = k}
                 ELSE missed
    /\ UNCHANGED <<env, feed, sweepVs, update, execVs, faults>>
-----------------------------------------------------------------------------
SweepStep ==
    \/ \E p \in Pda : SweepTake(p)
    \/ SweepQueryInBatch \/ SweepQueryNextBatch \/ SweepQueryEmpty
    \/ \E i \in Indexer : SweepAdd(i)

UpdateStep ==
    \/ \E k \in Key : UpdateTake(k)
    \/ UpdateQuery \/ UpdateQueryNull
    \/ \E t \in Trigger : UpdateAdd(t)
    \/ UpdateDone

ExecStep ==
    \/ \E t \in Trigger, s \in 0 .. MaxStalledCount : ExecTake(t, s)
    \/ ExecLoad \/ ExecLoadNull \/ ExecRead \/ ExecSave \/ ExecDone

BullStep ==
    \/ \E p \in Pda : PdaStalledCheck(p)
    \/ \E k \in Key : UpdateStalledCheck(k)

Environment ==
    \/ \E p \in Pda : Change(p) \/ ChangeUnheard(p)
    \/ \E t \in Trigger : Register(t) \/ DeleteTrigger(t)
    \/ SweepThrow \/ UpdateThrow \/ ExecFail \/ Crash

Next ==
    \/ Environment
    \/ \E p \in Pda : Deliver(p)
    \/ SweepStep \/ UpdateStep \/ ExecStep \/ BullStep

Spec == Init /\ [][Next]_vars

\* The socket delivers, the three workers and the stalled check keep running;
\* accounts need not change, triggers need not come or go, faults not happen.
FairSpec ==
    /\ Spec
    /\ \A p \in Pda : WF_vars(Deliver(p))
    /\ WF_vars(SweepStep) /\ WF_vars(UpdateStep) /\ WF_vars(ExecStep)
    /\ WF_vars(BullStep)
-----------------------------------------------------------------------------
(* Properties.                                                             *)

\* Somebody will read the account of t again, or has read it and has yet to
\* write what is its current version.
Covered(t) ==
    \/ feed[PdaOf[t]] > 0
    \/ pdaJob[PdaOf[t]].st \in {"waiting", "stalled"}
    \/ SweepAhead(t)
    \/ updJob[KeyOf(t)].st \in {"waiting", "stalled"}
    \/ UpdateAhead(t)
    \/ \E s \in 0 .. MaxStalledCount : execQ[<<t, s>>] > 0
    \/ exec.trigger = t /\ exec.pc \in {"load", "read"}
    \/ exec.trigger = t /\ exec.pc = "save" /\ exec.ver = chain[PdaOf[t]]

\* No change is lost in silence: a live trigger whose table is behind its
\* account has something under way that will bring it up to date, unless it
\* missed a change in one of the ways the code has for that: it was registered
\* after the change; the notification was lost; its indexer was not on the
\* sweep's first page; a job of the same id, already past it, was still
\* active; an attempt limit was reached; its transformer failed.
Accounted ==
    \A t \in Live : \/ written[t] = chain[PdaOf[t]]
                    \/ t \in missed
                    \/ Covered(t)

\* A job id is active exactly while its queue's worker is at it, so that no
\* finished, failed or crashed run leaves an id behind that adds are ignored for.
NoStuckJob ==
    /\ \A p \in Pda : pdaJob[p].st = "active" <=> sweep.pda = p
    /\ \A k \in Key : updJob[k].st = "active" <=> update.key = k

\* The pipeline implements its promise: a trigger's table takes only versions
\* that its account has had and never goes back to an older one, whatever is
\* retried, repeated after a crash or reordered between the queues.
M == INSTANCE Mirror WITH account <- chain, copy <- written
MirrorsAccounts == M!Spec

\* Nothing is under way.
Quiet ==
    /\ \A p \in Pda : feed[p] = 0 /\ pdaJob[p] = NoJob
    /\ \A k \in Key : updJob[k] = NoJob
    /\ \A e \in DOMAIN execQ : execQ[e] = 0
    /\ exec = IdleExec

\* Every notification is said to `Finish add job to queue': when all is done, a
\* trigger that was brought up to date once is up to date.  (It fails without
\* any fault: the add is ignored while the account's job is active.)
EveryDeliveryCounts ==
    Quiet => \A t \in Live : written[t] > 0 => written[t] = chain[PdaOf[t]]

\* When accounts stop changing, every live trigger ends up to date for good,
\* or has missed a change.
Settles ==
    <>[](\A t \in Live : written[t] = chain[PdaOf[t]] \/ t \in missed)
=============================================================================
