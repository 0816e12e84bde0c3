------------------------ MODULE SyncPipeline_proofs ------------------------
(***************************************************************************)
(* What the pipeline guarantees for every set of triggers, accounts and    *)
(* indexers, every page size, every limit on attempts and stalls, and any  *)
(* number of changes and faults.                                           *)
(***************************************************************************)
EXTENDS SyncPipeline, FiniteSetTheorems, WellFoundedInduction, TLAPS
-----------------------------------------------------------------------------
(* Pages.                                                                  *)

\* When there are rows, page 0 is not empty: the least of them is on it.
LEMMA FirstPageOpen ==
    ASSUME NEW S, S \subseteq Nat, IsFiniteSet(S), S # {}
    PROVE  Page(S, 0) # {}
<1>1. PICK i \in S : \A j \in S : ~ (<<j, i>> \in OpToRel(<, Nat))
    BY WFMin, NatLessThanWellFounded
<1>2. {j \in S : j < i} = {}
    BY <1>1 DEF OpToRel
<1>3. Rank(S, i) = 0
    BY <1>2, FS_EmptySet DEF Rank
<1> QED
    BY <1>3, PagingAssumption DEF Page

-----------------------------------------------------------------------------
(* Jobs.                                                                   *)

\* What the queue makes of a job is a job.
LEMMA JobOps ==
    ASSUME NEW j \in Job
    PROVE  /\ Added(j) \in Job /\ Taken(j) \in Job /\ Failed(j) \in Job
           /\ Orphaned(j) \in Job /\ Recovered(j) \in Job /\ NoJob \in Job
<1>1. NoJob \in Job
    BY BullAssumption DEF Job, NoJob
<1>2. Added(j) \in Job /\ Taken(j) \in Job /\ Orphaned(j) \in Job
    BY BullAssumption DEF Job, Added, Taken, Orphaned
<1>3. Failed(j) \in Job
    <2>1. CASE j.tries + 1 < Attempts
        <3>1. PICK n \in 0 .. Attempts - 1 : n = j.tries + 1
            BY <2>1, BullAssumption DEF Job
        <3>2. [j EXCEPT !.st = "waiting", !.tries = n] \in Job
            BY DEF Job
        <3> QED
            BY <2>1, <3>1, <3>2 DEF Failed
    <2> QED
        BY <1>1, <2>1 DEF Failed
<1>4. Recovered(j) \in Job
    <2>1. CASE j.stalls < MaxStalledCount
        <3>1. PICK n \in 0 .. MaxStalledCount : n = j.stalls + 1
            BY <2>1, BullAssumption DEF Job
        <3>2. [j EXCEPT !.st = "waiting", !.stalls = n] \in Job
            BY DEF Job
        <3> QED
            BY <2>1, <3>1, <3>2 DEF Recovered
    <2> QED
        BY <1>1, <2>1 DEF Recovered
<1> QED
    BY <1>1, <1>2, <1>3, <1>4

\* Where a job is after each of them.
LEMMA JobStates ==
    ASSUME NEW j \in Job
    PROVE  /\ j.st = "none" => Added(j).st = "waiting"
           /\ j.st # "none" => Added(j).st = j.st
           /\ Taken(j).st = "active"
           /\ Failed(j).st = "waiting" \/ Failed(j) = NoJob
           /\ j.st = "active" => Orphaned(j).st = "stalled"
           /\ j.st # "active" => Orphaned(j) = j
           /\ Recovered(j).st = "waiting" \/ Recovered(j) = NoJob
           /\ NoJob.st = "none"
    BY BullAssumption
    DEF Job, Added, Taken, Failed, Orphaned, Recovered, NoJob
-----------------------------------------------------------------------------
(* The invariant.                                                          *)

\* A worker is idle exactly when it has nothing at hand; a sweep's batch holds
\* indexers that have triggers on the account.
WorkerShapes ==
    /\ IF sweep.pc = "idle" THEN sweep = IdleSweep
       ELSE sweep.pda \in Pda /\ \A i \in sweep.todo : <<i, sweep.pda>> \in Key
    /\ IF update.pc = "idle" THEN update = IdleUpdate ELSE update.key \in Key
    /\ IF exec.pc = "idle" THEN exec = IdleExec ELSE exec.trigger \in Trigger

\* The first page is read with no batch open.
FirstPageFresh == sweep.pc = "query" /\ sweep.page = 0 => sweep.todo = {}

\* A table shows a version its account has had, and the one about to be written
\* lies between the two.
Versions ==
    /\ \A t \in Trigger : written[t] <= chain[PdaOf[t]]
    /\ exec.pc = "save" => /\ written[exec.trigger] <= exec.ver
                           /\ exec.ver <= chain[PdaOf[exec.trigger]]

Typed == TypeOK /\ WorkerShapes
IInv  == Typed /\ NoStuckJob /\ FirstPageFresh /\ Versions /\ Accounted
-----------------------------------------------------------------------------
(* Types.                                                                  *)

LEMMA StepTyped == Typed /\ [Next]_vars => Typed'
<1> SUFFICES ASSUME Typed, [Next]_vars PROVE Typed'
    OBVIOUS
<1> USE PipelineAssumption DEF Typed, TypeOK, WorkerShapes, IdleSweep, IdleUpdate, IdleExec,
        env, sweepVs, updVs, execVs, Fault
<1>1. ASSUME NEW p \in Pda, Change(p) PROVE Typed'
    BY <1>1 DEF Change
<1>2. ASSUME NEW p \in Pda, ChangeUnheard(p) PROVE Typed'
    BY <1>2 DEF ChangeUnheard, LiveOn, Live
<1>3. ASSUME NEW t \in Trigger, Register(t) PROVE Typed'
    BY <1>3 DEF Register
<1>4. ASSUME NEW t \in Trigger, DeleteTrigger(t) PROVE Typed'
    BY <1>4 DEF DeleteTrigger
<1>5. ASSUME NEW p \in Pda, Deliver(p) PROVE Typed'
    BY <1>5, JobOps DEF Deliver, LiveOn, Live
<1>6. ASSUME NEW p \in Pda, SweepTake(p) PROVE Typed'
    BY <1>6, JobOps DEF SweepTake
<1>7. CASE SweepQueryInBatch
    BY <1>7 DEF SweepQueryInBatch
<1>8. CASE SweepQueryNextBatch
    <2>1. Page(Matching(sweep.pda), sweep.page) \subseteq Indexer
        BY DEF Page, Matching, LiveOn, Live, Indexer
    <2>2. \A i \in Page(Matching(sweep.pda), sweep.page) : <<i, sweep.pda>> \in Key
        BY DEF Page, Matching, LiveOn, Live, Key
    <2> QED
        BY <1>8, <2>1, <2>2 DEF SweepQueryNextBatch, LiveOn, Live
<1>9. CASE SweepQueryEmpty
    BY <1>9, JobOps DEF SweepQueryEmpty
<1>10. ASSUME NEW i \in Indexer, SweepAdd(i) PROVE Typed'
    <2>1. <<i, sweep.pda>> \in Key
        BY <1>10 DEF SweepAdd
    <2>2. updJob' \in [Key -> Job]
        BY <1>10, <2>1, JobOps DEF SweepAdd
    <2>3. /\ sweep'.pc = "query" /\ sweep'.pda = sweep.pda
          /\ sweep'.page = sweep.page + 1 /\ sweep'.todo \in SUBSET sweep.todo
        BY <1>10 DEF SweepAdd
    <2>4. TypeOK'
        <3>1. PICK n \in Nat : n = sweep.page + 1
            OBVIOUS
        <3>2. sweep' = [sweep EXCEPT !.pc = "query", !.page = n, !.todo = @ \ {i}]
            BY <1>10, <3>1 DEF SweepAdd
        <3>3. sweep' \in [pc : {"idle", "query", "add"}, pda : Pda \cup {None},
                          page : Nat, todo : SUBSET Indexer]
            BY <3>2
        <3> QED
            BY <1>10, <2>2, <3>3 DEF SweepAdd, Live
    <2>5. WorkerShapes'
        BY <1>10, <2>3 DEF SweepAdd
    <2> QED
        BY <2>4, <2>5
<1>11. CASE SweepThrow
    BY <1>11, JobOps DEF SweepThrow, Live
<1>12. ASSUME NEW k \in Key, UpdateTake(k) PROVE Typed'
    BY <1>12, JobOps DEF UpdateTake
<1>13. CASE UpdateQuery
    BY <1>13 DEF UpdateQuery, Live
<1>14. CASE UpdateQueryNull
    BY <1>14, JobOps DEF UpdateQueryNull
<1>15. ASSUME NEW t \in Trigger, UpdateAdd(t) PROVE Typed'
    BY <1>15, BullAssumption DEF UpdateAdd
<1>16. CASE UpdateDone
    BY <1>16, JobOps DEF UpdateDone
<1>17. CASE UpdateThrow
    BY <1>17, JobOps DEF UpdateThrow, Live
<1>18. ASSUME NEW t \in Trigger, NEW s \in 0 .. MaxStalledCount, ExecTake(t, s)
       PROVE  Typed'
    BY <1>18, BullAssumption DEF ExecTake
<1>19. CASE ExecLoad
    BY <1>19 DEF ExecLoad
<1>20. CASE ExecLoadNull
    BY <1>20, BullAssumption DEF ExecLoadNull
<1>21. CASE ExecRead
    BY <1>21 DEF ExecRead
<1>22. CASE ExecSave
    BY <1>22 DEF ExecSave
<1>23. CASE ExecDone
    BY <1>23, BullAssumption DEF ExecDone
<1>24. CASE ExecFail
    BY <1>24, BullAssumption DEF ExecFail
<1>25. CASE Crash
    BY <1>25, JobOps, BullAssumption DEF Crash, Live
<1>26. ASSUME NEW p \in Pda, PdaStalledCheck(p) PROVE Typed'
    BY <1>26, JobOps DEF PdaStalledCheck, LiveOn, Live
<1>27. ASSUME NEW k \in Key, UpdateStalledCheck(k) PROVE Typed'
    BY <1>27, JobOps DEF UpdateStalledCheck, Live
<1>28. CASE UNCHANGED vars
    BY <1>28 DEF vars
<1> QED
    BY <1>1, <1>2, <1>3, <1>4, <1>5, <1>6, <1>7, <1>8, <1>9, <1>10, <1>11, <1>12, <1>13,
       <1>14, <1>15, <1>16, <1>17, <1>18, <1>19, <1>20, <1>21, <1>22, <1>23, <1>24,
       <1>25, <1>26, <1>27, <1>28
    DEF Next, Environment, SweepStep, UpdateStep, ExecStep, BullStep
-----------------------------------------------------------------------------
(* Job ids.                                                                *)

LEMMA StepNoStuckJob == Typed /\ NoStuckJob /\ [Next]_vars => NoStuckJob'
<1> SUFFICES ASSUME Typed, NoStuckJob, [Next]_vars PROVE NoStuckJob'
    OBVIOUS
<1> USE PipelineAssumption, JobStates
    DEF Typed, TypeOK, WorkerShapes, IdleSweep, IdleUpdate, NoStuckJob, sweepVs, updVs
<1>1. CASE UNCHANGED <<sweepVs, updVs>>
    BY <1>1
<1>2. ASSUME NEW p \in Pda, Deliver(p) PROVE NoStuckJob'
    BY <1>2 DEF Deliver
<1>3. ASSUME NEW p \in Pda, SweepTake(p) PROVE NoStuckJob'
    BY <1>3 DEF SweepTake
<1>4. CASE SweepQueryInBatch
    BY <1>4 DEF SweepQueryInBatch
<1>5. CASE SweepQueryNextBatch
    BY <1>5 DEF SweepQueryNextBatch
<1>6. CASE SweepQueryEmpty
    BY <1>6 DEF SweepQueryEmpty
<1>7. ASSUME NEW i \in Indexer, SweepAdd(i) PROVE NoStuckJob'
    <2>1. <<i, sweep.pda>> \in Key
        BY <1>7 DEF SweepAdd
    <2>2. ASSUME NEW k \in Key PROVE updJob'[k].st = "active" <=> updJob[k].st = "active"
        <3>1. CASE k = <<i, sweep.pda>>
            <4>1. updJob[k] \in Job /\ updJob'[k] = Added(updJob[k])
                BY <1>7, <3>1 DEF SweepAdd
            <4> QED
                BY <4>1
        <3>2. CASE k # <<i, sweep.pda>>
            BY <1>7, <2>1, <3>2 DEF SweepAdd
        <3> QED
            BY <3>1, <3>2
    <2> QED
        BY <1>7, <2>2 DEF SweepAdd
<1>8. CASE SweepThrow
    BY <1>8 DEF SweepThrow
<1>9. ASSUME NEW k \in Key, UpdateTake(k) PROVE NoStuckJob'
    BY <1>9 DEF UpdateTake
<1>10. CASE UpdateQuery
    BY <1>10 DEF UpdateQuery
<1>11. CASE UpdateQueryNull
    BY <1>11 DEF UpdateQueryNull
<1>12. ASSUME NEW t \in Trigger, UpdateAdd(t) PROVE NoStuckJob'
    BY <1>12 DEF UpdateAdd
<1>13. CASE UpdateDone
    BY <1>13 DEF UpdateDone
<1>14. CASE UpdateThrow
    BY <1>14 DEF UpdateThrow
<1>15. CASE Crash
    <2>1. \A p \in Pda : pdaJob'[p].st # "active"
        BY <1>15 DEF Crash
    <2>2. \A k \in Key : updJob'[k].st # "active"
        BY <1>15 DEF Crash
    <2> QED
        BY <1>15, <2>1, <2>2 DEF Crash
<1>16. ASSUME NEW p \in Pda, PdaStalledCheck(p) PROVE NoStuckJob'
    BY <1>16 DEF PdaStalledCheck
<1>17. ASSUME NEW k \in Key, UpdateStalledCheck(k) PROVE NoStuckJob'
    BY <1>17 DEF UpdateStalledCheck
<1>18. \/ \E p \in Pda : Change(p) \/ ChangeUnheard(p)
       \/ \E t \in Trigger : Register(t) \/ DeleteTrigger(t)
       \/ ExecStep \/ ExecFail \/ UNCHANGED vars
       => UNCHANGED <<sweepVs, updVs>>
    BY DEF Change, ChangeUnheard, Register, DeleteTrigger, ExecStep, ExecTake, ExecLoad,
           ExecLoadNull, ExecRead, ExecSave, ExecDone, ExecFail, vars
<1> QED
    BY <1>1, <1>2, <1>3, <1>4, <1>5, <1>6, <1>7, <1>8, <1>9, <1>10, <1>11, <1>12, <1>13,
       <1>14, <1>15, <1>16, <1>17, <1>18
    DEF Next, Environment, SweepStep, UpdateStep, BullStep
-----------------------------------------------------------------------------
(* Pages and versions.                                                     *)

LEMMA StepFirstPageFresh == Typed /\ FirstPageFresh /\ [Next]_vars => FirstPageFresh'
<1> SUFFICES ASSUME Typed, FirstPageFresh, [Next]_vars PROVE FirstPageFresh'
    OBVIOUS
<1> USE DEF Typed, TypeOK, FirstPageFresh, IdleSweep, sweepVs
<1>1. CASE UNCHANGED sweep
    BY <1>1
<1>2. CASE SweepStep
    <2>1. ASSUME NEW i \in Indexer, SweepAdd(i) PROVE FirstPageFresh'
        <3>1. sweep'.page = sweep.page + 1 /\ sweep.page \in Nat
            BY <2>1 DEF SweepAdd
        <3> QED
            BY <3>1
    <2>2. ASSUME NEW p \in Pda, SweepTake(p) PROVE FirstPageFresh'
        BY <2>2 DEF SweepTake
    <2>3. CASE SweepQueryInBatch
        BY <2>3 DEF SweepQueryInBatch
    <2>4. CASE SweepQueryNextBatch
        BY <2>4 DEF SweepQueryNextBatch
    <2>5. CASE SweepQueryEmpty
        BY <2>5 DEF SweepQueryEmpty
    <2> QED
        BY <1>2, <2>1, <2>2, <2>3, <2>4, <2>5 DEF SweepStep
<1>3. CASE SweepThrow \/ Crash
    BY <1>3 DEF SweepThrow, Crash
<1>4. \/ \E p \in Pda : Change(p) \/ ChangeUnheard(p) \/ Deliver(p)
      \/ \E t \in Trigger : Register(t) \/ DeleteTrigger(t)
      \/ UpdateStep \/ UpdateThrow \/ ExecStep \/ ExecFail \/ BullStep \/ UNCHANGED vars
      => UNCHANGED sweep
    BY DEF Change, ChangeUnheard, Deliver, Register, DeleteTrigger,
           UpdateStep, UpdateTake, UpdateQuery, UpdateQueryNull, UpdateAdd, UpdateDone,
           UpdateThrow, ExecStep, ExecTake, ExecLoad, ExecLoadNull, ExecRead, ExecSave,
           ExecDone, ExecFail, BullStep, PdaStalledCheck, UpdateStalledCheck, vars
<1> QED
    BY <1>1, <1>2, <1>3, <1>4 DEF Next, Environment

\* What a step does to the accounts and the tables: an account moves on, or the
\* transformer writes, or neither.
LEMMA StepVersions ==
    Typed /\ Versions /\ [Next]_vars
    => /\ Versions'
       /\ \/ \E p \in Pda : Change(p) \/ ChangeUnheard(p)
          \/ ExecSave
          \/ UNCHANGED <<chain, written>>
<1> SUFFICES ASSUME Typed, Versions, [Next]_vars
             PROVE  /\ Versions'
                    /\ \/ \E p \in Pda : Change(p) \/ ChangeUnheard(p)
                       \/ ExecSave
                       \/ UNCHANGED <<chain, written>>
    OBVIOUS
<1> USE PipelineAssumption
    DEF Typed, TypeOK, WorkerShapes, IdleExec, Versions, env, execVs
<1>1. ASSUME NEW p \in Pda, Change(p) \/ ChangeUnheard(p) PROVE Versions'
    BY <1>1 DEF Change, ChangeUnheard
<1>2. CASE UNCHANGED <<chain, written, exec>>
    BY <1>2
<1>3. ASSUME NEW t \in Trigger, NEW s \in 0 .. MaxStalledCount, ExecTake(t, s)
      PROVE  Versions' /\ UNCHANGED <<chain, written>>
    BY <1>3 DEF ExecTake
<1>4. ASSUME ExecLoad \/ ExecLoadNull \/ ExecDone \/ ExecFail
      PROVE  Versions' /\ UNCHANGED <<chain, written>>
    BY <1>4 DEF ExecLoad, ExecLoadNull, ExecDone, ExecFail
<1>5. ASSUME ExecRead PROVE Versions' /\ UNCHANGED <<chain, written>>
    BY <1>5 DEF ExecRead
<1>6. ASSUME ExecSave PROVE Versions'
    BY <1>6 DEF ExecSave
<1>7. ASSUME Crash PROVE Versions' /\ UNCHANGED <<chain, written>>
    BY <1>7 DEF Crash
<1>8. \/ \E t \in Trigger : Register(t) \/ DeleteTrigger(t)
      \/ \E p \in Pda : Deliver(p)
      \/ SweepStep \/ SweepThrow \/ UpdateStep \/ UpdateThrow \/ BullStep \/ UNCHANGED vars
      => UNCHANGED <<chain, written, exec>>
    BY DEF Register, DeleteTrigger, Deliver, SweepStep, SweepTake, SweepQueryInBatch,
           SweepQueryNextBatch, SweepQueryEmpty, SweepAdd, SweepThrow, UpdateStep,
           UpdateTake, UpdateQuery, UpdateQueryNull, UpdateAdd, UpdateDone, UpdateThrow,
           BullStep, PdaStalledCheck, UpdateStalledCheck, vars
<1> QED
    BY <1>1, <1>2, <1>3, <1>4, <1>5, <1>6, <1>7, <1>8 DEF Next, Environment, ExecStep
-----------------------------------------------------------------------------
(* No change is lost in silence.                                           *)

\* Accounted, of one trigger.
Safe(t) == t \in Live => \/ written[t] = chain[PdaOf[t]]
                         \/ t \in missed
                         \/ Covered(t)

\* A sweep that finds its first page empty leaves no live trigger behind.
LEMMA EmptyFirstPage ==
    ASSUME Typed, Page(Matching(sweep.pda), 0) = {}
    PROVE  LiveOn(sweep.pda) = {}
<1> DEFINE S == Matching(sweep.pda)
<1>1. S \subseteq Nat
    BY PipelineAssumption DEF Matching, LiveOn, Live
<1>2. LiveOn(sweep.pda) \in SUBSET Trigger
    BY DEF LiveOn, Live
<1>3. IsFiniteSet(S)
    <2> DEFINE L == LiveOn(sweep.pda)
               f == [t \in L |-> IndexerOf[t]]
    <2>1. IsFiniteSet(L)
        BY <1>2, PipelineAssumption, FS_Subset
    <2>2. f \in Surjection(L, S)
        BY DEF Surjection, Matching
    <2> QED
        BY <2>1, <2>2, FS_Surjection
<1>4. S = {}
    BY <1>1, <1>3, FirstPageOpen
<1> QED
    BY <1>4 DEF Matching

LEMMA StepSafe ==
    ASSUME Typed, NoStuckJob, FirstPageFresh, Versions, [Next]_vars,
           NEW u \in Trigger, Safe(u)
    PROVE  Safe(u)'
<1> USE PipelineAssumption, JobStates
    DEF Typed, TypeOK, WorkerShapes, IdleSweep, IdleUpdate, IdleExec, NoStuckJob,
        FirstPageFresh, Safe, Covered, SweepAhead, UpdateAhead, Live, Key, KeyOf,
        env, sweepVs, updVs, execVs
\* A step that leaves alone what matters to u.
<1>0. ASSUME UNCHANGED <<status, chain, written, exec>>, missed \subseteq missed',
             UNCHANGED <<feed[PdaOf[u]], pdaJob[PdaOf[u]], updJob[KeyOf(u)]>>,
             SweepAhead(u) => SweepAhead(u)', UpdateAhead(u) => UpdateAhead(u)',
             \A s \in 0 .. MaxStalledCount :
                execQ[<<u, s>>] > 0 => execQ'[<<u, s>>] > 0
      PROVE  Safe(u)'
    BY <1>0
<1>1. ASSUME NEW p \in Pda, Change(p) PROVE Safe(u)'
    BY <1>1 DEF Change
<1>2. ASSUME NEW p \in Pda, ChangeUnheard(p) PROVE Safe(u)'
    BY <1>2 DEF ChangeUnheard, LiveOn
<1>3. ASSUME NEW t \in Trigger, Register(t) PROVE Safe(u)'
    BY <1>3 DEF Register
<1>4. ASSUME NEW t \in Trigger, DeleteTrigger(t) PROVE Safe(u)'
    BY <1>4 DEF DeleteTrigger
<1>5. ASSUME NEW p \in Pda, Deliver(p) PROVE Safe(u)'
    <2>1. CASE PdaOf[u] # p
        <3>1. UNCHANGED <<status, chain, written, exec, execQ, sweep, update, updJob>>
            BY <1>5 DEF Deliver
        <3>2. UNCHANGED <<feed[PdaOf[u]], pdaJob[PdaOf[u]]>> /\ missed \subseteq missed'
            BY <1>5, <2>1 DEF Deliver
        <3> QED
            BY <1>0, <3>1, <3>2
    <2>2. CASE PdaOf[u] = p
        <3>1. pdaJob[p] \in Job /\ pdaJob'[p] = Added(pdaJob[p])
            BY <1>5 DEF Deliver
        <3>2. CASE pdaJob[p].st = "active"
            BY <1>5, <2>2, <3>2 DEF Deliver, LiveOn
        <3>3. CASE pdaJob[p].st # "active"
            <4>1. pdaJob'[p].st \in {"waiting", "stalled"}
                BY <3>1, <3>3 DEF Job
            <4> QED
                BY <2>2, <4>1
        <3> QED
            BY <3>2, <3>3
    <2> QED
        BY <2>1, <2>2
<1>6. ASSUME NEW p \in Pda, SweepTake(p) PROVE Safe(u)'
    <2>1. CASE PdaOf[u] # p
        <3>1. UNCHANGED <<status, chain, written, exec, execQ, feed, missed, update, updJob>>
            BY <1>6 DEF SweepTake
        <3>2. pdaJob'[PdaOf[u]] = pdaJob[PdaOf[u]] /\ ~ SweepAhead(u)
            BY <1>6, <2>1 DEF SweepTake
        <3> QED
            BY <1>0, <3>1, <3>2
    <2>2. CASE PdaOf[u] = p
        <3>1. sweep'.pda = p /\ sweep'.pc = "query" /\ sweep'.page = 0
            BY <1>6 DEF SweepTake
        <3> QED
            BY <2>2, <3>1
    <2> QED
        BY <2>1, <2>2
<1>7. CASE SweepQueryInBatch
    BY <1>7 DEF SweepQueryInBatch
<1>8. CASE SweepQueryNextBatch
    BY <1>8 DEF SweepQueryNextBatch, LiveOn
<1>9. CASE SweepQueryEmpty
    BY <1>9, EmptyFirstPage DEF SweepQueryEmpty, LiveOn
<1>10. ASSUME NEW i \in Indexer, SweepAdd(i) PROVE Safe(u)'
    <2> DEFINE k == <<i, sweep.pda>>
    <2>1. /\ sweep'.pc = "query" /\ sweep'.pda = sweep.pda
          /\ sweep'.page = sweep.page + 1 /\ sweep'.todo = sweep.todo \ {i}
          /\ sweep.pc = "add" /\ i \in sweep.todo
        BY <1>10 DEF SweepAdd
    <2>2. CASE KeyOf(u) = k
        <3>1. updJob[k] \in Job /\ updJob'[k] = Added(updJob[k])
            BY <1>10, <2>2 DEF SweepAdd
        <3>2. CASE updJob[k].st = "active"
            BY <1>10, <2>2, <3>2 DEF SweepAdd
        <3>3. CASE updJob[k].st # "active"
            <4>1. updJob'[k].st \in {"waiting", "stalled"}
                BY <3>1, <3>3 DEF Job
            <4> QED
                BY <2>2, <4>1
        <3> QED
            BY <3>2, <3>3
    <2>3. CASE KeyOf(u) # k
        <3>1. SweepAhead(u) => SweepAhead(u)'
            BY <2>1, <2>3
        <3>2. updJob'[KeyOf(u)] = updJob[KeyOf(u)]
            BY <1>10, <2>3 DEF SweepAdd
        <3>3. UNCHANGED <<status, chain, feed, pdaJob, update, execQ, exec, written>>
            BY <1>10 DEF SweepAdd
        <3>4. missed \subseteq missed'
            BY <1>10 DEF SweepAdd
        <3> QED
            BY <3>1, <3>2, <3>3, <3>4
    <2> QED
        BY <2>2, <2>3
<1>11. CASE SweepThrow
    BY <1>11 DEF SweepThrow
<1>12. ASSUME NEW k \in Key, UpdateTake(k) PROVE Safe(u)'
    <2>1. CASE KeyOf(u) # k
        <3>1. UNCHANGED <<status, chain, written, exec, execQ, feed, missed, sweep, pdaJob>>
            BY <1>12 DEF UpdateTake
        <3>2. updJob'[KeyOf(u)] = updJob[KeyOf(u)] /\ ~ UpdateAhead(u)
            BY <1>12, <2>1 DEF UpdateTake
        <3> QED
            BY <1>0, <3>1, <3>2
    <2>2. CASE KeyOf(u) = k
        <3>1. update'.key = k /\ update'.pc = "query"
            BY <1>12 DEF UpdateTake
        <3> QED
            BY <2>2, <3>1
    <2> QED
        BY <2>1, <2>2
<1>13. CASE UpdateQuery
    BY <1>13 DEF UpdateQuery
<1>14. CASE UpdateQueryNull
    BY <1>14 DEF UpdateQueryNull
<1>15. ASSUME NEW t \in Trigger, UpdateAdd(t) PROVE Safe(u)'
    <2>1. UNCHANGED <<status, chain, feed, sweep, pdaJob, updJob, exec, written, missed>>
        BY <1>15 DEF UpdateAdd
    <2>2. /\ update'.pc = update.pc /\ update'.key = update.key
          /\ update'.todo = update.todo \ {t} /\ update.pc = "add"
        BY <1>15 DEF UpdateAdd
    <2>3. <<t, 0>> \in Trigger \X (0 .. MaxStalledCount)
        BY BullAssumption
    <2>4. execQ'[<<t, 0>>] > 0
        BY <1>15, <2>3 DEF UpdateAdd
    <2>5. \A s \in 0 .. MaxStalledCount : execQ[<<u, s>>] > 0 => execQ'[<<u, s>>] > 0
        <3>1. TAKE s \in 0 .. MaxStalledCount
        <3>2. CASE <<u, s>> = <<t, 0>>
            BY <2>4, <3>2
        <3>3. CASE <<u, s>> # <<t, 0>>
            BY <1>15, <3>3 DEF UpdateAdd
        <3> QED
            BY <3>2, <3>3
    <2>6. CASE u = t
        BY <2>3, <2>4, <2>6
    <2>7. CASE u # t
        BY <2>1, <2>2, <2>5, <2>7
    <2> QED
        BY <2>6, <2>7
<1>16. CASE UpdateDone
    <2>1. UNCHANGED <<status, chain, feed, sweep, pdaJob, execQ, exec, written, missed>>
        BY <1>16 DEF UpdateDone
    <2>2. ~ UpdateAhead(u)
        BY <1>16 DEF UpdateDone
    <2>3. updJob[KeyOf(u)].st \in {"waiting", "stalled"}
            => updJob'[KeyOf(u)] = updJob[KeyOf(u)]
        <3>1. update.key \in Key /\ KeyOf(u) \in Key
            BY <1>16 DEF UpdateDone
        <3>2. updJob[update.key].st = "active"
            BY <3>1
        <3>3. KeyOf(u) # update.key => updJob'[KeyOf(u)] = updJob[KeyOf(u)]
            BY <1>16, <3>1 DEF UpdateDone
        <3> QED
            BY <3>2, <3>3
    <2> QED
        BY <2>1, <2>2, <2>3
<1>17. CASE UpdateThrow
    <2>1. UNCHANGED <<status, chain, feed, sweep, pdaJob, execQ, exec, written>>
        BY <1>17 DEF UpdateThrow
    <2>2. missed \subseteq missed'
        BY <1>17 DEF UpdateThrow
    <2>3. CASE update.key = KeyOf(u)
        <3>1. update.key \in Key /\ updJob'[update.key] = Failed(updJob[update.key])
            BY <1>17 DEF UpdateThrow
        <3>2. CASE updJob'[update.key] = NoJob
            <4>1. UpdateAhead(u) /\ u \in Live => u \in missed'
                BY <1>17, <3>2 DEF UpdateThrow
            <4>2. updJob[KeyOf(u)].st = "active"
                BY <2>3, <3>1
            <4> QED
                BY <2>1, <2>2, <4>1, <4>2
        <3>3. CASE updJob'[update.key].st = "waiting"
            BY <2>3, <3>3
        <3> QED
            BY <3>1, <3>2, <3>3
    <2>4. CASE update.key # KeyOf(u)
        <3>1. updJob'[KeyOf(u)] = updJob[KeyOf(u)]
            BY <1>17, <2>4 DEF UpdateThrow
        <3> QED
            BY <2>1, <2>2, <2>4, <3>1
    <2> QED
        BY <2>3, <2>4
<1>18. ASSUME NEW t \in Trigger, NEW s \in 0 .. MaxStalledCount, ExecTake(t, s)
       PROVE  Safe(u)'
    <2>1. CASE u = t
        <3>1. exec'.trigger = t /\ exec'.pc = "load"
            BY <1>18 DEF ExecTake
        <3> QED
            BY <2>1, <3>1
    <2>2. CASE u # t
        <3>1. UNCHANGED <<status, chain, feed, sweep, pdaJob, updJob, update, written, missed>>
            BY <1>18 DEF ExecTake
        <3>2. \A r \in 0 .. MaxStalledCount : execQ'[<<u, r>>] = execQ[<<u, r>>]
            BY <1>18, <2>2 DEF ExecTake
        <3>3. exec.trigger # u
            BY <1>18 DEF ExecTake
        <3> QED
            BY <3>1, <3>2, <3>3
    <2> QED
        BY <2>1, <2>2
<1>19. CASE ExecLoad
    BY <1>19 DEF ExecLoad
<1>20. CASE ExecLoadNull
    BY <1>20 DEF ExecLoadNull
<1>21. CASE ExecRead
    BY <1>21 DEF ExecRead
<1>22. CASE ExecSave
    BY <1>22 DEF ExecSave, Versions
<1>23. CASE ExecDone
    BY <1>23 DEF ExecDone
<1>24. CASE ExecFail
    BY <1>24 DEF ExecFail
<1>25. CASE Crash
    <2>1. UNCHANGED <<status, chain, written>> /\ missed \subseteq missed'
        BY <1>25 DEF Crash
    <2>2. feed[PdaOf[u]] > 0 => Safe(u)'
        BY <1>25, <2>1 DEF Crash
    <2>3. pdaJob[PdaOf[u]].st \in {"waiting", "stalled"} \/ SweepAhead(u) => Safe(u)'
        <3>1. pdaJob[PdaOf[u]] \in Job /\ pdaJob'[PdaOf[u]] = Orphaned(pdaJob[PdaOf[u]])
            BY <1>25 DEF Crash
        <3>2. SweepAhead(u) => pdaJob[PdaOf[u]].st = "active"
            OBVIOUS
        <3> QED
            BY <3>1, <3>2
    <2>4. updJob[KeyOf(u)].st \in {"waiting", "stalled"} \/ UpdateAhead(u) => Safe(u)'
        <3>1. updJob[KeyOf(u)] \in Job /\ updJob'[KeyOf(u)] = Orphaned(updJob[KeyOf(u)])
            BY <1>25 DEF Crash
        <3>2. UpdateAhead(u) => updJob[KeyOf(u)].st = "active"
            OBVIOUS
        <3> QED
            BY <3>1, <3>2
    <2>5. ASSUME exec.trigger = u, exec.pc \in {"load", "read", "save"} PROVE Safe(u)'
        <3>1. CASE exec.stalls < MaxStalledCount
            <4>1. exec.stalls + 1 \in 0 .. MaxStalledCount
                BY <3>1, BullAssumption
            <4>2. execQ'[<<u, exec.stalls + 1>>] > 0
                BY <1>25, <2>5, <3>1, <4>1 DEF Crash
            <4> QED
                BY <4>1, <4>2
        <3>2. CASE ~ (exec.stalls < MaxStalledCount)
            BY <1>25, <2>5, <3>2 DEF Crash
        <3> QED
            BY <3>1, <3>2
    <2>6. ASSUME NEW s \in 0 .. MaxStalledCount, execQ[<<u, s>>] > 0 PROVE Safe(u)'
        <3> DEFINE e == <<exec.trigger, exec.stalls + 1>>
        <3>1. execQ' = execQ \/ execQ' = [execQ EXCEPT ![e] = @ + 1]
            BY <1>25 DEF Crash
        <3>2. execQ'[<<u, s>>] > 0
            <4>1. CASE <<u, s>> = e
                BY <2>6, <3>1, <4>1
            <4>2. CASE <<u, s>> # e
                BY <2>6, <3>1, <4>2
            <4> QED
                BY <4>1, <4>2
        <3> QED
            BY <3>2
    <2>7. written[u] = chain[PdaOf[u]] \/ u \in missed \/ u \notin Live => Safe(u)'
        BY <2>1
    <2> QED
        BY <2>2, <2>3, <2>4, <2>5, <2>6, <2>7
<1>26. ASSUME NEW p \in Pda, PdaStalledCheck(p) PROVE Safe(u)'
    BY <1>26 DEF PdaStalledCheck, LiveOn
<1>27. ASSUME NEW k \in Key, UpdateStalledCheck(k) PROVE Safe(u)'
    BY <1>27 DEF UpdateStalledCheck
<1>28. CASE UNCHANGED vars
    BY <1>28 DEF vars
<1> QED
    BY <1>1, <1>2, <1>3, <1>4, <1>5, <1>6, <1>7, <1>8, <1>9, <1>10, <1>11, <1>12, <1>13,
       <1>14, <1>15, <1>16, <1>17, <1>18, <1>19, <1>20, <1>21, <1>22, <1>23, <1>24,
       <1>25, <1>26, <1>27, <1>28
    DEF Next, Environment, SweepStep, UpdateStep, ExecStep, BullStep
-----------------------------------------------------------------------------
(* The theorems.                                                           *)

LEMMA InitIInv == Init => IInv
<1> SUFFICES ASSUME Init PROVE IInv
    OBVIOUS
<1> USE PipelineAssumption, BullAssumption
    DEF Init, IdleSweep, IdleUpdate, IdleExec
<1>1. TypeOK
    BY JobOps DEF TypeOK, Job, NoJob
<1>2. WorkerShapes /\ FirstPageFresh
    BY DEF WorkerShapes, FirstPageFresh
<1>3. NoStuckJob
    BY DEF NoStuckJob, NoJob
<1>4. Versions /\ Accounted
    BY DEF Versions, Accounted, Live
<1> QED
    BY <1>1, <1>2, <1>3, <1>4 DEF IInv, Typed

LEMMA StepIInv == IInv /\ [Next]_vars => IInv'
<1> SUFFICES ASSUME IInv, [Next]_vars PROVE IInv'
    OBVIOUS
<1>1. \A t \in Trigger : Safe(t)
    BY DEF IInv, Accounted, Safe
<1>2. \A t \in Trigger : Safe(t)'
    BY <1>1, StepSafe DEF IInv
<1>3. Accounted'
    BY <1>2 DEF Accounted, Safe, Live
<1> QED
    BY <1>3, StepTyped, StepNoStuckJob, StepFirstPageFresh, StepVersions DEF IInv

THEOREM Invariance == Spec => []IInv
<1> QED
    BY InitIInv, StepIInv, PTL DEF Spec

\* Every state of the pipeline is well typed.
THEOREM TypeCorrect == Spec => []TypeOK
<1>1. IInv => TypeOK
    BY DEF IInv, Typed
<1> QED
    BY <1>1, Invariance, PTL

\* A job id is active exactly while its queue's worker is at it.
THEOREM NoJobIsStuck == Spec => []NoStuckJob
<1>1. IInv => NoStuckJob
    BY DEF IInv
<1> QED
    BY <1>1, Invariance, PTL

\* No change is lost in any way but those the code has for it.
THEOREM ChangesAreAccounted == Spec => []Accounted
<1>1. IInv => Accounted
    BY DEF IInv
<1> QED
    BY <1>1, Invariance, PTL

\* The pipeline implements Mirror: each step is an account's change, a table's
\* catching up, or invisible.
THEOREM PipelineMirrors == Spec => MirrorsAccounts
<1>1. Init => M!Init
    BY DEF Init, M!Init
<1>2. IInv /\ [Next]_vars => [M!Next]_(M!mvars)
    <2> SUFFICES ASSUME IInv, [Next]_vars PROVE M!Next \/ UNCHANGED M!mvars
        OBVIOUS
    <2>1. CASE \E p \in Pda : Change(p) \/ ChangeUnheard(p)
        BY <2>1 DEF Change, ChangeUnheard, execVs, M!Next, M!Change
    <2>2. CASE ExecSave
        <3>1. exec.trigger \in Trigger
            BY <2>2 DEF ExecSave, IInv, Typed, WorkerShapes
        <3>2. exec.ver \in written[exec.trigger] .. chain[PdaOf[exec.trigger]]
            BY <2>2, <3>1, PipelineAssumption DEF ExecSave, IInv, Typed, TypeOK, Versions
        <3>3. M!CatchUp(exec.trigger)
            BY <2>2, <3>1, <3>2 DEF ExecSave, env, M!CatchUp
        <3> QED
            BY <3>1, <3>3 DEF M!Next
    <2>3. CASE UNCHANGED <<chain, written>>
        BY <2>3 DEF M!mvars
    <2> QED
        BY <2>1, <2>2, <2>3, StepVersions DEF IInv
<1> QED
    BY <1>1, <1>2, Invariance, PTL DEF Spec, MirrorsAccounts, M!Spec
=============================================================================
