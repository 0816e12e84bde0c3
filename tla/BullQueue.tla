----------------------------- MODULE BullQueue -----------------------------
(***************************************************************************)
(* The life of one job id in a Bull queue, as config.bull.ts configures    *)
(* every queue: a job is retried after the backoff until its attempts are  *)
(* used up, and is removed when it completes or has failed, so that only   *)
(* then can its id be added again.  Waiting covers waiting and delayed.    *)
(* An active job is under a lock of 30 s that its worker's process renews  *)
(* by a timer.  A job that has lost it, because the process died or its    *)
(* thread was blocked for too long, stays in the active list, with its id, *)
(* until the stalled check puts it back or, the second time, fails it;     *)
(* here it is stalled from the loss of the lock on.                        *)
(***************************************************************************)
EXTENDS Integers

CONSTANTS
    Attempts,          \* BULL_DEFAULT_ATTEMPTS_COUNT
    MaxStalledCount    \* Bull's own default, 1: the code does not set it

ASSUME BullAssumption == Attempts \in Nat \ {0} /\ MaxStalledCount \in Nat

Job == [st : {"none", "waiting", "active", "stalled"},
        tries : 0 .. Attempts - 1,
        stalls : 0 .. MaxStalledCount]

NoJob == [st |-> "none", tries |-> 0, stalls |-> 0]

\* queue.add with a jobId: ignored while the id exists, in whatever state.
Added(j) == IF j.st = "none" THEN [st |-> "waiting", tries |-> 0, stalls |-> 0] ELSE j

Taken(j) == [j EXCEPT !.st = "active"]

\* Mutant: one attempt too many.
FailedOnceMore(j) ==
    IF j.tries < Attempts
    THEN [j EXCEPT !.st = "waiting", !.tries = @ + 1]
    ELSE NoJob

\* The handler threw.
Failed(j) ==
    IF j.tries + 1 < Attempts
    THEN [j EXCEPT !.st = "waiting", !.tries = @ + 1]
    ELSE NoJob

\* Mutant: the stalled check does not know the job.
OrphanedUnnoticed(j) == j

\* The job lost its lock.
Orphaned(j) == IF j.st = "active" THEN [j EXCEPT !.st = "stalled"] ELSE j

\* Mutant: stalls are not limited.
RecoveredAgain(j) == [j EXCEPT !.st = "waiting", !.stalls = @ + 1]

\* The stalled check finds the job without a lock.
Recovered(j) ==
    IF j.stalls < MaxStalledCount
    THEN [j EXCEPT !.st = "waiting", !.stalls = @ + 1]
    ELSE NoJob
=============================================================================
