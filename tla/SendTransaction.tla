-------------------------- MODULE SendTransaction --------------------------
(***************************************************************************)
(* sendTransactionWithRetry and sendVersionTransactionWithRetry: a         *)
(* transaction is signed once, simulated, and sent by retryAsync until an  *)
(* attempt resolves.  Each attempt sends it, sends it again from time to   *)
(* time in the background, and races confirmTransaction, one look at the   *)
(* status after two seconds and a timeout.  What an attempt leaves behind  *)
(* (its resender, its look at the status) runs on beside the next one.     *)
(***************************************************************************)
EXTENDS Integers

CONSTANTS
    Retries,        \* as the caller gave it
    DefaultRetries  \* DEFAULT_RETRIES, which also takes the place of 0

ASSUME SendAssumption == Retries \in Nat /\ DefaultRetries \in Nat \ {0}

MaxRetries == IF Retries = 0 THEN DefaultRetries ELSE Retries

Attempt == 1 .. MaxRetries + 2    \* calls of recall, one with each count of retries

\* How far a cluster can get with a transaction, in this order.
Level == {"unknown", "processed", "confirmed", "finalized"}

\* The names that web3.js has for a commitment, and the levels that are enough.
Commitment == {"processed", "confirmed", "finalized", "recent", "single", "singleGossip",
               "root", "max"}

Enough(c) ==
    {l \in Level : \/ l = "finalized"
                   \/ l = "confirmed" /\ c \notin {"finalized", "root", "max"}
                   \/ l = "processed" /\ c \in {"processed", "recent"}}

VARIABLES
    commitment, \* as the caller gave it, "finalized" if it did not
    step,       \* where the call is
    signed,     \* transactions signed: the one being sent is the last
    retries,    \* the counter of recall
    resenders,  \* attempts whose resender runs
    aborted,    \* attempts whose AbortController was aborted
    polls,      \* attempts whose look at the status is still to come
    pool,       \* signed transactions that nodes hold
    level,      \* how far the cluster has got with each signed transaction
    err,        \* whether it failed when it was executed
    expired     \* the blockhash is too old to be included

caller  == <<commitment, step, signed, retries>>
loops   == <<resenders, aborted, polls>>
cluster == <<pool, level, err, expired>>
vars    == <<caller, loops, cluster>>

Ended == {"sent", "failed", "crashed"}

TypeOK ==
    /\ commitment \in Commitment
    /\ step \in {"new", "signed", "call", "race", "delay"} \cup Ended
    /\ signed \in 0 .. MaxRetries + 2 /\ retries \in 0 .. MaxRetries + 1
    /\ resenders \subseteq Attempt /\ aborted \subseteq Attempt /\ polls \subseteq Attempt
    /\ pool \subseteq Attempt
    /\ level \in [Attempt -> Level]
    /\ err \in [Attempt -> BOOLEAN]
    /\ expired \in BOOLEAN

Init ==
    /\ commitment \in Commitment
    /\ step = "new" /\ signed = 0 /\ retries = 0
    /\ resenders = {} /\ aborted = {} /\ polls = {}
    /\ pool = {} /\ level = [t \in Attempt |-> "unknown"]
    /\ err = [t \in Attempt |-> FALSE] /\ expired = FALSE

\* Where confirmTransaction resolves, and what the look at the status compares.
Reached(t) == level[t] \in Enough(commitment)
Matches(t) == level[t] \in {commitment, "finalized"}

-----------------------------------------------------------------------------
(* The cluster: a signed transaction is executed at most once.  A block that    *)
(* was only processed may be left behind by a fork, one that most of the stake  *)
(* has voted for is not.                                                        *)

Execute(t, fails) ==
    /\ t \in pool /\ ~expired /\ level[t] = "unknown"
    /\ level' = [level EXCEPT ![t] = "processed"]
    /\ err' = [err EXCEPT ![t] = fails]
    /\ UNCHANGED <<pool, expired, caller, loops>>

Vote(t) ==
    /\ level[t] \in {"processed", "confirmed"}
    /\ level' = [level EXCEPT ![t] = IF @ = "processed" THEN "confirmed" ELSE "finalized"]
    /\ UNCHANGED <<pool, err, expired, caller, loops>>

Fork(t) ==
    /\ level[t] = "processed"
    /\ level' = [level EXCEPT ![t] = "unknown"]
    /\ err' = [err EXCEPT ![t] = FALSE]
    /\ UNCHANGED <<pool, expired, caller, loops>>

Expire ==
    /\ signed > 0 /\ expired' = TRUE
    /\ UNCHANGED <<pool, level, err, caller, loops>>

-----------------------------------------------------------------------------
(* The call *)

\* The blockhash is fetched and the transaction signed, or either throws.
Sign ==
    /\ step = "new"
    /\ \/ step' = "signed" /\ signed' = 1
       \/ step' = "failed" /\ UNCHANGED signed
    /\ UNCHANGED <<commitment, retries, loops, cluster>>

\* simulateSignedTransaction, which the caller can do without.
Simulate ==
    /\ step = "signed"
    /\ step' \in {"call", "failed"}
    /\ UNCHANGED <<commitment, signed, retries, loops, cluster>>

attempt == retries + 1

Send ==
    /\ step = "call"
    /\ step' = "race"
    /\ pool' = pool \cup {signed}
    /\ resenders' = resenders \cup {attempt} /\ polls' = polls \cup {attempt}
    /\ UNCHANGED <<commitment, signed, retries, aborted, level, err, expired>>

\* Mutant: the last attempt that fails is not counted.
ThrownOnceMore == step' = IF retries > MaxRetries + 1 THEN "failed" ELSE "delay"

\* recall gives up when `retries > maxRetries`.
Thrown == step' = IF retries > MaxRetries THEN "failed" ELSE "delay"

\* The first sendRawTransaction of an attempt throws: nothing runs yet, though
\* a node may have taken the transaction and only its answer was lost.
SendFails ==
    /\ step = "call"
    /\ Thrown
    /\ pool' \in {pool, pool \cup {signed}}
    /\ UNCHANGED <<commitment, signed, retries, loops, level, err, expired>>

\* Mutant: every attempt signs anew.
RetrySigned ==
    /\ step = "delay"
    /\ step' = "call" /\ retries' = retries + 1 /\ signed' = signed + 1
    /\ UNCHANGED <<commitment, loops, cluster>>

Retry ==
    /\ step = "delay"
    /\ step' = "call" /\ retries' = retries + 1
    /\ UNCHANGED <<commitment, signed, loops, cluster>>

-----------------------------------------------------------------------------
(* What settles the race of an attempt; `finally` aborts its resender. *)

Abort == aborted' = aborted \cup {attempt}

Resolves ==
    /\ step' = "sent" /\ Abort
    /\ UNCHANGED <<commitment, signed, retries, resenders>>

\* Mutant: the resender is stopped when the attempt succeeds.
RejectsRunning == Thrown /\ UNCHANGED <<commitment, signed, retries, resenders, aborted>>

Rejects == Thrown /\ Abort /\ UNCHANGED <<commitment, signed, retries, resenders>>

\* confirmTransaction resolves at the commitment, whether or not the
\* transaction failed: the error is in the value, which nobody reads.
Confirmed ==
    /\ step = "race" /\ Reached(signed)
    /\ Resolves
    /\ UNCHANGED <<polls, cluster>>

\* confirmTransaction rejects: the block height is past the last valid one,
\* or the node cannot be asked.
ConfirmFails ==
    /\ step = "race"
    /\ Rejects
    /\ UNCHANGED <<polls, cluster>>

\* Mutant: the timer resolves.
TimeoutResolves ==
    /\ step = "race"
    /\ Resolves
    /\ UNCHANGED <<polls, cluster>>

\* Mutant: the timer of the first attempt only.
TimeoutOnce ==
    /\ step = "race" /\ attempt = 1
    /\ Rejects
    /\ UNCHANGED <<polls, cluster>>

Timeout ==
    /\ step = "race"
    /\ Rejects
    /\ UNCHANGED <<polls, cluster>>

\* The look at the status of attempt n, whichever attempt is under way.  When
\* the transaction has failed short of the commitment, or the node cannot be
\* asked, it throws in an async executor, which nobody catches: Node ends the
\* process.
Poll(n) ==
    /\ n \in polls /\ polls' = polls \ {n}
    /\ \/ /\ Matches(signed)
          /\ IF step = "race" /\ n = attempt THEN Resolves
             ELSE UNCHANGED <<caller, resenders, aborted>>
       \/ /\ ~Matches(signed) /\ ~err[signed]
          /\ UNCHANGED <<caller, resenders, aborted>>
       \/ /\ step' = "crashed"
          /\ UNCHANGED <<commitment, signed, retries, resenders, aborted>>
    /\ UNCHANGED cluster

Resend(n) ==
    /\ n \in resenders \ aborted
    /\ pool' = pool \cup {signed}
    /\ UNCHANGED <<caller, loops, level, err, expired>>

StopResend(n) ==
    /\ n \in resenders \cap aborted
    /\ resenders' = resenders \ {n}
    /\ UNCHANGED <<caller, aborted, polls, cluster>>

-----------------------------------------------------------------------------
Up == step # "crashed"

\* The steps of a call, with a transaction of either version.
Call  == Sign \/ Simulate \/ Send \/ Retry
Loops == \E n \in Attempt : Poll(n) \/ Resend(n) \/ StopResend(n)

Next ==
    \/ \E t \in Attempt, fails \in BOOLEAN : Execute(t, fails)
    \/ \E t \in Attempt : Vote(t) \/ Fork(t)
    \/ Expire
    \/ Up /\ (Call \/ SendFails \/ Confirmed \/ ConfirmFails \/ Timeout \/ Loops)

\* Timers fire, and what the process awaits is answered or refused; nothing
\* is assumed of the cluster.
Spec ==
    /\ Init /\ [][Next]_vars
    /\ WF_vars(Up /\ (Call \/ SendFails)) /\ WF_vars(Up /\ Timeout)
    /\ \A n \in Attempt : WF_vars(Up /\ StopResend(n))

-----------------------------------------------------------------------------
\* However often a transaction is sent, by attempts, by their resenders and
\* after a timeout while an earlier copy is still on its way, its instructions
\* take effect at most once: all copies bear one signature.
ExecutedAtMostOnce ==
    \A t, u \in Attempt :
        level[t] # "unknown" /\ ~err[t] /\ level[u] # "unknown" /\ ~err[u] => t = u

\* A call that returns a signature has seen the transaction at its commitment
\* (executed, not necessarily with success), and from then on it stays there,
\* unless no more than "processed" was asked for.
SentMeansReached ==
    [][step' = "sent" =>
          \/ Reached(signed)'
          \/ step = "sent" /\ "processed" \in Enough(commitment)]_vars

\* At most one resender sends at a time, and none once the call is over.
OneResender ==
    \A m, n \in resenders \ aborted : m = n /\ (Up => step = "race")

\* A call ends, in a signature, an error or the end of the process, whatever
\* the cluster does; and its resenders end with it.
CallEnds == step = "call" ~> step \in Ended /\ (Up => resenders = {})
=============================================================================
