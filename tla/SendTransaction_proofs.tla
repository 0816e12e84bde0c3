----------------------- MODULE SendTransaction_proofs -----------------------
(***************************************************************************)
(* What sending a transaction guarantees for every number of retries and   *)
(* every commitment.                                                       *)
(***************************************************************************)
EXTENDS SendTransaction, TLAPS
-----------------------------------------------------------------------------
(* The invariant.                                                          *)

\* One transaction is signed, and nothing is under way before it is.
SignedOnce ==
    /\ signed \in {0, 1}
    /\ signed = 0 => /\ step \in {"new", "failed"}
                     /\ pool = {} /\ resenders = {} /\ polls = {}
    /\ step = "new" => signed = 0

\* Only what was signed is sent, and only what was sent is executed.
SentOnly ==
    /\ pool \subseteq {1}
    /\ \A t \in Attempt : level[t] # "unknown" => t \in pool

\* recall tries again only while attempts are left.
Waiting == step = "delay" => retries <= MaxRetries

\* The resender that runs is the current attempt's, until it is aborted.
Running ==
    /\ \A m, n \in resenders \ aborted : m = n
    /\ Up => \A n \in resenders \ aborted : n = attempt /\ step = "race"

\* A call that is over has seen the commitment; only a block that was no more
\* than processed can have been left behind since.
Sent == step = "sent" => Reached(signed) \/ "processed" \in Enough(commitment)

IInv == TypeOK /\ SignedOnce /\ SentOnly /\ Waiting /\ Running /\ Sent
-----------------------------------------------------------------------------
LEMMA Retried == MaxRetries \in Nat \ {0} /\ 1 \in Attempt
<1>1. MaxRetries \in Nat \ {0}
    BY SendAssumption DEF MaxRetries
<1> QED
    BY <1>1 DEF Attempt

\* The look at the status resolves only where confirmTransaction would.
LEMMA MatchesReached ==
    ASSUME TypeOK, NEW t \in Attempt, Matches(t)
    PROVE  Reached(t)
BY DEF TypeOK, Commitment, Level, Matches, Reached, Enough

LEMMA InitIInv == Init => IInv
<1> SUFFICES ASSUME Init PROVE IInv
    OBVIOUS
<1>1. TypeOK
    <2>1. err \in [Attempt -> BOOLEAN]
        BY Zenon DEF Init
    <2>2. level \in [Attempt -> Level]
        BY DEF Init, Level
    <2>3. expired \in BOOLEAN
        BY DEF Init
    <2>4. signed \in 0 .. MaxRetries + 2 /\ retries \in 0 .. MaxRetries + 1
        BY Retried DEF Init
    <2> QED
        BY <2>1, <2>2, <2>3, <2>4 DEF Init, TypeOK
<1>2. SignedOnce /\ SentOnly /\ Waiting /\ Running /\ Sent
    BY DEF Init, SignedOnce, SentOnly, Waiting, Running, Sent
<1> QED
    BY <1>1, <1>2 DEF IInv

\* The cluster: what has reached the commitment stays there, or is left behind.
LEMMA ClusterKeeps ==
    ASSUME IInv,
           \/ \E t \in Attempt, fails \in BOOLEAN : Execute(t, fails)
           \/ \E t \in Attempt : Vote(t) \/ Fork(t)
           \/ Expire
    PROVE  IInv'
<1> USE Retried, SendAssumption
    DEF IInv, TypeOK, SignedOnce, SentOnly, Waiting, Running, Sent, Up,
        attempt, caller, loops, Reached, Enough, Level
<1>1. ASSUME NEW t \in Attempt, NEW fails \in BOOLEAN, Execute(t, fails) PROVE IInv'
    BY <1>1 DEF Execute
<1>2. ASSUME NEW t \in Attempt, Vote(t) PROVE IInv'
    BY <1>2 DEF Vote
<1>3. ASSUME NEW t \in Attempt, Fork(t) PROVE IInv'
    BY <1>3 DEF Fork
<1>4. CASE Expire
    BY <1>4 DEF Expire
<1> QED
    BY <1>1, <1>2, <1>3, <1>4

\* The steps of the call itself.
LEMMA CallKeeps == ASSUME IInv, Call \/ SendFails PROVE IInv'
<1> USE Retried, SendAssumption
    DEF IInv, TypeOK, SignedOnce, SentOnly, Waiting, Running, Sent, Up,
        attempt, Ended, loops, cluster, Reached
<1>1. CASE Sign
    BY <1>1 DEF Sign
<1>2. CASE Simulate
    BY <1>2 DEF Simulate
<1>3. CASE Send
    <2>1. attempt \in Attempt
        BY DEF Attempt
    <2>2. resenders \subseteq aborted
        BY <1>3 DEF Send
    <2> QED
        BY <1>3, <2>1, <2>2 DEF Send
<1>4. CASE Retry
    <2>1. retries' \in 0 .. MaxRetries + 1
        BY <1>4 DEF Retry
    <2>2. resenders \subseteq aborted
        BY <1>4 DEF Retry
    <2> QED
        BY <1>4, <2>1, <2>2 DEF Retry
<1>5. CASE SendFails
    BY <1>5 DEF SendFails, Thrown
<1> QED
    BY <1>1, <1>2, <1>3, <1>4, <1>5 DEF Call

\* What settles the race of an attempt.
LEMMA RaceKeeps == ASSUME IInv, Confirmed \/ ConfirmFails \/ Timeout PROVE IInv'
<1> USE Retried, SendAssumption
    DEF IInv, TypeOK, SignedOnce, SentOnly, Waiting, Running, Sent, Up,
        attempt, Ended, cluster, Reached, Abort
<1>1. attempt \in Attempt
    BY DEF Attempt
<1>2. CASE Confirmed
    BY <1>1, <1>2 DEF Confirmed, Resolves
<1>3. CASE ConfirmFails
    BY <1>1, <1>3 DEF ConfirmFails, Rejects, Thrown
<1>4. CASE Timeout
    BY <1>1, <1>4 DEF Timeout, Rejects, Thrown
<1> QED
    BY <1>2, <1>3, <1>4

\* What an attempt leaves behind.
LEMMA LoopsKeep == ASSUME IInv, Loops, Up PROVE IInv'
<1> USE Retried, SendAssumption
    DEF IInv, TypeOK, SignedOnce, SentOnly, Waiting, Running, Sent, Up,
        attempt, Ended, caller, loops, cluster, Reached, Abort
<1>1. ASSUME NEW n \in Attempt, Poll(n) PROVE IInv'
    BY <1>1, MatchesReached DEF Poll, Resolves, Attempt
<1>2. ASSUME NEW n \in Attempt, Resend(n) PROVE IInv'
    BY <1>2 DEF Resend
<1>3. ASSUME NEW n \in Attempt, StopResend(n) PROVE IInv'
    BY <1>3 DEF StopResend
<1> QED
    BY <1>1, <1>2, <1>3 DEF Loops

LEMMA StepIInv == IInv /\ [Next]_vars => IInv'
<1> SUFFICES ASSUME IInv, [Next]_vars PROVE IInv'
    OBVIOUS
<1>1. CASE UNCHANGED vars
    BY <1>1 DEF vars, caller, loops, cluster, IInv, TypeOK, SignedOnce, SentOnly, Waiting,
        Running, Sent, Up, attempt, Reached
<1> QED
    BY <1>1, ClusterKeeps, CallKeeps, RaceKeeps, LoopsKeep DEF Next

\* The commitment is chosen once.
LEMMA Keeps == ASSUME IInv, [Next]_vars PROVE commitment' = commitment
<1> USE DEF caller
<1>1. CASE UNCHANGED vars
    BY <1>1 DEF vars
<1>2. ASSUME \/ \E t \in Attempt, fails \in BOOLEAN : Execute(t, fails)
             \/ \E t \in Attempt : Vote(t) \/ Fork(t)
             \/ Expire
      PROVE  commitment' = commitment
    BY <1>2 DEF Execute, Vote, Fork, Expire
<1>3. CASE Call \/ SendFails
    BY <1>3 DEF Call, Sign, Simulate, Send, Retry, SendFails
<1>4. CASE Confirmed \/ ConfirmFails \/ Timeout
    BY <1>4 DEF Confirmed, ConfirmFails, Timeout, Resolves, Rejects
<1>5. CASE Loops
    BY <1>5 DEF Loops, Poll, Resend, StopResend, Resolves
<1> QED
    BY <1>1, <1>2, <1>3, <1>4, <1>5 DEF Next

\* A call returns a signature only at its commitment.
LEMMA Returns ==
    ASSUME IInv, [Next]_vars, step # "sent", step' = "sent"
    PROVE  Reached(signed)'
<1> USE DEF caller, cluster, Reached, Ended
<1>1. CASE UNCHANGED vars
    BY <1>1 DEF vars
<1>2. ASSUME \/ \E t \in Attempt, fails \in BOOLEAN : Execute(t, fails)
             \/ \E t \in Attempt : Vote(t) \/ Fork(t)
             \/ Expire
      PROVE  FALSE
    BY <1>2 DEF Execute, Vote, Fork, Expire
<1>3. ASSUME Call \/ SendFails PROVE FALSE
    BY <1>3 DEF Call, Sign, Simulate, Send, Retry, SendFails, Thrown
<1>4. CASE Confirmed \/ ConfirmFails \/ Timeout
    BY <1>4 DEF Confirmed, ConfirmFails, Timeout, Resolves, Rejects, Thrown
<1>5. ASSUME NEW n \in Attempt, Poll(n) PROVE Reached(signed)'
    <2>1. Matches(signed) /\ level' = level /\ signed' = signed /\ commitment' = commitment
        BY <1>5 DEF Poll, Resolves
    <2>2. signed \in Attempt
        BY <1>5, Retried DEF Poll, IInv, SignedOnce
    <2> QED
        BY <2>1, <2>2, MatchesReached DEF IInv
<1>6. ASSUME NEW n \in Attempt, Resend(n) \/ StopResend(n) PROVE FALSE
    BY <1>6 DEF Resend, StopResend
<1> QED
    BY <1>1, <1>2, <1>3, <1>4, <1>5, <1>6 DEF Next, Loops

LEMMA Invariance == Spec => []IInv
    BY InitIInv, StepIInv, PTL DEF Spec
-----------------------------------------------------------------------------
\* Every state of a call is well typed; in particular the attempts stay within
\* MaxRetries + 2, whatever fails and whenever.
THEOREM TypeCorrect == Spec => []TypeOK
<1>1. IInv => TypeOK
    BY DEF IInv
<1> QED
    BY <1>1, Invariance, PTL

\* However often the transaction is sent, it takes effect at most once.
THEOREM AtMostOnce == Spec => []ExecutedAtMostOnce
<1>1. IInv => ExecutedAtMostOnce
    BY DEF IInv, SentOnly, ExecutedAtMostOnce
<1> QED
    BY <1>1, Invariance, PTL

\* A call that returns a signature has seen the transaction at its commitment,
\* whichever that is, and the transaction stays there, unless no more than
\* "processed" was asked for.
THEOREM SentIsReached == Spec => SentMeansReached
<1>1. ASSUME IInv, [Next]_vars, step' = "sent"
      PROVE  Reached(signed)' \/ (step = "sent" /\ "processed" \in Enough(commitment))
    <2>1. IInv' /\ commitment' = commitment
        BY <1>1, StepIInv, Keeps
    <2>2. CASE step = "sent"
        BY <1>1, <2>1, <2>2 DEF IInv, Sent
    <2>3. CASE step # "sent"
        BY <1>1, <2>3, Returns
    <2> QED
        BY <2>2, <2>3
<1> QED
    BY <1>1, Invariance, PTL DEF Spec, SentMeansReached

\* At most one resender sends at a time, and none once the call is over.
THEOREM ResendsAlone == Spec => []OneResender
<1>1. IInv => OneResender
    BY DEF IInv, Running, OneResender
<1> QED
    BY <1>1, Invariance, PTL
=============================================================================
