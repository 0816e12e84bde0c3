--------------------------- MODULE MCSyncPipeline ---------------------------
(***************************************************************************)
(* Instances of SyncPipeline for TLC: how triggers share an account and    *)
(* indexers.                                                               *)
(***************************************************************************)
EXTENDS SyncPipeline, TLC

CONSTANTS p1, t1, t2, t3

OnePda == {p1}

\* Two indexers on one account, the first with two triggers.
ThreeTriggers == {t1, t2, t3}
TwoIndexers   == (t1 :> 1) @@ (t2 :> 2) @@ (t3 :> 1)
AllOnP1       == (t1 :> p1) @@ (t2 :> p1) @@ (t3 :> p1)

\* One trigger.
OneTrigger == {t1}
T1OfI1     == t1 :> 1
T1OnP1     == t1 :> p1
=============================================================================
