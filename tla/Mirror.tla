------------------------------- MODULE Mirror -------------------------------
(***************************************************************************)
(* What the synchronisation promises a reader of the indexer tables, with  *)
(* no queue, job, worker or fault in it: a trigger's table follows its     *)
(* account from version to version.  It may skip versions and lag behind,  *)
(* but takes only versions the account has had and never goes back.        *)
(***************************************************************************)
EXTENDS Integers

CONSTANTS Trigger, Pda, PdaOf

VARIABLES
    account,    \* version of each account
    copy        \* version of its account that each trigger's table shows

mvars == <<account, copy>>

Init ==
    /\ account = [p \in Pda |-> 0]
    /\ copy = [t \in Trigger |-> 0]

Change(p) ==
    /\ account' = [account EXCEPT ![p] = @ + 1]
    /\ UNCHANGED copy

CatchUp(t) ==
    /\ \E v \in copy[t] .. account[PdaOf[t]] : copy' = [copy EXCEPT ![t] = v]
    /\ UNCHANGED account

Next ==
    \/ \E p \in Pda : Change(p)
    \/ \E t \in Trigger : CatchUp(t)

Spec == Init /\ [][Next]_mvars
=============================================================================
