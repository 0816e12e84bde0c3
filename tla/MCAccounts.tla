---------------------------- MODULE MCAccounts -----------------------------
(* An instance of Accounts. *)
EXTENDS Accounts, TLC

CONSTANTS r1, r2, r3, w1, e1, n1, none, blank

Symmetry == Permutations(Request)
=============================================================================
