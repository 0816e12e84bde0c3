------------------------------ MODULE Accounts ------------------------------
(***************************************************************************)
(* Signing in: AuthService's nonces, in the cache, and AccountService's    *)
(* accounts, in PostgreSQL, under requests that overlap at every await.    *)
(* login is one transaction, so an account it makes is seen by others at   *)
(* its end, after the nonce has been deleted; a nonce is not rolled back.  *)
(* Of the columns of an account only user_name has a unique constraint.    *)
(*                                                                         *)
(* A request that is refused (no nonce, a signature of another nonce, a    *)
(* name taken, an account renamed before) changes nothing and is left out. *)
(***************************************************************************)
EXTENDS Integers

CONSTANTS
    Request,     \* requests that can be under way at the same time
    Wallet, Email,
    UserName,    \* names people choose, emails possibly among them
    None,        \* no nonce, no name
    Blank,       \* the wallet '' of accounts made by email, the email null of others
    MaxNonces,   \* bound: nonces generated
    MaxIds       \* bound: accounts inserted

ASSUME AccountsAssumption ==
    /\ Email \subseteq UserName /\ None \notin UserName
    /\ Blank \notin Wallet \cup Email
    /\ None \notin Nat /\ MaxNonces \in Nat /\ MaxIds \in Nat

VARIABLES
    accounts,   \* rows of account
    nonce,      \* wallet -> what the cache holds under wallet:<address>:nonce
    req,        \* the requests
    made,       \* nonces generated; one is taken never to be generated again
    ids,        \* ids given out
    gone        \* ghost: nonces that were in the cache and no longer are

vars == <<accounts, nonce, req, made, ids, gone>>

Account == [id : 1 .. MaxIds, email : Email \cup {Blank}, wallet : Wallet \cup {Blank},
            name : UserName \cup {None}, renamed : BOOLEAN]

Idle == [step |-> "idle"]

RequestState ==
    {Idle}
    \cup [step : {"nonce made"}, wallet : Wallet, nonce : 1 .. MaxNonces]
    \cup [step : {"verified"}, wallet : Wallet, had : BOOLEAN]
    \cup [step : {"account found", "nonce spent"}, wallet : Wallet, had : BOOLEAN,
          new : SUBSET Account]
    \cup [step : {"no such email"}, email : Email]
    \cup [step : {"not renamed"}, id : 1 .. MaxIds]
    \cup [step : {"name free"}, id : 1 .. MaxIds, name : UserName]

TypeOK ==
    /\ accounts \subseteq Account
    /\ nonce \in [Wallet -> 1 .. MaxNonces \cup {None}]
    /\ req \in [Request -> RequestState]
    /\ made \in 0 .. MaxNonces
    /\ ids \in 0 .. MaxIds
    /\ gone \subseteq 1 .. MaxNonces

Init ==
    /\ accounts = {}
    /\ nonce = [w \in Wallet |-> None]
    /\ req = [r \in Request |-> Idle]
    /\ made = 0 /\ ids = 0 /\ gone = {}

Begins(r, state) == req[r] = Idle /\ req' = [req EXCEPT ![r] = state]
Goes(r, state)   == req' = [req EXCEPT ![r] = state]

\* An await of a request throws; a transaction is rolled back.
Abort(r) ==
    /\ req[r] # Idle
    /\ Goes(r, Idle)
    /\ UNCHANGED <<accounts, nonce, made, ids, gone>>

-----------------------------------------------------------------------------
(* getNonce *)

\* Mutant: the nonce that is there is set again, to live longer.
AskNonceRenewed(r, w) ==
    LET n == IF nonce[w] = None THEN made + 1 ELSE nonce[w]
    IN  /\ n <= MaxNonces
        /\ made' = IF n > made THEN n ELSE made
        /\ Begins(r, [step |-> "nonce made", wallet |-> w, nonce |-> n])
        /\ UNCHANGED <<accounts, nonce, ids, gone>>

\* There is none, so one is generated; one that is there is only returned.
AskNonce(r, w) ==
    /\ nonce[w] = None
    /\ made < MaxNonces
    /\ made' = made + 1
    /\ Begins(r, [step |-> "nonce made", wallet |-> w, nonce |-> made + 1])
    /\ UNCHANGED <<accounts, nonce, ids, gone>>

Leaving(w) == {nonce[w]} \ {None}

SetNonce(r) ==
    /\ req[r].step = "nonce made"
    /\ nonce' = [nonce EXCEPT ![req[r].wallet] = req[r].nonce]
    /\ gone' = gone \cup Leaving(req[r].wallet)
    /\ Goes(r, Idle)
    /\ UNCHANGED <<accounts, made, ids>>

\* WALLET_NONCE_TTL is over.
Expire(w) ==
    /\ nonce[w] # None
    /\ nonce' = [nonce EXCEPT ![w] = None]
    /\ gone' = gone \cup Leaving(w)
    /\ UNCHANGED <<accounts, req, made, ids>>

-----------------------------------------------------------------------------
(* login *)

Of(w) == {a \in accounts : a.wallet = w}

\* The nonce is read and the signature is of it.
Verify(r, w) ==
    /\ nonce[w] # None
    /\ Begins(r, [step |-> "verified", wallet |-> w, had |-> Of(w) # {}])
    /\ UNCHANGED <<accounts, nonce, made, ids, gone>>

\* The account that is found is used; if none is, one is inserted.
FindOrInsert(r, found) ==
    LET row == [id |-> ids + 1, email |-> Blank, wallet |-> req[r].wallet,
                name |-> None, renamed |-> FALSE]
        new == IF found = {} THEN {row} ELSE {}
    IN  /\ req[r].step = "verified"
        /\ ids < MaxIds
        /\ ids' = IF new = {} THEN ids ELSE ids + 1
        /\ Goes(r, [step |-> "account found", wallet |-> req[r].wallet,
                    had |-> req[r].had, new |-> new])
        /\ UNCHANGED <<accounts, nonce, made, gone>>

\* Mutant: an account that has its own user name is not found.
FindOrCreateUnnamed(r) == FindOrInsert(r, {a \in Of(req[r].wallet) : ~a.renamed})

FindOrCreateByWallet(r) == FindOrInsert(r, Of(req[r].wallet))

\* Whatever nonce is there by now is deleted.
SpendNonce(r) ==
    /\ req[r].step = "account found"
    /\ nonce' = [nonce EXCEPT ![req[r].wallet] = None]
    /\ gone' = gone \cup Leaving(req[r].wallet)
    /\ Goes(r, [req[r] EXCEPT !.step = "nonce spent"])
    /\ UNCHANGED <<accounts, made, ids>>

CommitLogin(r) ==
    /\ req[r].step = "nonce spent"
    /\ accounts' = accounts \cup req[r].new
    /\ Goes(r, Idle)
    /\ UNCHANGED <<nonce, made, ids, gone>>

-----------------------------------------------------------------------------
(* findOrCreateAccountByEmail, after Google's callback *)

FindByEmail(r, e) ==
    /\ \A a \in accounts : a.email # e
    /\ Begins(r, [step |-> "no such email", email |-> e])
    /\ UNCHANGED <<accounts, nonce, made, ids, gone>>

\* Mutant: the wallet is null, which the column is not.
InsertedNoWallet(r, name) ==
    /\ req[r].step = "no such email"
    /\ ids < MaxIds
    /\ ids' = ids + 1
    /\ accounts' = accounts \cup {[id |-> ids + 1, email |-> req[r].email, wallet |-> None,
                                   name |-> name, renamed |-> FALSE]}
    /\ Goes(r, Idle)
    /\ UNCHANGED <<nonce, made, gone>>

Inserted(r, name) ==
    /\ req[r].step = "no such email"
    /\ ids < MaxIds
    /\ \A a \in accounts : a.name # name \/ name = None    \* the unique constraint
    /\ ids' = ids + 1
    /\ accounts' = accounts \cup {[id |-> ids + 1, email |-> req[r].email, wallet |-> Blank,
                                   name |-> name, renamed |-> FALSE]}
    /\ Goes(r, Idle)
    /\ UNCHANGED <<nonce, made, gone>>

\* Mutant: the name is left null, as it is for a wallet.
SaveEmailUnnamed(r) == Inserted(r, None)

\* The email is the user name until the user chooses one.
SaveEmail(r) == Inserted(r, req[r].email)

-----------------------------------------------------------------------------
(* updateUserNameDto *)

LoadAccount(r, a) ==
    /\ a \in accounts /\ ~a.renamed
    /\ Begins(r, [step |-> "not renamed", id |-> a.id])
    /\ UNCHANGED <<accounts, nonce, made, ids, gone>>

Free(n, id) == \A a \in accounts : a.name = n => a.id = id

CheckName(r, n) ==
    /\ req[r].step = "not renamed"
    /\ Free(n, req[r].id)
    /\ Goes(r, [step |-> "name free", id |-> req[r].id, name |-> n])
    /\ UNCHANGED <<accounts, nonce, made, ids, gone>>

\* The unique constraint checks the name once more; nothing checks that the
\* account has not been renamed since.
SaveName(r) ==
    /\ req[r].step = "name free"
    /\ Free(req[r].name, req[r].id)
    /\ accounts' = {IF a.id = req[r].id THEN [a EXCEPT !.name = req[r].name, !.renamed = TRUE]
                    ELSE a : a \in accounts}
    /\ Goes(r, Idle)
    /\ UNCHANGED <<nonce, made, ids, gone>>

-----------------------------------------------------------------------------
Next ==
    \/ \E r \in Request :
        \/ Abort(r)
        \/ \E w \in Wallet : AskNonce(r, w) \/ Verify(r, w)
        \/ SetNonce(r) \/ FindOrCreateByWallet(r) \/ SpendNonce(r) \/ CommitLogin(r)
        \/ \E e \in Email : FindByEmail(r, e)
        \/ SaveEmail(r)
        \/ \E a \in accounts : LoadAccount(r, a)
        \/ \E n \in UserName : CheckName(r, n)
        \/ SaveName(r)
    \/ \E w \in Wallet : Expire(w)

Spec == Init /\ [][Next]_vars

-----------------------------------------------------------------------------
\* A nonce that a login has spent, or that has been overwritten or expired,
\* never comes back to the cache, whatever getNonce was under way: a signature
\* lets in only logins that read the nonce before the first of them ended.
NonceSpent == \A w \in Wallet : nonce[w] \notin gone

\* A wallet that has an account when its login begins is not given another,
\* however the account has been renamed and whatever else is under way; only
\* first logins that overlap give a wallet two.
NoLaterTwin ==
    \A r \in Request :
        req[r].step \in {"account found", "nonce spent"} /\ req[r].had => req[r].new = {}

\* Of the accounts of one email at most one still bears the email as its
\* name: sign-ins that overlap make a second one only once the first has been
\* renamed, for the name is all that keeps them apart.
OneFreshAccountPerEmail ==
    \A a, b \in accounts :
        a.email = b.email /\ a.email # Blank /\ ~a.renamed /\ ~b.renamed => a = b
=============================================================================
