--------------------------- MODULE Accounts_proofs ---------------------------
(***************************************************************************)
(* What signing in guarantees for all wallets, emails, names and any       *)
(* number of requests that overlap.                                        *)
(***************************************************************************)
EXTENDS Accounts, TLAPS
-----------------------------------------------------------------------------
(* The invariant.                                                          *)

\* A nonce that has been made is either in the cache for one wallet, or with the
\* one request that is about to put it there, or gone.
InCache ==
    /\ \A w \in Wallet : nonce[w] # None => nonce[w] <= made /\ nonce[w] \notin gone
    /\ \A v, w \in Wallet : nonce[v] = nonce[w] /\ nonce[v] # None => v = w

BeingSet(r) == req[r].step = "nonce made"

OnItsWay ==
    /\ \A r \in Request : BeingSet(r) =>
          /\ req[r].nonce <= made /\ req[r].nonce \notin gone
          /\ \A w \in Wallet : nonce[w] # req[r].nonce
    /\ \A q, r \in Request : BeingSet(q) /\ BeingSet(r) /\ req[q].nonce = req[r].nonce
          => q = r

NoncesApart == InCache /\ OnItsWay /\ \A n \in gone : n <= made

\* A wallet that had an account still has it.
HadOne ==
    \A r \in Request :
        req[r].step \in {"verified", "account found", "nonce spent"} /\ req[r].had
            => \E a \in accounts : a.wallet = req[r].wallet

LoggingIn(r) == req[r].step \in {"account found", "nonce spent"}

\* Ids are given out once.
IdsApart ==
    /\ \A a \in accounts : a.id <= ids
    /\ \A a, b \in accounts : a.id = b.id => a = b
    /\ \A r \in Request : LoggingIn(r) =>
          \A a \in req[r].new : a.id <= ids /\ \A b \in accounts : a.id # b.id
    /\ \A q, r \in Request : LoggingIn(q) /\ LoggingIn(r) =>
          \A a \in req[q].new, b \in req[r].new : a.id = b.id => q = r /\ a = b

\* The unique constraint on names, and what an account is named at first.
NamesApart ==
    /\ \A a, b \in accounts : a.name = b.name /\ a.name # None => a = b
    /\ \A a \in accounts : a.email # Blank /\ ~a.renamed => a.name = a.email
    /\ \A r \in Request : LoggingIn(r) =>
          \A a \in req[r].new : a.email = Blank /\ a.name = None

IInv == TypeOK /\ NoncesApart /\ HadOne /\ IdsApart /\ NamesApart /\ NoLaterTwin
-----------------------------------------------------------------------------
(* Types.                                                                  *)

\* What a request at each step knows.
LEMMA States ==
    ASSUME NEW x \in RequestState
    PROVE  /\ x.step = "nonce made" => x.wallet \in Wallet /\ x.nonce \in 1 .. MaxNonces
           /\ x.step \in {"verified", "account found", "nonce spent"} =>
                 x.wallet \in Wallet /\ x.had \in BOOLEAN
           /\ x.step \in {"account found", "nonce spent"} => x.new \subseteq Account
           /\ x.step = "no such email" => x.email \in Email
           /\ x.step \in {"not renamed", "name free"} => x.id \in 1 .. MaxIds
           /\ x.step = "name free" => x.name \in UserName
<1>1. CASE x = Idle
    BY <1>1 DEF Idle
<1>2. CASE x \in [step : {"nonce made"}, wallet : Wallet, nonce : 1 .. MaxNonces]
    BY <1>2
<1>3. CASE x \in [step : {"verified"}, wallet : Wallet, had : BOOLEAN]
    BY <1>3
<1>4. CASE x \in [step : {"account found", "nonce spent"}, wallet : Wallet, had : BOOLEAN,
                  new : SUBSET Account]
    BY <1>4
<1>5. CASE x \in [step : {"no such email"}, email : Email]
    BY <1>5
<1>6. CASE x \in [step : {"not renamed"}, id : 1 .. MaxIds]
    BY <1>6
<1>7. CASE x \in [step : {"name free"}, id : 1 .. MaxIds, name : UserName]
    BY <1>7
<1> QED
    BY <1>1, <1>2, <1>3, <1>4, <1>5, <1>6, <1>7 DEF RequestState

\* A login that has its account is at one of its last two steps.
LEMMA LoginState ==
    ASSUME NEW x \in RequestState, x.step = "account found"
    PROVE  x \in [step : {"account found", "nonce spent"}, wallet : Wallet, had : BOOLEAN,
                  new : SUBSET Account]
<1>2. CASE x = Idle
    BY <1>2 DEF Idle
<1>3. CASE x \in [step : {"nonce made"}, wallet : Wallet, nonce : 1 .. MaxNonces]
    BY <1>3
<1>4. CASE x \in [step : {"verified"}, wallet : Wallet, had : BOOLEAN]
    BY <1>4
<1>5. CASE x \in [step : {"no such email"}, email : Email]
    BY <1>5
<1>6. CASE x \in [step : {"not renamed"}, id : 1 .. MaxIds]
    BY <1>6
<1>7. CASE x \in [step : {"name free"}, id : 1 .. MaxIds, name : UserName]
    BY <1>7
<1> QED
    BY <1>2, <1>3, <1>4, <1>5, <1>6, <1>7, Zenon DEF RequestState

\* A request that begins or goes on.
LEMMA ReqTyped ==
    ASSUME TypeOK, NEW r \in Request, NEW x \in RequestState, Begins(r, x) \/ Goes(r, x)
    PROVE  req' \in [Request -> RequestState]
    BY DEF TypeOK, Begins, Goes

LEMMA IdleTyped == Idle \in RequestState
    BY DEF RequestState

LEMMA StepTyped == TypeOK /\ [Next]_vars => TypeOK'
<1> SUFFICES ASSUME TypeOK, [Next]_vars PROVE TypeOK'
    OBVIOUS
<1>0. /\ accounts \subseteq Account /\ nonce \in [Wallet -> 1 .. MaxNonces \cup {None}]
      /\ req \in [Request -> RequestState] /\ made \in 0 .. MaxNonces
      /\ ids \in 0 .. MaxIds /\ gone \subseteq 1 .. MaxNonces
      /\ MaxNonces \in Nat /\ MaxIds \in Nat
    BY AccountsAssumption DEF TypeOK
<1>a. \A w \in Wallet : Leaving(w) \subseteq 1 .. MaxNonces
    BY <1>0 DEF Leaving
<1>1. ASSUME NEW r \in Request, Abort(r) PROVE TypeOK'
    BY <1>0, <1>1, ReqTyped, IdleTyped DEF Abort, TypeOK
<1>2. ASSUME NEW r \in Request, NEW w \in Wallet, AskNonce(r, w) PROVE TypeOK'
    <2>1. made < MaxNonces /\ made' = made + 1
        BY <1>2 DEF AskNonce
    <2>2. made + 1 \in 1 .. MaxNonces
        BY <1>0, <2>1
    <2>3. [step |-> "nonce made", wallet |-> w, nonce |-> made + 1] \in RequestState
        BY <2>2 DEF RequestState
    <2>4. req' \in [Request -> RequestState]
        BY <1>2, <2>3, ReqTyped DEF AskNonce
    <2>5. made' \in 0 .. MaxNonces
        BY <1>0, <2>1, <2>2
    <2> QED
        BY <1>0, <1>2, <2>4, <2>5 DEF AskNonce, TypeOK
<1>3. ASSUME NEW r \in Request, SetNonce(r) PROVE TypeOK'
    <2>1. req[r].wallet \in Wallet /\ req[r].nonce \in 1 .. MaxNonces
        BY <1>0, <1>3, States DEF SetNonce
    <2>2. nonce' \in [Wallet -> 1 .. MaxNonces \cup {None}]
        BY <1>0, <1>3, <2>1 DEF SetNonce
    <2>3. req' \in [Request -> RequestState]
        BY <1>3, ReqTyped, IdleTyped DEF SetNonce
    <2> QED
        BY <1>0, <1>a, <1>3, <2>1, <2>2, <2>3 DEF SetNonce, TypeOK
<1>4. ASSUME NEW w \in Wallet, Expire(w) PROVE TypeOK'
    BY <1>0, <1>a, <1>4 DEF Expire, TypeOK
<1>5. ASSUME NEW r \in Request, NEW w \in Wallet, Verify(r, w) PROVE TypeOK'
    <2>1. [step |-> "verified", wallet |-> w, had |-> Of(w) # {}] \in RequestState
        BY DEF RequestState
    <2> QED
        BY <1>0, <1>5, <2>1, ReqTyped DEF Verify, TypeOK
<1>6. ASSUME NEW r \in Request, FindOrCreateByWallet(r) PROVE TypeOK'
    <2> DEFINE found == Of(req[r].wallet)
               row == [id |-> ids + 1, email |-> Blank, wallet |-> req[r].wallet,
                       name |-> None, renamed |-> FALSE]
               new == IF found = {} THEN {row} ELSE {}
    <2>1. /\ req[r].step = "verified" /\ ids < MaxIds
          /\ ids' = IF new = {} THEN ids ELSE ids + 1
          /\ Goes(r, [step |-> "account found", wallet |-> req[r].wallet,
                      had |-> req[r].had, new |-> new])
          /\ UNCHANGED <<accounts, nonce, made, gone>>
        BY <1>6 DEF FindOrCreateByWallet, FindOrInsert
    <2>2. req[r].wallet \in Wallet /\ req[r].had \in BOOLEAN
        BY <1>0, <2>1, States
    <2>0. ids < MaxIds
        BY <2>1
    <2>3. ids + 1 \in 1 .. MaxIds
        BY <1>0, <2>0
    <2>4. row \in Account
        BY <2>2, <2>3 DEF Account
    <2>5. new \in SUBSET Account
        BY <2>4
    <2>8. ids' = ids \/ ids' = ids + 1
        BY <2>1
    <2>9. ids' \in 0 .. MaxIds
        BY <1>0, <2>3, <2>8
    <2> HIDE DEF new
    <2>6. [step |-> "account found", wallet |-> req[r].wallet, had |-> req[r].had,
           new |-> new] \in RequestState
        BY <2>2, <2>5 DEF RequestState
    <2>7. req' \in [Request -> RequestState]
        BY <2>1, <2>6, ReqTyped
    <2> QED
        BY <1>0, <2>1, <2>7, <2>9 DEF TypeOK
<1>7. ASSUME NEW r \in Request, SpendNonce(r) PROVE TypeOK'
    <2>1. req[r].step = "account found" /\ req[r] \in RequestState
        BY <1>0, <1>7 DEF SpendNonce
    <2>2. req[r] \in [step : {"account found", "nonce spent"}, wallet : Wallet,
                      had : BOOLEAN, new : SUBSET Account]
        BY <2>1, LoginState
    <2>3. [req[r] EXCEPT !.step = "nonce spent"] \in RequestState
        BY <2>2 DEF RequestState
    <2>4. req' \in [Request -> RequestState]
        BY <1>7, <2>3, ReqTyped DEF SpendNonce
    <2> QED
        BY <1>0, <1>a, <1>7, <2>2, <2>4 DEF SpendNonce, TypeOK
<1>8. ASSUME NEW r \in Request, CommitLogin(r) PROVE TypeOK'
    <2>1. req[r].new \subseteq Account
        BY <1>0, <1>8, States DEF CommitLogin
    <2> QED
        BY <1>0, <1>8, <2>1, ReqTyped, IdleTyped DEF CommitLogin, TypeOK
<1>9. ASSUME NEW r \in Request, NEW e \in Email, FindByEmail(r, e) PROVE TypeOK'
    <2>1. [step |-> "no such email", email |-> e] \in RequestState
        BY DEF RequestState
    <2> QED
        BY <1>0, <1>9, <2>1, ReqTyped DEF FindByEmail, TypeOK
<1>10. ASSUME NEW r \in Request, SaveEmail(r) PROVE TypeOK'
    <2>1. /\ req[r].step = "no such email" /\ ids < MaxIds /\ ids' = ids + 1
          /\ accounts' = accounts \cup
               {[id |-> ids + 1, email |-> req[r].email, wallet |-> Blank,
                 name |-> req[r].email, renamed |-> FALSE]}
          /\ Goes(r, Idle) /\ UNCHANGED <<nonce, made, gone>>
        BY <1>10 DEF SaveEmail, Inserted
    <2>2. req[r].email \in Email /\ req[r].email \in UserName
        BY <1>0, <2>1, States, AccountsAssumption
    <2>0. ids < MaxIds
        BY <2>1
    <2>3. ids + 1 \in 1 .. MaxIds
        BY <1>0, <2>0
    <2>4. accounts' \subseteq Account
        <3>1. [id |-> ids + 1, email |-> req[r].email, wallet |-> Blank,
               name |-> req[r].email, renamed |-> FALSE] \in Account
            BY <2>2, <2>3 DEF Account
        <3> QED
            BY <1>0, <2>1, <3>1
    <2>6. ids' = ids + 1
        BY <2>1
    <2>5. ids' \in 0 .. MaxIds
        BY <1>0, <2>3, <2>6
    <2> QED
        BY <1>0, <2>1, <2>4, <2>5, ReqTyped, IdleTyped DEF TypeOK
<1>11. ASSUME NEW r \in Request, NEW a \in accounts, LoadAccount(r, a) PROVE TypeOK'
    <2>1. [step |-> "not renamed", id |-> a.id] \in RequestState
        BY <1>0 DEF RequestState, Account
    <2> QED
        BY <1>0, <1>11, <2>1, ReqTyped DEF LoadAccount, TypeOK
<1>12. ASSUME NEW r \in Request, NEW n \in UserName, CheckName(r, n) PROVE TypeOK'
    <2>1. req[r].id \in 1 .. MaxIds
        BY <1>0, <1>12, States DEF CheckName
    <2>2. [step |-> "name free", id |-> req[r].id, name |-> n] \in RequestState
        BY <2>1 DEF RequestState
    <2> QED
        BY <1>0, <1>12, <2>2, ReqTyped DEF CheckName, TypeOK
<1>13. ASSUME NEW r \in Request, SaveName(r) PROVE TypeOK'
    <2>1. req[r].name \in UserName
        BY <1>0, <1>13, States DEF SaveName
    <2>2. \A a \in Account : [a EXCEPT !.name = req[r].name, !.renamed = TRUE] \in Account
        BY <2>1 DEF Account
    <2>3. accounts' \subseteq Account
        BY <1>0, <1>13, <2>2 DEF SaveName
    <2> QED
        BY <1>0, <1>13, <2>3, ReqTyped, IdleTyped DEF SaveName, TypeOK
<1>14. CASE UNCHANGED vars
    BY <1>0, <1>14 DEF vars, TypeOK
<1> QED
    BY <1>1, <1>2, <1>3, <1>4, <1>5, <1>6, <1>7, <1>8, <1>9, <1>10, <1>11, <1>12, <1>13,
       <1>14 DEF Next
-----------------------------------------------------------------------------
(* Nonces.                                                                 *)

\* Only request r moves.
LEMMA ReqOf ==
    ASSUME TypeOK, NEW r \in Request, NEW x, Begins(r, x) \/ Goes(r, x)
    PROVE  \A q \in Request : req'[q] = IF q = r THEN x ELSE req[q]
    BY DEF TypeOK, Begins, Goes

\* A request that goes on without a nonce of its own.
LEMMA NoNonceStep ==
    ASSUME NoncesApart, UNCHANGED <<nonce, made, gone>>,
           \A q \in Request : BeingSet(q)' => req'[q] = req[q]
    PROVE  NoncesApart'
    BY DEF NoncesApart, InCache, OnItsWay, BeingSet

LEMMA GoesOn ==
    ASSUME TypeOK, NEW r \in Request, NEW x, x.step # "nonce made", Begins(r, x) \/ Goes(r, x)
    PROVE  \A q \in Request : BeingSet(q)' => req'[q] = req[q] /\ q # r
    BY ReqOf DEF BeingSet

\* Only AskNonce makes a nonce that is still to be set.
LEMMA OnlyAsked ==
    ASSUME TypeOK, NEW r \in Request,
           \/ Abort(r) \/ SetNonce(r) \/ \E w \in Wallet : Verify(r, w)
           \/ FindOrCreateByWallet(r) \/ SpendNonce(r) \/ CommitLogin(r)
           \/ \E e \in Email : FindByEmail(r, e)
           \/ SaveEmail(r)
           \/ \E a \in accounts : LoadAccount(r, a)
           \/ \E n \in UserName : CheckName(r, n)
           \/ SaveName(r)
    PROVE  \A q \in Request : BeingSet(q)' => req'[q] = req[q] /\ q # r
<1>1. CASE Goes(r, Idle)
    <2>1. Idle.step # "nonce made"
        BY DEF Idle
    <2> QED
        BY <1>1, <2>1, GoesOn
<1>2. ASSUME NEW w \in Wallet, Verify(r, w)
      PROVE  \A q \in Request : BeingSet(q)' => req'[q] = req[q] /\ q # r
    <2> DEFINE x == [step |-> "verified", wallet |-> w, had |-> Of(w) # {}]
    <2>1. Begins(r, x)
        BY <1>2 DEF Verify
    <2>2. x.step # "nonce made"
        OBVIOUS
    <2> HIDE DEF x
    <2> QED
        BY <2>1, <2>2, GoesOn
<1>3. CASE FindOrCreateByWallet(r)
    <2> DEFINE x == [step |-> "account found", wallet |-> req[r].wallet, had |-> req[r].had,
                     new |-> IF Of(req[r].wallet) = {}
                             THEN {[id |-> ids + 1, email |-> Blank,
                                    wallet |-> req[r].wallet, name |-> None,
                                    renamed |-> FALSE]}
                             ELSE {}]
    <2>1. Goes(r, x)
        BY <1>3 DEF FindOrCreateByWallet, FindOrInsert
    <2>2. x.step # "nonce made"
        OBVIOUS
    <2> HIDE DEF x
    <2> QED
        BY <2>1, <2>2, GoesOn
<1>4. CASE SpendNonce(r)
    <2>1. req[r] \in [step : {"account found", "nonce spent"}, wallet : Wallet,
                      had : BOOLEAN, new : SUBSET Account]
        BY <1>4, LoginState DEF SpendNonce, TypeOK
    <2>2. [req[r] EXCEPT !.step = "nonce spent"].step = "nonce spent"
        BY <2>1
    <2> QED
        BY <1>4, <2>2, GoesOn DEF SpendNonce
<1>5. ASSUME NEW e \in Email, FindByEmail(r, e)
      PROVE  \A q \in Request : BeingSet(q)' => req'[q] = req[q] /\ q # r
    <2> DEFINE x == [step |-> "no such email", email |-> e]
    <2>1. Begins(r, x)
        BY <1>5 DEF FindByEmail
    <2>2. x.step # "nonce made"
        OBVIOUS
    <2> HIDE DEF x
    <2> QED
        BY <2>1, <2>2, GoesOn
<1>6. ASSUME NEW a \in accounts, LoadAccount(r, a)
      PROVE  \A q \in Request : BeingSet(q)' => req'[q] = req[q] /\ q # r
    <2> DEFINE x == [step |-> "not renamed", id |-> a.id]
    <2>1. Begins(r, x)
        BY <1>6 DEF LoadAccount
    <2>2. x.step # "nonce made"
        OBVIOUS
    <2> HIDE DEF x
    <2> QED
        BY <2>1, <2>2, GoesOn
<1>7. ASSUME NEW n \in UserName, CheckName(r, n)
      PROVE  \A q \in Request : BeingSet(q)' => req'[q] = req[q] /\ q # r
    <2> DEFINE x == [step |-> "name free", id |-> req[r].id, name |-> n]
    <2>1. Goes(r, x)
        BY <1>7 DEF CheckName
    <2>2. x.step # "nonce made"
        OBVIOUS
    <2> HIDE DEF x
    <2> QED
        BY <2>1, <2>2, GoesOn
<1> QED
    BY <1>1, <1>2, <1>3, <1>4, <1>5, <1>6, <1>7
    DEF Abort, SetNonce, CommitLogin, SaveEmail, Inserted, SaveName

LEMMA NoncesKept == TypeOK /\ NoncesApart /\ [Next]_vars => NoncesApart'
<1> SUFFICES ASSUME TypeOK, NoncesApart, [Next]_vars PROVE NoncesApart'
    OBVIOUS
<1>0. /\ nonce \in [Wallet -> 1 .. MaxNonces \cup {None}] /\ made \in Nat
      /\ None \notin Nat /\ gone \subseteq Nat
    BY AccountsAssumption DEF TypeOK
<1>n. \A w \in Wallet : nonce[w] # None => nonce[w] \in Nat
    BY <1>0
<1>s. \A q \in Request : BeingSet(q) => req[q].wallet \in Wallet /\ req[q].nonce \in Nat
    <2>1. \A q \in Request : req[q] \in RequestState
        BY DEF TypeOK
    <2>2. 1 .. MaxNonces \subseteq Nat
        BY AccountsAssumption
    <2> QED
        BY <2>1, <2>2, States DEF BeingSet
<1> USE DEF NoncesApart
<1>1. ASSUME NEW r \in Request, NEW w \in Wallet, AskNonce(r, w) PROVE NoncesApart'
    <2> DEFINE x == [step |-> "nonce made", wallet |-> w, nonce |-> made + 1]
    <2>1. \A q \in Request : req'[q] = IF q = r THEN x ELSE req[q]
        BY <1>1, ReqOf DEF AskNonce
    <2>2. made' = made + 1 /\ nonce' = nonce /\ gone' = gone
        BY <1>1 DEF AskNonce
    <2>3. \A n \in Nat : n <= made => n <= made + 1 /\ n # made + 1
        BY <1>0
    <2>4. InCache' /\ \A n \in gone' : n <= made'
        BY <1>0, <1>n, <2>2, <2>3 DEF InCache
    <2>5. \A q \in Request : BeingSet(q)' =>
             \/ q = r /\ req'[q].nonce = made + 1
             \/ q # r /\ req'[q] = req[q] /\ BeingSet(q)
        <3>1. x.nonce = made + 1
            OBVIOUS
        <3> HIDE DEF x
        <3> QED
            BY <2>1, <3>1 DEF BeingSet
    <2>6. made + 1 \notin gone /\ \A v \in Wallet : nonce[v] # made + 1
        BY <1>0, <1>n, <2>3 DEF InCache
    <2>7. \A q \in Request : BeingSet(q) => req[q].nonce # made + 1
        BY <1>s, <2>3 DEF OnItsWay
    <2>8. made + 1 <= made + 1
        BY <1>0
    <2>9. OnItsWay'
        BY <1>s, <2>2, <2>3, <2>5, <2>6, <2>7, <2>8 DEF OnItsWay
    <2> QED
        BY <2>4, <2>9
<1>2. ASSUME NEW r \in Request, SetNonce(r) PROVE NoncesApart'
    <2>1. BeingSet(r) /\ req[r].wallet \in Wallet
        BY <1>2, <1>s DEF SetNonce, BeingSet
    <2>2. \A q \in Request : BeingSet(q)' => q # r /\ req'[q] = req[q] /\ BeingSet(q)
        BY <1>2, OnlyAsked DEF BeingSet
    <2>3. /\ nonce' = [nonce EXCEPT ![req[r].wallet] = req[r].nonce]
          /\ gone' = gone \cup ({nonce[req[r].wallet]} \ {None}) /\ made' = made
        BY <1>2 DEF SetNonce, Leaving
    <2>4. \A w \in Wallet : nonce'[w] = IF w = req[r].wallet THEN req[r].nonce ELSE nonce[w]
        BY <1>0, <2>1, <2>3
    <2>5. \A n \in gone' : n <= made'
        BY <2>1, <2>3 DEF InCache
    <2>6. InCache'
        BY <2>1, <2>3, <2>4 DEF InCache, OnItsWay
    <2>7. OnItsWay'
        BY <2>1, <2>2, <2>3, <2>4 DEF InCache, OnItsWay
    <2> QED
        BY <2>5, <2>6, <2>7
<1>3. ASSUME NEW w \in Wallet, nonce' = [nonce EXCEPT ![w] = None],
             gone' = gone \cup Leaving(w), made' = made,
             \A q \in Request : BeingSet(q)' => req'[q] = req[q]
      PROVE  NoncesApart'
    <2>1. \A q \in Request : BeingSet(q)' => req'[q] = req[q] /\ BeingSet(q)
        BY <1>3 DEF BeingSet
    <2>2. \A v \in Wallet : nonce'[v] = IF v = w THEN None ELSE nonce[v]
        BY <1>0, <1>3
    <2>3. gone' = gone \cup ({nonce[w]} \ {None})
        BY <1>3 DEF Leaving
    <2>4. \A n \in gone' : n <= made'
        BY <1>3, <2>3 DEF InCache
    <2>5. InCache'
        BY <1>3, <2>2, <2>3 DEF InCache
    <2>6. OnItsWay'
        BY <1>0, <1>s, <1>3, <2>1, <2>2, <2>3 DEF InCache, OnItsWay
    <2> QED
        BY <2>4, <2>5, <2>6
<1>4. ASSUME NEW w \in Wallet, Expire(w) PROVE NoncesApart'
    BY <1>3, <1>4 DEF Expire, BeingSet
<1>5. ASSUME NEW r \in Request, SpendNonce(r) PROVE NoncesApart'
    <2>1. req[r].wallet \in Wallet
        BY <1>5, States DEF SpendNonce, TypeOK
    <2> QED
        BY <1>3, <1>5, <2>1, OnlyAsked DEF SpendNonce
<1>6. CASE UNCHANGED vars
    BY <1>6, NoNonceStep DEF vars, BeingSet
<1>7. ASSUME NEW r \in Request,
             \/ Abort(r) \/ \E w \in Wallet : Verify(r, w)
             \/ FindOrCreateByWallet(r) \/ CommitLogin(r)
             \/ \E e \in Email : FindByEmail(r, e)
             \/ SaveEmail(r)
             \/ \E a \in accounts : LoadAccount(r, a)
             \/ \E n \in UserName : CheckName(r, n)
             \/ SaveName(r)
      PROVE  NoncesApart'
    <2>1. UNCHANGED <<nonce, made, gone>>
        BY <1>7 DEF Abort, Verify, FindOrCreateByWallet, FindOrInsert, CommitLogin,
            FindByEmail, SaveEmail, Inserted, LoadAccount, CheckName, SaveName
    <2>2. \A q \in Request : BeingSet(q)' => req'[q] = req[q]
        BY <1>7, OnlyAsked
    <2> QED
        BY <2>1, <2>2, NoNonceStep
<1> QED
    BY <1>1, <1>2, <1>4, <1>5, <1>6, <1>7 DEF Next
-----------------------------------------------------------------------------
(* Accounts.                                                               *)

\* The steps of a request that is not a login, or whose login is over.
LEMMA OutsideStep ==
    ASSUME TypeOK, NEW r \in Request, NEW x, Begins(r, x) \/ Goes(r, x),
           x.step \notin {"verified", "account found", "nonce spent"}
    PROVE  \A q \in Request :
              req'[q].step \in {"verified", "account found", "nonce spent"}
                 => req'[q] = req[q] /\ q # r
    BY ReqOf

LEMMA OutsideLogin ==
    ASSUME TypeOK, NEW r \in Request,
           \/ Abort(r) \/ \E w \in Wallet : AskNonce(r, w)
           \/ SetNonce(r) \/ CommitLogin(r)
           \/ \E e \in Email : FindByEmail(r, e)
           \/ SaveEmail(r)
           \/ \E a \in accounts : LoadAccount(r, a)
           \/ \E n \in UserName : CheckName(r, n)
           \/ SaveName(r)
    PROVE  \A q \in Request :
              req'[q].step \in {"verified", "account found", "nonce spent"}
                 => req'[q] = req[q] /\ q # r
<1> DEFINE Others == \A q \in Request :
              req'[q].step \in {"verified", "account found", "nonce spent"}
                 => req'[q] = req[q] /\ q # r
<1>1. CASE Goes(r, Idle)
    <2>1. Idle.step \notin {"verified", "account found", "nonce spent"}
        BY DEF Idle
    <2> QED
        BY <1>1, <2>1, OutsideStep
<1>2. ASSUME NEW w \in Wallet, AskNonce(r, w) PROVE Others
    <2> DEFINE x == [step |-> "nonce made", wallet |-> w, nonce |-> made + 1]
    <2>1. Begins(r, x)
        BY <1>2 DEF AskNonce
    <2>2. x.step \notin {"verified", "account found", "nonce spent"}
        OBVIOUS
    <2> HIDE DEF x
    <2> QED
        BY <2>1, <2>2, OutsideStep
<1>3. ASSUME NEW e \in Email, FindByEmail(r, e) PROVE Others
    <2> DEFINE x == [step |-> "no such email", email |-> e]
    <2>1. Begins(r, x)
        BY <1>3 DEF FindByEmail
    <2>2. x.step \notin {"verified", "account found", "nonce spent"}
        OBVIOUS
    <2> HIDE DEF x
    <2> QED
        BY <2>1, <2>2, OutsideStep
<1>4. ASSUME NEW a \in accounts, LoadAccount(r, a) PROVE Others
    <2> DEFINE x == [step |-> "not renamed", id |-> a.id]
    <2>1. Begins(r, x)
        BY <1>4 DEF LoadAccount
    <2>2. x.step \notin {"verified", "account found", "nonce spent"}
        OBVIOUS
    <2> HIDE DEF x
    <2> QED
        BY <2>1, <2>2, OutsideStep
<1>5. ASSUME NEW n \in UserName, CheckName(r, n) PROVE Others
    <2> DEFINE x == [step |-> "name free", id |-> req[r].id, name |-> n]
    <2>1. Goes(r, x)
        BY <1>5 DEF CheckName
    <2>2. x.step \notin {"verified", "account found", "nonce spent"}
        OBVIOUS
    <2> HIDE DEF x
    <2> QED
        BY <2>1, <2>2, OutsideStep
<1> QED
    BY <1>1, <1>2, <1>3, <1>4, <1>5
    DEF Abort, SetNonce, CommitLogin, SaveEmail, Inserted, SaveName

\* What a login knows when the table has grown or been renamed in.
LEMMA HadStep ==
    ASSUME HadOne, NoLaterTwin,
           \A a \in accounts : \E b \in accounts' : b.wallet = a.wallet,
           \A q \in Request :
              req'[q].step \in {"verified", "account found", "nonce spent"} =>
                 \/ req'[q] = req[q]
                 \/ /\ req'[q].had => \E b \in accounts' : b.wallet = req'[q].wallet
                    /\ req'[q].step # "verified" /\ req'[q].had => req'[q].new = {}
    PROVE  HadOne' /\ NoLaterTwin'
<1>1. HadOne'
    <2> SUFFICES ASSUME NEW q \in Request, req'[q].had,
                        req'[q].step \in {"verified", "account found", "nonce spent"}
                 PROVE  \E b \in accounts' : b.wallet = req'[q].wallet
        BY DEF HadOne
    <2>1. CASE req'[q] = req[q]
        <3>1. PICK a \in accounts : a.wallet = req[q].wallet
            BY <2>1 DEF HadOne
        <3> QED
            BY <2>1, <3>1
    <2>2. CASE req'[q] # req[q]
        BY <2>2
    <2> QED
        BY <2>1, <2>2
<1>2. NoLaterTwin'
    BY DEF NoLaterTwin
<1> QED
    BY <1>1, <1>2

LEMMA TwinsKept == TypeOK /\ HadOne /\ NoLaterTwin /\ [Next]_vars => HadOne' /\ NoLaterTwin'
<1> SUFFICES ASSUME TypeOK, HadOne, NoLaterTwin, [Next]_vars PROVE HadOne' /\ NoLaterTwin'
    OBVIOUS
<1>1. ASSUME NEW r \in Request, NEW w \in Wallet, Verify(r, w) PROVE HadOne' /\ NoLaterTwin'
    <2> DEFINE x == [step |-> "verified", wallet |-> w, had |-> Of(w) # {}]
    <2>1. \A q \in Request : req'[q] = IF q = r THEN x ELSE req[q]
        BY <1>1, ReqOf DEF Verify
    <2>2. accounts' = accounts
        BY <1>1 DEF Verify
    <2>3. x.step = "verified" /\ x.wallet = w /\ (x.had => Of(w) # {})
        OBVIOUS
    <2>4. x.had => \E b \in accounts : b.wallet = x.wallet
        BY <2>3 DEF Of
    <2> HIDE DEF x
    <2> QED
        BY <2>1, <2>2, <2>3, <2>4, HadStep
<1>2. ASSUME NEW r \in Request, FindOrCreateByWallet(r) PROVE HadOne' /\ NoLaterTwin'
    <2> DEFINE row == [id |-> ids + 1, email |-> Blank, wallet |-> req[r].wallet,
                       name |-> None, renamed |-> FALSE]
               new == IF Of(req[r].wallet) = {} THEN {row} ELSE {}
               x == [step |-> "account found", wallet |-> req[r].wallet,
                     had |-> req[r].had, new |-> new]
    <2>1. \A q \in Request : req'[q] = IF q = r THEN x ELSE req[q]
        <3>1. Goes(r, x)
            BY <1>2 DEF FindOrCreateByWallet, FindOrInsert
        <3> HIDE DEF x
        <3> QED
            BY <3>1, ReqOf
    <2>2. accounts' = accounts /\ req[r].step = "verified"
        BY <1>2 DEF FindOrCreateByWallet, FindOrInsert
    <2>3. x.wallet = req[r].wallet /\ x.had = req[r].had /\ x.new = new
        OBVIOUS
    <2>4. req[r].had => \E b \in accounts : b.wallet = req[r].wallet
        BY <2>2 DEF HadOne
    <2>5. req[r].had => new = {}
        BY <2>4 DEF Of
    <2> HIDE DEF x, new
    <2> QED
        BY <2>1, <2>2, <2>3, <2>4, <2>5, HadStep
<1>3. ASSUME NEW r \in Request, SpendNonce(r) PROVE HadOne' /\ NoLaterTwin'
    <2> DEFINE x == [req[r] EXCEPT !.step = "nonce spent"]
    <2>1. \A q \in Request : req'[q] = IF q = r THEN x ELSE req[q]
        BY <1>3, ReqOf DEF SpendNonce
    <2>2. accounts' = accounts /\ req[r].step = "account found"
        BY <1>3 DEF SpendNonce
    <2>3. x.wallet = req[r].wallet /\ x.had = req[r].had /\ x.new = req[r].new
        <3>1. req[r] \in [step : {"account found", "nonce spent"}, wallet : Wallet,
                          had : BOOLEAN, new : SUBSET Account]
            BY <2>2, LoginState DEF TypeOK
        <3> QED
            BY <3>1
    <2>4. /\ req[r].had => \E b \in accounts : b.wallet = req[r].wallet
          /\ req[r].had => req[r].new = {}
        BY <2>2 DEF HadOne, NoLaterTwin
    <2> HIDE DEF x
    <2> QED
        BY <2>1, <2>2, <2>3, <2>4, HadStep
<1>4. CASE UNCHANGED vars \/ \E w \in Wallet : Expire(w)
    BY <1>4, HadStep DEF vars, Expire
<1>5. ASSUME NEW r \in Request,
             \/ Abort(r) \/ \E w \in Wallet : AskNonce(r, w)
             \/ SetNonce(r) \/ CommitLogin(r)
             \/ \E e \in Email : FindByEmail(r, e)
             \/ SaveEmail(r)
             \/ \E a \in accounts : LoadAccount(r, a)
             \/ \E n \in UserName : CheckName(r, n)
             \/ SaveName(r)
      PROVE  HadOne' /\ NoLaterTwin'
    <2>1. \A q \in Request :
             req'[q].step \in {"verified", "account found", "nonce spent"}
                => req'[q] = req[q]
        BY <1>5, OutsideLogin
    <2>2. \A a \in accounts : \E b \in accounts' : b.wallet = a.wallet
        <3>1. CASE SaveName(r)
            <4>1. \A a \in accounts : [a EXCEPT !.name = req[r].name,
                                                !.renamed = TRUE].wallet = a.wallet
                BY DEF TypeOK, Account
            <4> QED
                BY <3>1, <4>1 DEF SaveName
        <3>2. CASE ~ SaveName(r)
            <4>1. accounts \subseteq accounts'
                BY <1>5, <3>2 DEF Abort, AskNonce, SetNonce, CommitLogin, FindByEmail,
                    SaveEmail, Inserted, LoadAccount, CheckName
            <4> QED
                BY <4>1
        <3> QED
            BY <3>1, <3>2
    <2> QED
        BY <2>1, <2>2, HadStep
<1> QED
    BY <1>1, <1>2, <1>3, <1>4, <1>5 DEF Next
-----------------------------------------------------------------------------
(* Ids and names.                                                          *)

RowsApart == IdsApart /\ NamesApart

\* A step that inserts nothing, nor is about to.
LEMMA RowsStep ==
    ASSUME RowsApart, UNCHANGED <<accounts, ids>>,
           \A q \in Request : LoggingIn(q)' => LoggingIn(q) /\ req'[q].new = req[q].new
    PROVE  RowsApart'
<1>1. IdsApart'
    BY DEF RowsApart, IdsApart
<1>2. NamesApart'
    BY DEF RowsApart, NamesApart
<1> QED
    BY <1>1, <1>2 DEF RowsApart

LEMMA RowsKept == TypeOK /\ RowsApart /\ [Next]_vars => RowsApart'
<1> SUFFICES ASSUME TypeOK, RowsApart, [Next]_vars PROVE RowsApart'
    OBVIOUS
<1>0. /\ accounts \subseteq Account /\ ids \in Nat
      /\ \A a \in Account : a.id \in Nat
    BY AccountsAssumption DEF TypeOK, Account
<1>n. \A q \in Request : LoggingIn(q) => req[q].new \subseteq Account
    BY States DEF LoggingIn, TypeOK
<1>1. CASE UNCHANGED vars \/ \E w \in Wallet : Expire(w)
    BY <1>1, RowsStep DEF vars, Expire, LoggingIn
<1>2. ASSUME NEW r \in Request,
             \/ Abort(r) \/ \E w \in Wallet : AskNonce(r, w)
             \/ SetNonce(r)
             \/ \E e \in Email : FindByEmail(r, e)
             \/ \E a \in accounts : LoadAccount(r, a)
             \/ \E n \in UserName : CheckName(r, n)
      PROVE  RowsApart'
    <2>1. UNCHANGED <<accounts, ids>>
        BY <1>2 DEF Abort, AskNonce, SetNonce, FindByEmail, LoadAccount, CheckName
    <2>2. \A q \in Request : LoggingIn(q)' => req'[q] = req[q]
        BY <1>2, OutsideLogin DEF LoggingIn
    <2> QED
        BY <2>1, <2>2, RowsStep DEF LoggingIn
<1>3. ASSUME NEW r \in Request, NEW w \in Wallet, Verify(r, w) PROVE RowsApart'
    <2> DEFINE x == [step |-> "verified", wallet |-> w, had |-> Of(w) # {}]
    <2>1. \A q \in Request : req'[q] = IF q = r THEN x ELSE req[q]
        BY <1>3, ReqOf DEF Verify
    <2>2. UNCHANGED <<accounts, ids>>
        BY <1>3 DEF Verify
    <2>3. x.step = "verified"
        OBVIOUS
    <2> HIDE DEF x
    <2> QED
        BY <2>1, <2>2, <2>3, RowsStep DEF LoggingIn
<1>4. ASSUME NEW r \in Request, SpendNonce(r) PROVE RowsApart'
    <2> DEFINE x == [req[r] EXCEPT !.step = "nonce spent"]
    <2>1. \A q \in Request : req'[q] = IF q = r THEN x ELSE req[q]
        BY <1>4, ReqOf DEF SpendNonce
    <2>2. UNCHANGED <<accounts, ids>> /\ req[r].step = "account found"
        BY <1>4 DEF SpendNonce
    <2>3. x.new = req[r].new
        <3>1. req[r] \in [step : {"account found", "nonce spent"}, wallet : Wallet,
                          had : BOOLEAN, new : SUBSET Account]
            BY <2>2, LoginState DEF TypeOK
        <3> QED
            BY <3>1
    <2> HIDE DEF x
    <2> QED
        BY <2>1, <2>2, <2>3, RowsStep DEF LoggingIn
<1>5. ASSUME NEW r \in Request, FindOrCreateByWallet(r) PROVE RowsApart'
    <2> DEFINE row == [id |-> ids + 1, email |-> Blank, wallet |-> req[r].wallet,
                       name |-> None, renamed |-> FALSE]
               new == IF Of(req[r].wallet) = {} THEN {row} ELSE {}
               x == [step |-> "account found", wallet |-> req[r].wallet,
                     had |-> req[r].had, new |-> new]
    <2>1. \A q \in Request : req'[q] = IF q = r THEN x ELSE req[q]
        <3>1. Goes(r, x)
            BY <1>5 DEF FindOrCreateByWallet, FindOrInsert
        <3> HIDE DEF x
        <3> QED
            BY <3>1, ReqOf
    <2>2. /\ accounts' = accounts /\ req[r].step = "verified"
          /\ ids' = IF new = {} THEN ids ELSE ids + 1
        BY <1>5 DEF FindOrCreateByWallet, FindOrInsert
    <2>3. row.id = ids + 1 /\ row.email = Blank /\ row.name = None
        OBVIOUS
    <2>4. x.new = new /\ \A a \in new : a = row /\ new # {}
        OBVIOUS
    <2> HIDE DEF x, new, row
    <2>5. \A q \in Request : LoggingIn(q)' =>
             \/ q = r /\ req'[q].new = new
             \/ q # r /\ LoggingIn(q) /\ req'[q].new = req[q].new
        BY <2>1, <2>4 DEF LoggingIn
    <2>6. \A n \in Nat : n <= ids => n <= ids' /\ n # ids + 1
        BY <1>0, <2>2
    <2>7. \A a \in new : a.id = ids + 1 /\ a.id = ids' /\ a.id <= ids'
        BY <1>0, <2>2, <2>3, <2>4
    <2>8. IdsApart'
        <3>1. \A a \in accounts' : a.id <= ids' /\ a.id # ids + 1
            BY <1>0, <2>2, <2>6 DEF RowsApart, IdsApart
        <3>2. \A a, b \in accounts' : a.id = b.id => a = b
            BY <2>2 DEF RowsApart, IdsApart
        <3>3. \A q \in Request : LoggingIn(q) =>
                 \A a \in req[q].new : a.id <= ids' /\ a.id # ids + 1
            BY <1>0, <1>n, <2>6 DEF RowsApart, IdsApart
        <3>4. \A q \in Request : LoggingIn(q)' =>
                 \A a \in req'[q].new : a.id <= ids' /\ \A b \in accounts' : a.id # b.id
            BY <2>2, <2>5, <2>7, <3>1, <3>3 DEF RowsApart, IdsApart
        <3>5. \A p, q \in Request : LoggingIn(p)' /\ LoggingIn(q)' =>
                 \A a \in req'[p].new, b \in req'[q].new : a.id = b.id => p = q /\ a = b
            BY <2>4, <2>5, <2>7, <3>3 DEF RowsApart, IdsApart
        <3> QED
            BY <3>1, <3>2, <3>4, <3>5 DEF IdsApart
    <2>9. NamesApart'
        BY <2>2, <2>3, <2>4, <2>5 DEF RowsApart, NamesApart
    <2> QED
        BY <2>8, <2>9 DEF RowsApart
<1>6. ASSUME NEW r \in Request, CommitLogin(r) PROVE RowsApart'
    <2>1. /\ LoggingIn(r) /\ accounts' = accounts \cup req[r].new /\ ids' = ids
        BY <1>6 DEF CommitLogin, LoggingIn
    <2>2. \A q \in Request : LoggingIn(q)' => q # r /\ LoggingIn(q) /\ req'[q].new = req[q].new
        BY <1>6, OutsideLogin DEF LoggingIn
    <2>3. IdsApart'
        BY <2>1, <2>2 DEF RowsApart, IdsApart
    <2>4. NamesApart'
        BY <2>1, <2>2 DEF RowsApart, NamesApart
    <2> QED
        BY <2>3, <2>4 DEF RowsApart
<1>7. ASSUME NEW r \in Request, SaveEmail(r) PROVE RowsApart'
    <2> DEFINE e == req[r].email
               row == [id |-> ids + 1, email |-> e, wallet |-> Blank, name |-> e,
                       renamed |-> FALSE]
    <2>1. /\ accounts' = accounts \cup {row} /\ ids' = ids + 1
          /\ \A a \in accounts : a.name # e \/ e = None
        BY <1>7 DEF SaveEmail, Inserted
    <2>2. e # None
        BY <1>7, States, AccountsAssumption DEF SaveEmail, Inserted, TypeOK
    <2>3. row.id = ids + 1 /\ row.email = e /\ row.name = e
        OBVIOUS
    <2>4. \A q \in Request : LoggingIn(q)' => LoggingIn(q) /\ req'[q].new = req[q].new
        BY <1>7, OutsideLogin DEF LoggingIn
    <2>5. \A n \in Nat : n <= ids => n <= ids' /\ n # ids + 1
        BY <1>0, <2>1
    <2>6. ids + 1 <= ids'
        BY <1>0, <2>1
    <2> HIDE DEF row
    <2>7. IdsApart'
        <3>1. \A a \in accounts : a.id <= ids' /\ a.id # ids + 1
            BY <1>0, <2>5 DEF RowsApart, IdsApart
        <3>2. \A q \in Request : LoggingIn(q) =>
                 \A a \in req[q].new : a.id <= ids' /\ a.id # ids + 1
            BY <1>0, <1>n, <2>5 DEF RowsApart, IdsApart
        <3> QED
            BY <2>1, <2>3, <2>4, <2>6, <3>1, <3>2 DEF RowsApart, IdsApart
    <2>8. NamesApart'
        BY <2>1, <2>2, <2>3, <2>4 DEF RowsApart, NamesApart
    <2> QED
        BY <2>7, <2>8 DEF RowsApart
<1>8. ASSUME NEW r \in Request, SaveName(r) PROVE RowsApart'
    <2> DEFINE ren(a) == IF a.id = req[r].id
                         THEN [a EXCEPT !.name = req[r].name, !.renamed = TRUE] ELSE a
    <2>1. /\ accounts' = {ren(a) : a \in accounts} /\ ids' = ids
          /\ \A a \in accounts : a.name = req[r].name => a.id = req[r].id
        BY <1>8 DEF SaveName, Free
    <2>2. \A a \in Account :
             /\ ren(a).id = a.id /\ ren(a).email = a.email
             /\ a.id = req[r].id => ren(a).name = req[r].name /\ ren(a).renamed = TRUE
             /\ a.id # req[r].id => ren(a) = a
        BY DEF Account
    <2>3. \A q \in Request : LoggingIn(q)' => LoggingIn(q) /\ req'[q].new = req[q].new
        BY <1>8, OutsideLogin DEF LoggingIn
    <2> HIDE DEF ren
    <2>4. \A x \in accounts' : \E a \in accounts : x = ren(a) /\ a \in Account
        BY <1>0, <2>1
    <2>5. IdsApart'
        BY <2>1, <2>2, <2>3, <2>4 DEF RowsApart, IdsApart
    <2>6. NamesApart'
        BY <2>2, <2>1, <2>3, <2>4 DEF RowsApart, IdsApart, NamesApart
    <2> QED
        BY <2>5, <2>6 DEF RowsApart
<1> QED
    BY <1>1, <1>2, <1>3, <1>4, <1>5, <1>6, <1>7, <1>8 DEF Next
-----------------------------------------------------------------------------
LEMMA InitIInv == Init => IInv
<1> SUFFICES ASSUME Init PROVE IInv
    OBVIOUS
<1>1. \A r \in Request : req[r].step = "idle"
    BY DEF Init, Idle
<1>2. TypeOK
    BY AccountsAssumption, IdleTyped DEF Init, TypeOK
<1>3. NoncesApart /\ HadOne /\ NoLaterTwin
    BY <1>1 DEF Init, NoncesApart, InCache, OnItsWay, BeingSet, HadOne, NoLaterTwin
<1>4. IdsApart /\ NamesApart
    BY <1>1 DEF Init, IdsApart, NamesApart, LoggingIn
<1> QED
    BY <1>2, <1>3, <1>4 DEF IInv

LEMMA Invariance == Spec => []IInv
<1>1. IInv /\ [Next]_vars => IInv'
    BY StepTyped, NoncesKept, TwinsKept, RowsKept DEF IInv, RowsApart
<1> QED
    BY <1>1, InitIInv, PTL DEF Spec
-----------------------------------------------------------------------------
\* Every state of the accounts and of the requests is well typed: no account
\* is without a wallet column or with a wallet nobody has.
THEOREM TypeCorrect == Spec => []TypeOK
<1>1. IInv => TypeOK
    BY DEF IInv
<1> QED
    BY <1>1, Invariance, PTL

\* A nonce that has left the cache never comes back, whatever overlaps.
THEOREM NoncesStaySpent == Spec => []NonceSpent
<1>1. IInv => NonceSpent
    <2> SUFFICES ASSUME IInv, NEW w \in Wallet PROVE nonce[w] \notin gone
        BY DEF NonceSpent
    <2>1. CASE nonce[w] = None
        <3>1. gone \subseteq 1 .. MaxNonces
            BY DEF IInv, TypeOK
        <3>2. None \notin 1 .. MaxNonces
            BY AccountsAssumption
        <3> QED
            BY <2>1, <3>1, <3>2
    <2>2. CASE nonce[w] # None
        BY <2>2 DEF IInv, NoncesApart, InCache
    <2> QED
        BY <2>1, <2>2
<1> QED
    BY <1>1, Invariance, PTL

\* A wallet that has an account at the start of its login gets no second one.
THEOREM NoTwinLater == Spec => []NoLaterTwin
<1>1. IInv => NoLaterTwin
    BY DEF IInv
<1> QED
    BY <1>1, Invariance, PTL

\* Of one email's accounts at most one still bears the email as its name.
THEOREM EmailsApart == Spec => []OneFreshAccountPerEmail
<1>1. IInv => OneFreshAccountPerEmail
    <2> SUFFICES ASSUME IInv, NEW a \in accounts, NEW b \in accounts,
                        a.email = b.email, a.email # Blank, ~a.renamed, ~b.renamed
                 PROVE  a = b
        BY DEF OneFreshAccountPerEmail
    <2>1. a.name = a.email /\ b.name = a.email
        BY DEF IInv, NamesApart
    <2>2. a.email \in Email
        BY DEF IInv, TypeOK, Account
    <2>3. a.name # None
        BY <2>1, <2>2, AccountsAssumption
    <2> QED
        BY <2>1, <2>3 DEF IInv, NamesApart
<1> QED
    BY <1>1, Invariance, PTL
=============================================================================
