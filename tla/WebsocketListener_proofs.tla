---------------------- MODULE WebsocketListener_proofs ----------------------
(***************************************************************************)
(* What WebsocketListener guarantees for every set of indexers, accounts,  *)
(* clusters and sockets, and any number of restarts and changes.           *)
(***************************************************************************)
EXTENDS WebsocketListener, FiniteSetTheorems, SequenceTheorems, WellFoundedInduction, TLAPS
-----------------------------------------------------------------------------
(* The invariant.                                                          *)

Request == [id : Nat, pda : Pda]

\* A number stands for one account, in requests and in answers.
NumbersOK ==
    /\ reqs \in [Socket -> SUBSET Request]
    /\ \A s \in Socket : \A m \in reqs[s] :
          m.id \in DOMAIN counterMap /\ counterMap[m.id] = m.pda
    /\ \A s \in Socket : \A k \in DOMAIN wire[s] :
          wire[s][k].kind = "result" => wire[s][k].id \in DOMAIN counterMap

\* What the database holds, and what is about to be in it, is in memory.
Listed(c, g) == \E n \in DOMAIN programs[c] : programs[c][n] = g

MemoryOK ==
    /\ phase # "ready" => pending = {}
    /\ \A s \in Socket : sock[s] = "none" <=> phase = "down"
    /\ phase = "ready" =>
          /\ \A i \in Indexer : Listed(ClusterOf[i], ProgramOf[i])
          /\ \A r \in db \cup pending : r[2] \in pdas[ProgramOf[r[1]]]

\* A loaded account is asked for on its own cluster.  Any account in memory is
\* asked for on the cluster of some indexer of its program, as memory keeps
\* accounts by program; so that registering a second trigger for it has nothing
\* to ask.
AskedOK ==
    phase = "ready" =>
        /\ \A r \in loaded : r[2] \in pdas[ProgramOf[r[1]]] /\ Reached(ClusterOf[r[1]], r[2])
        /\ \A g \in Program : \A p \in pdas[g] :
              \E i \in Indexer : ProgramOf[i] = g /\ Reached(ClusterOf[i], p)

\* Only the first socket of a cluster is used.
IdleOK ==
    \A s \in Socket : s # First(SocketCluster[s]) =>
        reqs[s] = {} /\ wire[s] = << >> /\ \A u \in SubId : subs[s][u] = None

\* A message says what its node knows.
MessagesOK ==
    \A s \in Socket : \A k \in DOMAIN wire[s] :
        LET m == wire[s][k] IN
        IF m.kind = "result" THEN subs[s][m.sub] = counterMap[m.id]
        ELSE subs[s][m.sub] = m.pda /\ m.pda \in Pda

\* Before message k of s is read, the service knows whose id u is: it does by
\* now, or it will from an answer that comes before.
Told(s, u, k) ==
    \/ idMap[u] = subs[s][u]
    \/ \E j \in DOMAIN wire[s] : j < k /\ wire[s][j].kind = "result" /\ wire[s][j].sub = u

\* Another node gave out the id too.
Shared(s, u) == \E t \in Socket \ {s} : subs[t][u] # None

AllTold(s) ==
    /\ sock[s] # "closed" =>
          \A u \in SubId : subs[s][u] # None => Shared(s, u) \/ Told(s, u, Len(wire[s]) + 1)
    /\ \A k \in DOMAIN wire[s] : \A u \in SubId :
          wire[s][k].kind # "result" /\ wire[s][k].sub = u => Shared(s, u) \/ Told(s, u, k)

ToldOK == \A s \in Socket : AllTold(s)

IInv == TypeOK /\ NumbersOK /\ MemoryOK /\ AskedOK /\ IdleOK /\ MessagesOK /\ ToldOK
-----------------------------------------------------------------------------
(* Facts.                                                                  *)

\* A set of numbers that is not empty has a least one.
LEMMA LeastNat ==
    ASSUME NEW T \in SUBSET Nat, T # {}
    PROVE  \E n \in T : \A m \in T : n <= m
<1>1. PICK n \in T : \A m \in T : ~ (<<m, n>> \in OpToRel(<, Nat))
    BY WFMin, NatLessThanWellFounded
<1>2. ASSUME NEW m \in T PROVE n <= m
    <2>1. ~ (<<m, n>> \in OpToRel(<, Nat))
        BY <1>1
    <2> QED BY <2>1 DEF OpToRel
<1> QED
    BY <1>2

\* A cluster with sockets has a first one.
LEMMA FirstIs ==
    ASSUME NEW c, SocketsOf(c) # {}
    PROVE  First(c) \in Socket /\ SocketCluster[First(c)] = c
<1> DEFINE T == SocketsOf(c)
<1>1. T \in SUBSET Nat /\ T # {}
    BY ListenerAssumption DEF SocketsOf
<1>2. \E s \in T : \A r \in T : s <= r
    <2> HIDE DEF T
    <2> QED BY ONLY <1>1, LeastNat
<1>3. First(c) \in T
    BY <1>2 DEF First
<1> QED
    BY <1>3 DEF SocketsOf

\* The sequence of a finite set has its elements and no others.
LEMMA SetToSeqIs ==
    ASSUME NEW S, IsFiniteSet(S)
    PROVE  /\ SetToSeq(S) \in Seq(S)
           /\ \A x \in S : \E n \in DOMAIN SetToSeq(S) : SetToSeq(S)[n] = x
<1> DEFINE N == Cardinality(S)
           P(f) == f \in [1 .. N -> S] /\ IsInjective(f)
<1>1. N \in Nat /\ ExistsBijection(1 .. N, S)
    BY FS_CardinalityType
<1>2. PICK g \in Bijection(1 .. N, S) : TRUE
    BY <1>1 DEF ExistsBijection
<1>3. P(g)
    BY <1>2 DEF Bijection, Injection, IsInjective
<1>4. SetToSeq(S) = CHOOSE f : P(f)
    BY DEF SetToSeq
<1> HIDE DEF P
<1>5. P(SetToSeq(S))
    BY <1>3, <1>4, Zenon
<1> USE DEF P
<1>6. PICK f : f = SetToSeq(S)
    OBVIOUS
<1>7. f \in [1 .. N -> S] /\ IsInjective(f)
    BY <1>5, <1>6
<1>8. f \in Injection(1 .. N, S)
    BY <1>7 DEF Injection, IsInjective
<1>9. IsFiniteSet(1 .. N) /\ Cardinality(1 .. N) = N
    BY <1>1, FS_Interval
<1>a. f \in Surjection(1 .. N, S)
    BY <1>8, <1>9, FS_Injection
<1>b. f \in Seq(S) /\ DOMAIN f = 1 .. N
    BY <1>1, <1>7
<1> QED
    BY <1>6, <1>a, <1>b DEF Surjection

\* programSubscribeAccount asks for every account of every program listed.
LEMMA AllAccountsIs ==
    ASSUME TypeOK, NEW c \in Cluster
    PROVE  /\ AllAccounts(c) \in Seq(Pda)
           /\ \A g \in Program : Listed(c, g) =>
                 \A p \in pdas[g] : \E n \in DOMAIN AllAccounts(c) : AllAccounts(c)[n] = p
<1> DEFINE turns == {x \in (1 .. Len(programs[c])) \X Pda : x[2] \in pdas[programs[c][x[1]]]}
           order == SetToSeq(turns)
           all   == [n \in DOMAIN order |-> order[n][2]]
<1>1. programs[c] \in Seq(Program) /\ Len(programs[c]) \in Nat
      /\ DOMAIN programs[c] = 1 .. Len(programs[c])
    BY DEF TypeOK
<1>2. IsFiniteSet(turns)
    <2>1. IsFiniteSet(1 .. Len(programs[c]))
        BY <1>1, FS_Interval
    <2>2. IsFiniteSet((1 .. Len(programs[c])) \X Pda)
        BY <2>1, ListenerAssumption, FS_Product
    <2> QED BY <2>2, FS_Subset
<1>3. AllAccounts(c) = all
    BY DEF AllAccounts
<1>4. \A x \in turns : x[2] \in Pda
    OBVIOUS
<1>5. ASSUME NEW g \in Program, NEW n \in DOMAIN programs[c], programs[c][n] = g,
             NEW p \in pdas[g]
      PROVE  <<n, p>> \in turns
    <2>1. p \in Pda
        BY DEF TypeOK
    <2> QED BY <1>1, <1>5, <2>1
<1> HIDE DEF turns
<1>6. order \in Seq(turns) /\ \A x \in turns : \E n \in DOMAIN order : order[n] = x
    BY <1>2, SetToSeqIs
<1> HIDE DEF order
<1>7. all \in Seq(Pda) /\ DOMAIN all = DOMAIN order
    BY <1>4, <1>6
<1>8. ASSUME NEW g \in Program, Listed(c, g), NEW p \in pdas[g]
      PROVE  \E n \in DOMAIN all : all[n] = p
    <2>1. PICK n \in DOMAIN programs[c] : programs[c][n] = g
        BY <1>8 DEF Listed
    <2>2. PICK k \in DOMAIN order : order[k] = <<n, p>>
        BY <1>5, <1>6, <2>1
    <2> QED BY <2>2
<1> QED
    BY <1>3, <1>7, <1>8
-----------------------------------------------------------------------------
(* Requests.                                                               *)

\* What accountSubscribe can do: more numbers are given out, and more requests
\* are on their way, on sockets that are the first of their cluster.
Calls ==
    /\ \E more \in Seq(Pda) : counterMap' = counterMap \o more
    /\ reqs' \in [Socket -> SUBSET Request]
    /\ \A s \in Socket :
          /\ reqs[s] \subseteq reqs'[s]
          /\ s # First(SocketCluster[s]) => reqs'[s] = reqs[s]
          /\ \A m \in reqs'[s] : m.id \in DOMAIN counterMap' /\ counterMap'[m.id] = m.pda

\* Doing nothing is among it.
LEMMA NoCalls ==
    ASSUME TypeOK, NumbersOK, UNCHANGED <<counterMap, reqs>>
    PROVE  Calls
<1>1. counterMap' = counterMap \o << >> /\ << >> \in Seq(Pda)
    BY DEF TypeOK
<1> QED
    BY <1>1 DEF Calls, NumbersOK

\* So is asking for a list of accounts, each of which is asked for on the first
\* socket if that is open.
LEMMA AskStep ==
    ASSUME TypeOK, NumbersOK, NEW c \in Cluster, NEW list \in Seq(Pda),
           AccountSubscribe(c, list)
    PROVE  /\ Calls
           /\ SocketsOf(c) # {} /\ sock'[First(c)] = "open" =>
                 \A n \in DOMAIN list : \E m \in reqs'[First(c)] : m.pda = list[n]
<1>1. CASE SocketsOf(c) = {} \/ Throws(c)
    <2>1. UNCHANGED <<counterMap, reqs>>
        BY <1>1 DEF AccountSubscribe
    <2>2. ~ (SocketsOf(c) # {} /\ sock'[First(c)] = "open")
        BY <1>1 DEF Throws
    <2> QED BY <2>1, <2>2, NoCalls
<1>2. CASE ~ (SocketsOf(c) = {} \/ Throws(c))
    <2> DEFINE f   == First(c)
               new == {[id |-> Len(counterMap) + n, pda |-> list[n]] : n \in DOMAIN list}
    <2>1. f \in Socket /\ SocketCluster[f] = c
        BY <1>2, FirstIs
    <2>2. /\ counterMap' = counterMap \o list
          /\ reqs' = IF sock'[f] = "open" THEN [reqs EXCEPT ![f] = @ \cup new] ELSE reqs
        BY <1>2 DEF AccountSubscribe
    <2>3. /\ counterMap \in Seq(Pda) /\ Len(counterMap) \in Nat /\ Len(list) \in Nat
          /\ DOMAIN list = 1 .. Len(list) /\ DOMAIN counterMap = 1 .. Len(counterMap)
        BY DEF TypeOK
    <2>4. /\ DOMAIN counterMap' = 1 .. Len(counterMap) + Len(list)
          /\ \A n \in 1 .. Len(counterMap) : counterMap'[n] = counterMap[n]
          /\ \A n \in 1 .. Len(list) : counterMap'[Len(counterMap) + n] = list[n]
        BY <2>2, <2>3
    <2>5. ASSUME NEW m \in new
          PROVE  m \in Request /\ m.id \in DOMAIN counterMap' /\ counterMap'[m.id] = m.pda
        <3>1. PICK n \in 1 .. Len(list) :
                 m = [id |-> Len(counterMap) + n, pda |-> list[n]]
            BY <2>3
        <3>2. list[n] \in Pda /\ Len(counterMap) + n \in Nat
            BY <2>3
        <3>3. Len(counterMap) + n \in 1 .. Len(counterMap) + Len(list)
            BY <2>3
        <3> QED BY <2>4, <3>1, <3>2, <3>3 DEF Request
    <2>6. ASSUME NEW n \in DOMAIN list PROVE \E m \in new : m.pda = list[n]
        <3>1. [id |-> Len(counterMap) + n, pda |-> list[n]] \in new
            OBVIOUS
        <3> HIDE DEF new
        <3> QED BY <3>1
    <2> HIDE DEF new, f
    <2>7. /\ reqs' \in [Socket -> SUBSET Request]
          /\ \A s \in Socket : reqs[s] \subseteq reqs'[s] /\ reqs'[s] \subseteq reqs[s] \cup new
          /\ \A s \in Socket : s # f => reqs'[s] = reqs[s]
          /\ sock'[f] = "open" => new \subseteq reqs'[f]
        BY <2>1, <2>2, <2>5 DEF NumbersOK
    <2>8. ASSUME NEW s \in Socket, NEW m \in reqs'[s]
          PROVE  m.id \in DOMAIN counterMap' /\ counterMap'[m.id] = m.pda
        <3>1. CASE m \in reqs[s]
            <4>1. m.id \in 1 .. Len(counterMap) /\ counterMap[m.id] = m.pda
                BY <2>3, <3>1 DEF NumbersOK
            <4>2. 1 .. Len(counterMap) \subseteq 1 .. Len(counterMap) + Len(list)
                BY <2>3
            <4> QED BY <2>4, <4>1, <4>2
        <3> QED BY <2>5, <2>7, <3>1
    <2>9. \A s \in Socket : s # First(SocketCluster[s]) => s # f
        BY <2>1 DEF f
    <2>a. Calls
        BY <2>2, <2>7, <2>8, <2>9 DEF Calls
    <2>b. sock'[f] = "open" => \A n \in DOMAIN list : \E m \in reqs'[f] : m.pda = list[n]
        BY <2>6, <2>7
    <2> QED BY <2>a, <2>b DEF f
<1> QED
    BY <1>1, <1>2

\* The part that is about numbers and messages.
NodeOK == NumbersOK /\ IdleOK /\ MessagesOK /\ ToldOK

\* Calls leave what the nodes know, and have said, as it is.
LEMMA CallsNode ==
    ASSUME TypeOK, NodeOK, Calls, UNCHANGED <<idMap, subs, wire>>,
           \A s \in Socket : sock'[s] # "closed" => sock[s] # "closed"
    PROVE  /\ NodeOK' /\ counterMap' \in Seq(Pda)
           /\ \A s \in Socket : reqs'[s] \subseteq [id : DOMAIN counterMap', pda : Pda]
<1>1. /\ counterMap' \in Seq(Pda) /\ DOMAIN counterMap \subseteq DOMAIN counterMap'
      /\ \A n \in DOMAIN counterMap : counterMap'[n] = counterMap[n]
    <2>1. PICK more \in Seq(Pda) : counterMap' = counterMap \o more
        BY DEF Calls
    <2>2. counterMap \in Seq(Pda)
        BY DEF TypeOK
    <2> QED BY <2>1, <2>2
<1>2. NumbersOK'
    <2>1. \A s \in Socket : \A k \in DOMAIN wire'[s] :
             wire'[s][k].kind = "result" => wire'[s][k].id \in DOMAIN counterMap'
        BY <1>1 DEF NodeOK, NumbersOK
    <2> QED BY <2>1 DEF Calls, NumbersOK
<1>3. IdleOK'
    BY DEF Calls, NodeOK, IdleOK
<1>4. MessagesOK'
    <2> SUFFICES ASSUME NEW s \in Socket, NEW k \in DOMAIN wire[s], NEW m, m = wire[s][k]
                 PROVE  IF m.kind = "result" THEN subs[s][m.sub] = counterMap'[m.id]
                        ELSE subs[s][m.sub] = m.pda /\ m.pda \in Pda
        BY DEF MessagesOK
    <2>1. m.kind = "result" => m.id \in DOMAIN counterMap
        BY DEF NodeOK, NumbersOK
    <2>2. IF m.kind = "result" THEN subs[s][m.sub] = counterMap[m.id]
          ELSE subs[s][m.sub] = m.pda /\ m.pda \in Pda
        BY DEF NodeOK, MessagesOK
    <2> QED BY <1>1, <2>1, <2>2
<1>5. ToldOK'
    BY DEF NodeOK, ToldOK, AllTold, Told, Shared
<1>6. \A s \in Socket : reqs'[s] \subseteq [id : DOMAIN counterMap', pda : Pda]
    BY DEF Calls, Request
<1> QED
    BY <1>1, <1>2, <1>3, <1>4, <1>5, <1>6 DEF NodeOK

\* A node accepts a request: the answer tells whose the id is.
LEMMA SubscribeStep ==
    ASSUME TypeOK, NodeOK, NEW s \in Socket, NEW m \in reqs[s], NEW u \in SubId,
           Subscribe(s, m, u)
    PROVE  /\ NodeOK'
           /\ subs' \in [Socket -> [SubId -> Pda \cup {None}]]
           /\ wire' \in [Socket -> Seq(Message)]
           /\ reqs' \in [Socket -> SUBSET Request] /\ \A t \in Socket : reqs'[t] \subseteq reqs[t]
<1> DEFINE a == [kind |-> "result", id |-> m.id, sub |-> u, pda |-> None]
<1>1. /\ m.id \in Nat /\ m.pda \in Pda /\ m.pda # None
      /\ m.id \in DOMAIN counterMap /\ counterMap[m.id] = m.pda
    BY ListenerAssumption DEF NodeOK, NumbersOK, Request
<1>2. /\ a \in Message /\ a.kind = "result" /\ a.sub = u /\ a.id = m.id
    BY <1>1 DEF Message
<1>3. /\ subs[s][u] = None
      /\ reqs' = [reqs EXCEPT ![s] = @ \ {m}]
      /\ subs' = [subs EXCEPT ![s][u] = m.pda]
      /\ wire' = [wire EXCEPT ![s] = Append(@, a)]
      /\ counterMap' = counterMap /\ idMap' = idMap /\ sock' = sock
    BY DEF Subscribe, memory
<1> HIDE DEF a
<1>4. /\ wire \in [Socket -> Seq(Message)] /\ subs \in [Socket -> [SubId -> Pda \cup {None}]]
      /\ reqs \in [Socket -> SUBSET Request]
    BY DEF TypeOK, NodeOK, NumbersOK
<1>5. /\ wire' \in [Socket -> Seq(Message)] /\ subs' \in [Socket -> [SubId -> Pda \cup {None}]]
      /\ reqs' \in [Socket -> SUBSET Request]
      /\ \A t \in Socket : reqs'[t] \subseteq reqs[t]
      /\ \A t \in Socket : t # s => wire'[t] = wire[t] /\ subs'[t] = subs[t] /\ reqs'[t] = reqs[t]
      /\ wire'[s] = Append(wire[s], a)
      /\ subs'[s][u] = m.pda /\ \A v \in SubId : v # u => subs'[s][v] = subs[s][v]
    BY <1>1, <1>2, <1>3, <1>4
<1>6. PICK len \in Nat :
         /\ len = Len(wire[s]) /\ DOMAIN wire[s] = 1 .. len
         /\ DOMAIN wire'[s] = 1 .. len + 1 /\ Len(wire'[s]) = len + 1
         /\ wire'[s][len + 1] = a /\ \A k \in 1 .. len : wire'[s][k] = wire[s][k]
    <2> DEFINE w == wire[s]
    <2>1. w \in Seq(Message) /\ wire'[s] = Append(w, a)
        BY <1>4, <1>5
    <2> HIDE DEF w
    <2>2. /\ Len(w) \in Nat /\ DOMAIN w = 1 .. Len(w)
          /\ DOMAIN wire'[s] = 1 .. Len(w) + 1 /\ Len(wire'[s]) = Len(w) + 1
          /\ wire'[s][Len(w) + 1] = a /\ \A k \in 1 .. Len(w) : wire'[s][k] = w[k]
        BY <1>2, <2>1
    <2> QED BY <2>2 DEF w
<1>7. \A k \in 1 .. len + 1 : k # len + 1 => k \in 1 .. len
    OBVIOUS
<1>8. \A k \in 1 .. len : k \in 1 .. len + 1 /\ k < len + 1
    OBVIOUS
<1>9. ASSUME NEW k \in 1 .. len, wire[s][k].kind # "result"
      PROVE  wire[s][k].sub # u /\ wire[s][k].sub \in SubId
    <2>1. wire[s][k] \in Message
        BY <1>4, <1>6
    <2>2. subs[s][wire[s][k].sub] = wire[s][k].pda /\ wire[s][k].pda \in Pda
        BY <1>6, <1>9 DEF NodeOK, MessagesOK
    <2> QED BY <1>3, <2>1, <2>2, ListenerAssumption DEF Message
<1>a. NumbersOK'
    <2>1. ASSUME NEW t \in Socket, NEW k \in DOMAIN wire'[t], wire'[t][k].kind = "result"
          PROVE  wire'[t][k].id \in DOMAIN counterMap
        <3>1. CASE t = s /\ k = len + 1
            BY <1>1, <1>2, <1>6, <3>1
        <3>2. CASE t = s /\ k # len + 1
            <4>1. k \in DOMAIN wire[s] /\ wire[s][k].kind = "result" /\ wire'[t][k] = wire[s][k]
                BY <1>6, <1>7, <2>1, <3>2
            <4> QED BY <4>1 DEF NodeOK, NumbersOK
        <3>3. CASE t # s
            BY <1>5, <2>1, <3>3 DEF NodeOK, NumbersOK
        <3> QED BY <3>1, <3>2, <3>3
    <2>2. \A t \in Socket : \A r \in reqs'[t] : r.id \in DOMAIN counterMap /\ counterMap[r.id] = r.pda
        BY <1>5 DEF NodeOK, NumbersOK
    <2> QED BY <1>3, <1>5, <2>1, <2>2 DEF NumbersOK
<1>b. IdleOK'
    <2>1. s = First(SocketCluster[s])
        BY DEF NodeOK, IdleOK
    <2> SUFFICES ASSUME NEW t \in Socket, t # First(SocketCluster[t])
                 PROVE  reqs'[t] = {} /\ wire'[t] = << >> /\ \A v \in SubId : subs'[t][v] = None
        BY DEF IdleOK
    <2>2. t # s
        BY <2>1
    <2>3. reqs'[t] = reqs[t] /\ wire'[t] = wire[t] /\ subs'[t] = subs[t]
        BY <1>5, <2>2
    <2> QED BY <2>3 DEF NodeOK, IdleOK
<1>c. MessagesOK'
    <2> SUFFICES ASSUME NEW t \in Socket, NEW k \in DOMAIN wire'[t], NEW x, x = wire'[t][k]
                 PROVE  IF x.kind = "result" THEN subs'[t][x.sub] = counterMap[x.id]
                        ELSE subs'[t][x.sub] = x.pda /\ x.pda \in Pda
        BY <1>3 DEF MessagesOK
    <2>1. CASE t = s /\ k = len + 1
        BY <1>1, <1>2, <1>5, <1>6, <2>1
    <2>2. CASE t = s /\ k # len + 1
        <3>1. k \in 1 .. len /\ x = wire[s][k] /\ x \in Message
            BY <1>4, <1>6, <1>7, <2>2
        <3>2. IF x.kind = "result" THEN subs[s][x.sub] = counterMap[x.id]
              ELSE subs[s][x.sub] = x.pda /\ x.pda \in Pda
            BY <1>6, <3>1 DEF NodeOK, MessagesOK
        <3>3. x.sub \in SubId
            BY <3>1 DEF Message
        <3>4. x.sub # u
            <4>1. CASE x.kind = "result"
                <5>1. x.id \in DOMAIN counterMap /\ counterMap \in Seq(Pda)
                    BY <1>6, <3>1, <4>1 DEF NodeOK, NumbersOK, TypeOK
                <5>2. counterMap[x.id] \in Pda
                    BY <5>1
                <5> QED BY <1>3, <3>2, <4>1, <5>2, ListenerAssumption
            <4>2. CASE x.kind # "result"
                BY <1>9, <3>1, <4>2
            <4> QED BY <4>1, <4>2
        <3> QED BY <1>5, <2>2, <3>2, <3>3, <3>4
    <2>3. CASE t # s
        <3>1. wire'[t] = wire[t] /\ subs'[t] = subs[t] /\ k \in DOMAIN wire[t] /\ x = wire[t][k]
            BY <1>5, <2>3
        <3> QED BY <3>1 DEF NodeOK, MessagesOK
    <2> QED BY <2>1, <2>2, <2>3
<1>d. ToldOK'
    <2>a. \A t \in Socket, v \in SubId : Shared(t, v) => Shared(t, v)'
        <3>1. \A t \in Socket, v \in SubId : subs[t][v] # None => subs'[t][v] # None
            BY <1>1, <1>3, <1>5
        <3> QED BY <3>1 DEF Shared
    <2>0. \A t \in Socket : AllTold(t)
        BY DEF NodeOK, ToldOK
    <2>1. ASSUME NEW v \in SubId, subs'[s][v] # None, sock[s] # "closed", ~ Shared(s, v)'
          PROVE  Told(s, v, len + 2)'
        <3>1. CASE v = u
            <4>1. len + 1 \in DOMAIN wire'[s] /\ len + 1 < len + 2
                BY <1>6
            <4> QED BY <1>2, <1>6, <3>1, <4>1 DEF Told
        <3>2. CASE v # u
            <4>1. Told(s, v, len + 1)
                BY <1>5, <1>6, <2>0, <2>1, <2>a, <3>2 DEF AllTold
            <4>2. CASE idMap[v] = subs[s][v]
                BY <1>3, <1>5, <3>2, <4>2 DEF Told
            <4>3. ASSUME NEW j \in DOMAIN wire[s], wire[s][j].kind = "result", wire[s][j].sub = v
                  PROVE  Told(s, v, len + 2)'
                <5>1. j \in DOMAIN wire'[s] /\ j < len + 2 /\ wire'[s][j] = wire[s][j]
                    BY <1>6, <1>8
                <5> QED BY <4>3, <5>1 DEF Told
            <4> QED BY <4>1, <4>2, <4>3 DEF Told
        <3> QED BY <3>1, <3>2
    <2>2. ASSUME NEW k \in DOMAIN wire'[s], NEW v \in SubId,
                 wire'[s][k].kind # "result", wire'[s][k].sub = v, ~ Shared(s, v)'
          PROVE  Told(s, v, k)'
        <3>1. k \in 1 .. len /\ wire'[s][k] = wire[s][k]
            BY <1>2, <1>6, <1>7, <2>2
        <3>2. v # u /\ v \in SubId
            BY <1>9, <2>2, <3>1
        <3>3. Told(s, v, k)
            BY <1>6, <2>0, <2>2, <2>a, <3>1, <3>2 DEF AllTold
        <3>4. CASE idMap[v] = subs[s][v]
            BY <1>3, <1>5, <3>2, <3>4 DEF Told
        <3>5. ASSUME NEW j \in DOMAIN wire[s], j < k, wire[s][j].kind = "result", wire[s][j].sub = v
              PROVE  Told(s, v, k)'
            <4>1. j \in DOMAIN wire'[s] /\ wire'[s][j] = wire[s][j]
                BY <1>6, <1>8
            <4> QED BY <3>5, <4>1 DEF Told
        <3> QED BY <3>3, <3>4, <3>5 DEF Told
    <2>3. ASSUME NEW t \in Socket, t # s PROVE AllTold(t)'
        <3>1. AllTold(t) /\ wire'[t] = wire[t] /\ subs'[t] = subs[t] /\ idMap' = idMap
            BY <1>3, <1>5, <2>0, <2>3
        <3>2. ASSUME NEW v \in SubId, NEW k, Told(t, v, k) PROVE Told(t, v, k)'
            BY <3>1, <3>2 DEF Told
        <3> QED BY <1>3, <2>a, <3>1, <3>2 DEF AllTold
    <2>4. len + 2 = Len(wire'[s]) + 1
        BY <1>6
    <2>5. AllTold(s)'
        BY <1>3, <2>1, <2>2, <2>4 DEF AllTold
    <2> QED BY <2>3, <2>5 DEF ToldOK
<1> QED
    BY <1>5, <1>a, <1>b, <1>c, <1>d DEF NodeOK

\* A node tells of a change: it knows the ids that it tells of.
LEMMA ChangeStep ==
    ASSUME TypeOK, NodeOK, NEW s \in Socket, NEW p \in Pda, AccountChange(s, p)
    PROVE  NodeOK' /\ wire' \in [Socket -> Seq(Message)]
<1> DEFINE ids == SetToSeq({u \in SubId : subs[s][u] = p})
           new == [n \in DOMAIN ids |->
                     [kind |-> "accountNotification", id |-> 0, sub |-> ids[n], pda |-> p]]
<1>1. /\ ids # << >> /\ wire' = [wire EXCEPT ![s] = @ \o new]
      /\ counterMap' = counterMap /\ idMap' = idMap /\ reqs' = reqs /\ subs' = subs
      /\ sock' = sock /\ sock[s] # "closed"
    BY DEF AccountChange, memory
<1>2. ids \in Seq(SubId) /\ \A n \in DOMAIN ids : subs[s][ids[n]] = p
    <2> DEFINE S == {u \in SubId : subs[s][u] = p}
    <2>1. IsFiniteSet(S)
        BY ListenerAssumption, FS_Subset
    <2>2. S \subseteq SubId /\ \A u \in S : subs[s][u] = p
        OBVIOUS
    <2> HIDE DEF S
    <2>3. SetToSeq(S) \in Seq(S)
        BY <2>1, SetToSeqIs
    <2>4. PICK q : q = SetToSeq(S)
        OBVIOUS
    <2>5. q \in Seq(S)
        BY <2>3, <2>4
    <2>6. q \in Seq(SubId) /\ \A n \in DOMAIN q : q[n] \in S
        BY <2>2, <2>5
    <2> QED BY <2>2, <2>4, <2>6 DEF S
<1> HIDE DEF ids
<1>3. /\ new \in Seq(Message) /\ DOMAIN new = DOMAIN ids
      /\ \A n \in DOMAIN new :
            new[n].kind # "result" /\ new[n].pda = p /\ subs[s][new[n].sub] = p
    <2>1. \A n \in DOMAIN ids :
             [kind |-> "accountNotification", id |-> 0, sub |-> ids[n], pda |-> p] \in Message
        BY <1>2 DEF Message
    <2>2. DOMAIN ids = 1 .. Len(ids) /\ Len(ids) \in Nat
        BY <1>2
    <2>3. new \in Seq(Message)
        BY <2>1, <2>2
    <2> QED BY <1>2, <2>3
<1> HIDE DEF new
<1>4. wire \in [Socket -> Seq(Message)]
    BY DEF TypeOK
<1>5. /\ wire' \in [Socket -> Seq(Message)]
      /\ \A t \in Socket : t # s => wire'[t] = wire[t]
      /\ wire'[s] = wire[s] \o new
    BY <1>1, <1>3, <1>4
<1>6. PICK len \in Nat, more \in Nat :
         /\ len = Len(wire[s]) /\ DOMAIN wire[s] = 1 .. len
         /\ DOMAIN wire'[s] = 1 .. len + more /\ Len(wire'[s]) = len + more
         /\ \A k \in 1 .. len : wire'[s][k] = wire[s][k]
         /\ \A k \in 1 .. len + more : k \notin 1 .. len =>
               k > len /\ \E n \in DOMAIN new : wire'[s][k] = new[n]
    <2> DEFINE w == wire[s]
    <2>1. w \in Seq(Message) /\ wire'[s] = w \o new
        BY <1>4, <1>5
    <2> HIDE DEF w
    <2>2. /\ Len(w) \in Nat /\ DOMAIN w = 1 .. Len(w) /\ Len(new) \in Nat
          /\ DOMAIN new = 1 .. Len(new)
          /\ DOMAIN wire'[s] = 1 .. Len(w) + Len(new) /\ Len(wire'[s]) = Len(w) + Len(new)
          /\ \A k \in 1 .. Len(w) : wire'[s][k] = w[k]
        BY <1>3, <2>1
    <2>3. ASSUME NEW k \in 1 .. Len(w) + Len(new), k \notin 1 .. Len(w)
          PROVE  k > Len(w) /\ k - Len(w) \in DOMAIN new /\ wire'[s][k] = new[k - Len(w)]
        BY <1>3, <2>1, <2>2, <2>3
    <2> QED BY <2>2, <2>3 DEF w
<1>7. NumbersOK'
    <2>1. ASSUME NEW t \in Socket, NEW k \in DOMAIN wire'[t], wire'[t][k].kind = "result"
          PROVE  wire'[t][k].id \in DOMAIN counterMap
        <3>1. CASE t = s
            <4>1. k \in DOMAIN wire[s] /\ wire'[s][k] = wire[s][k]
                BY <1>3, <1>6, <2>1, <3>1
            <4> QED BY <2>1, <3>1, <4>1 DEF NodeOK, NumbersOK
        <3>2. CASE t # s
            BY <1>5, <2>1, <3>2 DEF NodeOK, NumbersOK
        <3> QED BY <3>1, <3>2
    <2> QED BY <1>1, <2>1 DEF NodeOK, NumbersOK
<1>8. IdleOK'
    <2>1. s = First(SocketCluster[s])
        <3>1. PICK n : n \in DOMAIN new
            <4>1. ids \in Seq(SubId) /\ ids # << >>
                BY <1>1, <1>2
            <4>2. 1 \in DOMAIN ids
                BY <4>1
            <4> QED BY <1>3, <4>2
        <3>2. subs[s][new[n].sub] = p /\ new[n].sub \in SubId /\ p # None
            <4>1. new[n] \in Message
                BY <1>3, <3>1
            <4>2. p # None
                BY ListenerAssumption
            <4> QED BY <1>3, <3>1, <4>1, <4>2 DEF Message
        <3> QED BY <3>2 DEF NodeOK, IdleOK
    <2> SUFFICES ASSUME NEW t \in Socket, t # First(SocketCluster[t])
                 PROVE  reqs[t] = {} /\ wire'[t] = << >> /\ \A v \in SubId : subs[t][v] = None
        BY <1>1 DEF IdleOK
    <2>2. t # s
        BY <2>1
    <2> QED BY <1>5, <2>2 DEF NodeOK, IdleOK
<1>9. MessagesOK'
    <2> SUFFICES ASSUME NEW t \in Socket, NEW k \in DOMAIN wire'[t], NEW x, x = wire'[t][k]
                 PROVE  IF x.kind = "result" THEN subs[t][x.sub] = counterMap[x.id]
                        ELSE subs[t][x.sub] = x.pda /\ x.pda \in Pda
        BY <1>1 DEF MessagesOK
    <2>1. CASE t = s /\ k \notin 1 .. len
        BY <1>3, <1>6, <2>1
    <2>2. CASE t = s /\ k \in 1 .. len
        <3>1. k \in DOMAIN wire[s] /\ x = wire[s][k]
            BY <1>6, <2>2
        <3> QED BY <2>2, <3>1 DEF NodeOK, MessagesOK
    <2>3. CASE t # s
        <3>1. k \in DOMAIN wire[t] /\ x = wire[t][k]
            BY <1>5, <2>3
        <3> QED BY <3>1 DEF NodeOK, MessagesOK
    <2> QED BY <2>1, <2>2, <2>3
<1>a. ToldOK'
    <2>a. \A t \in Socket, v \in SubId : Shared(t, v)' <=> Shared(t, v)
        BY <1>1 DEF Shared
    <2>0. \A t \in Socket : AllTold(t)
        BY DEF NodeOK, ToldOK
    <2>1. ASSUME NEW v \in SubId, NEW n \in Nat, NEW k \in Nat, Told(s, v, n), n <= k
          PROVE  Told(s, v, k)'
        <3>1. ASSUME NEW j \in DOMAIN wire[s], j < n, wire[s][j].kind = "result",
                     wire[s][j].sub = v
              PROVE  Told(s, v, k)'
            <4>1. j \in DOMAIN wire'[s] /\ wire'[s][j] = wire[s][j] /\ j < k
                BY <1>6, <2>1, <3>1
            <4> QED BY <3>1, <4>1 DEF Told
        <3> QED BY <1>1, <2>1, <3>1 DEF Told
    <2>2. \A v \in SubId : subs[s][v] # None => Shared(s, v) \/ Told(s, v, len + 1)
        BY <1>1, <1>6, <2>0 DEF AllTold
    <2>3. ASSUME NEW v \in SubId, subs'[s][v] # None, ~ Shared(s, v)
          PROVE  Told(s, v, Len(wire[s]) + 1)'
        <3>1. Told(s, v, len + 1) /\ len + 1 \in Nat /\ len + more + 1 \in Nat
              /\ len + 1 <= len + more + 1
            BY <1>1, <2>2, <2>3
        <3>2. Told(s, v, len + more + 1)'
            BY <2>1, <3>1
        <3> QED BY <1>6, <3>2
    <2>4. ASSUME NEW k \in DOMAIN wire'[s], NEW v \in SubId,
                 wire'[s][k].kind # "result", wire'[s][k].sub = v, ~ Shared(s, v)
          PROVE  Told(s, v, k)'
        <3>1. CASE k \in 1 .. len
            <4>1. Told(s, v, k)
                BY <1>6, <2>0, <2>4, <3>1 DEF AllTold
            <4> QED BY <2>1, <3>1, <4>1
        <3>2. CASE k \notin 1 .. len
            <4>1. k \in Nat /\ len + 1 \in Nat /\ len + 1 <= k
                BY <1>6, <2>4, <3>2
            <4>2. subs[s][v] = p /\ p # None
                <5>1. PICK n \in DOMAIN new : wire'[s][k] = new[n]
                    BY <1>6, <3>2
                <5>2. p # None
                    BY ListenerAssumption
                <5> QED BY <1>3, <2>4, <5>1, <5>2
            <4> QED BY <2>1, <2>2, <2>4, <4>1, <4>2
        <3> QED BY <3>1, <3>2
    <2>5. ASSUME NEW t \in Socket, t # s PROVE AllTold(t)'
        <3>1. AllTold(t) /\ wire'[t] = wire[t] /\ subs'[t] = subs[t] /\ idMap' = idMap
            BY <1>1, <1>5, <2>0, <2>5
        <3>2. ASSUME NEW v \in SubId, NEW k, Told(t, v, k) PROVE Told(t, v, k)'
            BY <3>1, <3>2 DEF Told
        <3> QED BY <1>1, <2>a, <3>1, <3>2 DEF AllTold
    <2>6. AllTold(s)'
        BY <2>3, <2>4, <2>a DEF AllTold
    <2> QED BY <2>5, <2>6 DEF ToldOK
<1> QED
    BY <1>5, <1>7, <1>8, <1>9, <1>a DEF NodeOK

\* A message is read: if it is an answer, the service knows the id from now on.
LEMMA HeardStep ==
    ASSUME TypeOK, NodeOK, NEW s \in Socket, wire[s] # << >>,
           wire' = [wire EXCEPT ![s] = Tail(@)], UNCHANGED <<sock, counterMap, reqs, subs>>,
           \A v \in SubId :
              \/ idMap'[v] = subs[s][v] /\ subs[s][v] # None
              \/ /\ idMap'[v] = idMap[v]
                 /\ ~ (Head(wire[s]).kind = "result" /\ Head(wire[s]).sub = v)
    PROVE  NodeOK' /\ wire' \in [Socket -> Seq(Message)]
<1>1. wire \in [Socket -> Seq(Message)]
    BY DEF TypeOK
<1>2. /\ wire' \in [Socket -> Seq(Message)]
      /\ \A t \in Socket : t # s => wire'[t] = wire[t]
      /\ wire'[s] = Tail(wire[s])
    <2> DEFINE w == wire[s]
    <2>1. w \in Seq(Message) /\ w # << >>
        BY <1>1
    <2> HIDE DEF w
    <2>2. Tail(w) \in Seq(Message)
        BY <2>1
    <2> QED BY <1>1, <2>2 DEF w
<1>3. PICK len \in Nat :
         /\ len = Len(wire[s]) - 1 /\ DOMAIN wire[s] = 1 .. len + 1
         /\ DOMAIN wire'[s] = 1 .. len /\ Len(wire'[s]) = len
         /\ Head(wire[s]) = wire[s][1]
         /\ \A k \in 1 .. len : wire'[s][k] = wire[s][k + 1]
    <2> DEFINE w == wire[s]
    <2>1. w \in Seq(Message) /\ w # << >> /\ wire'[s] = Tail(w)
        BY <1>1, <1>2
    <2> HIDE DEF w
    <2>a. Len(w) - 1 \in Nat
        BY <2>1
    <2>2. PICK n \in Nat : n = Len(w) - 1
        BY <2>a, Zenon
    <2>3. DOMAIN w = 1 .. n + 1 /\ Head(w) = w[1] /\ Tail(w) \in Seq(Message)
        BY <2>1, <2>2
    <2>4. Len(Tail(w)) = n /\ \A k \in 1 .. n : Tail(w)[k] = w[k + 1]
        BY <2>1, <2>2
    <2>5. DOMAIN Tail(w) = 1 .. n
        BY <2>3, <2>4
    <2> QED BY <2>1, <2>2, <2>3, <2>4, <2>5 DEF w
<1>4. \A k \in 1 .. len : k + 1 \in 1 .. len + 1
    OBVIOUS
<1>5. \A k \in 1 .. len + 1 : k # 1 => k - 1 \in 1 .. len /\ (k - 1) + 1 = k
    OBVIOUS
<1>6. NumbersOK'
    <2>1. ASSUME NEW t \in Socket, NEW k \in DOMAIN wire'[t], wire'[t][k].kind = "result"
          PROVE  wire'[t][k].id \in DOMAIN counterMap
        <3>1. CASE t = s
            <4>1. k + 1 \in DOMAIN wire[s] /\ wire'[s][k] = wire[s][k + 1]
                BY <1>3, <1>4, <2>1, <3>1
            <4> QED BY <2>1, <3>1, <4>1 DEF NodeOK, NumbersOK
        <3>2. CASE t # s
            BY <1>2, <2>1, <3>2 DEF NodeOK, NumbersOK
        <3> QED BY <3>1, <3>2
    <2> QED BY <2>1 DEF NodeOK, NumbersOK
<1>7. s = First(SocketCluster[s])
    BY DEF NodeOK, IdleOK
<1>8. IdleOK'
    <2> SUFFICES ASSUME NEW t \in Socket, t # First(SocketCluster[t])
                 PROVE  reqs[t] = {} /\ wire'[t] = << >> /\ \A v \in SubId : subs[t][v] = None
        BY DEF IdleOK
    <2>1. t # s
        BY <1>7
    <2> QED BY <1>2, <2>1 DEF NodeOK, IdleOK
<1>9. MessagesOK'
    <2> SUFFICES ASSUME NEW t \in Socket, NEW k \in DOMAIN wire'[t], NEW x, x = wire'[t][k]
                 PROVE  IF x.kind = "result" THEN subs[t][x.sub] = counterMap[x.id]
                        ELSE subs[t][x.sub] = x.pda /\ x.pda \in Pda
        BY DEF MessagesOK
    <2>1. CASE t = s
        <3>1. k + 1 \in DOMAIN wire[s] /\ x = wire[s][k + 1]
            BY <1>3, <1>4, <2>1
        <3> QED BY <2>1, <3>1 DEF NodeOK, MessagesOK
    <2>2. CASE t # s
        <3>1. k \in DOMAIN wire[t] /\ x = wire[t][k]
            BY <1>2, <2>2
        <3> QED BY <3>1 DEF NodeOK, MessagesOK
    <2> QED BY <2>1, <2>2
<1>a. ToldOK'
    <2>a. \A t \in Socket, v \in SubId : Shared(t, v)' <=> Shared(t, v)
        BY DEF Shared
    <2>0. \A t \in Socket : AllTold(t)
        BY DEF NodeOK, ToldOK
    <2>1. ASSUME NEW v \in SubId, NEW k \in Nat, Told(s, v, k + 1)
          PROVE  Told(s, v, k)'
        <3>1. CASE idMap'[v] = subs[s][v]
            BY <3>1 DEF Told
        <3>2. CASE /\ idMap'[v] = idMap[v]
                   /\ ~ (Head(wire[s]).kind = "result" /\ Head(wire[s]).sub = v)
            <4>1. CASE idMap[v] = subs[s][v]
                BY <3>2, <4>1 DEF Told
            <4>2. ASSUME NEW j \in DOMAIN wire[s], j < k + 1, wire[s][j].kind = "result",
                         wire[s][j].sub = v
                  PROVE  Told(s, v, k)'
                <5>1. j # 1
                    BY <1>3, <3>2, <4>2
                <5>2. j - 1 \in 1 .. len /\ (j - 1) + 1 = j
                    BY <1>3, <1>5, <5>1
                <5>3. j - 1 < k
                    BY <4>2, <5>2
                <5>4. j - 1 \in DOMAIN wire'[s] /\ wire'[s][j - 1] = wire[s][j]
                    BY <1>3, <5>2
                <5> QED BY <4>2, <5>3, <5>4 DEF Told
            <4> QED BY <2>1, <4>1, <4>2 DEF Told
        <3> QED BY <3>1, <3>2
    <2>2. ASSUME NEW v \in SubId, subs'[s][v] # None, sock[s] # "closed", ~ Shared(s, v)
          PROVE  Told(s, v, len + 1)'
        <3>1. Told(s, v, Len(wire[s]) + 1)
            BY <2>0, <2>2 DEF AllTold
        <3>2. Len(wire[s]) + 1 = (len + 1) + 1 /\ len + 1 \in Nat
            BY <1>1, <1>3
        <3> QED BY <2>1, <3>1, <3>2
    <2>3. ASSUME NEW k \in DOMAIN wire'[s], NEW v \in SubId,
                 wire'[s][k].kind # "result", wire'[s][k].sub = v, ~ Shared(s, v)
          PROVE  Told(s, v, k)'
        <3>1. k + 1 \in DOMAIN wire[s] /\ wire'[s][k] = wire[s][k + 1] /\ k \in Nat
            BY <1>3, <1>4
        <3>2. Told(s, v, k + 1)
            BY <2>0, <2>3, <3>1 DEF AllTold
        <3> QED BY <2>1, <3>1, <3>2
    <2>4. ASSUME NEW t \in Socket, t # s PROVE AllTold(t)'
        <3>1. AllTold(t) /\ wire'[t] = wire[t]
            BY <1>2, <2>0, <2>4
        <3>2. ASSUME NEW v \in SubId, NEW k, Told(t, v, k), ~ Shared(t, v)
              PROVE  Told(t, v, k)'
            <4>1. subs[s][v] = None
                BY <2>4, <3>2 DEF Shared
            <4>2. idMap'[v] = idMap[v]
                BY <4>1
            <4> QED BY <3>1, <3>2, <4>2 DEF Told
        <3> QED BY <2>a, <3>1, <3>2 DEF AllTold
    <2>5. AllTold(s)'
        BY <1>3, <2>2, <2>3, <2>a DEF AllTold
    <2> QED BY <2>4, <2>5 DEF ToldOK
<1> QED
    BY <1>2, <1>6, <1>8, <1>9, <1>a DEF NodeOK

\* An answer is read: its number is that of the account that its node has.
LEMMA ResultStep ==
    ASSUME TypeOK, NodeOK, NEW s \in Socket, OnResult(s)
    PROVE  /\ NodeOK' /\ wire' \in [Socket -> Seq(Message)]
           /\ idMap' \in [SubId -> Pda \cup {None}]
<1> DEFINE h == Head(wire[s])
<1>1. /\ wire[s] # << >> /\ h.kind = "result"
      /\ idMap' = [idMap EXCEPT ![h.sub] = counterMap[h.id]]
      /\ wire' = [wire EXCEPT ![s] = Tail(@)] /\ UNCHANGED <<sock, counterMap, reqs, subs>>
    BY DEF OnResult, Received
<1>2. 1 \in DOMAIN wire[s] /\ h = wire[s][1] /\ h \in Message
    <2>1. wire[s] \in Seq(Message)
        BY DEF TypeOK
    <2> QED BY <1>1, <2>1
<1>3. h.sub \in SubId /\ h.id \in DOMAIN counterMap /\ subs[s][h.sub] = counterMap[h.id]
    BY <1>1, <1>2 DEF NodeOK, NumbersOK, MessagesOK, Message
<1>4. counterMap[h.id] \in Pda /\ counterMap[h.id] # None
    BY <1>3, ListenerAssumption DEF TypeOK
<1> HIDE DEF h
<1>5. idMap' \in [SubId -> Pda \cup {None}]
    BY <1>1, <1>4 DEF TypeOK
<1>6. \A v \in SubId : idMap'[v] = IF v = h.sub THEN subs[s][v] ELSE idMap[v]
    BY <1>1, <1>3 DEF TypeOK
<1>7. \A v \in SubId :
         \/ idMap'[v] = subs[s][v] /\ subs[s][v] # None
         \/ /\ idMap'[v] = idMap[v]
            /\ ~ (Head(wire[s]).kind = "result" /\ Head(wire[s]).sub = v)
    BY <1>3, <1>4, <1>6 DEF h
<1> QED
    BY <1>1, <1>5, <1>7, HeardStep

\* A notification is read: the answer was read before it, and no other node's
\* since, if none has given out the id.
LEMMA NotificationStep ==
    ASSUME TypeOK, NodeOK, NEW s \in Socket, OnNotification(s)
    PROVE  /\ NodeOK' /\ wire' \in [Socket -> Seq(Message)] /\ jobs' \subseteq Pda
           /\ \/ idMap[Head(wire[s]).sub] = Head(wire[s]).pda
              \/ Shared(s, Head(wire[s]).sub)
<1> DEFINE h == Head(wire[s])
<1>1. /\ wire[s] # << >> /\ h.kind = "accountNotification" /\ idMap' = idMap
      /\ jobs' = jobs \cup ({idMap[h.sub]} \ {None})
      /\ wire' = [wire EXCEPT ![s] = Tail(@)] /\ UNCHANGED <<sock, counterMap, reqs, subs>>
    BY DEF OnNotification, Received, memory
<1>2. /\ 1 \in DOMAIN wire[s] /\ h = wire[s][1] /\ h \in Message
      /\ \A j \in DOMAIN wire[s] : ~ (j < 1)
    <2>1. wire[s] \in Seq(Message)
        BY DEF TypeOK
    <2> QED BY <1>1, <2>1
<1>3. h.sub \in SubId /\ h.kind # "result" /\ subs[s][h.sub] = h.pda
    BY <1>1, <1>2 DEF NodeOK, MessagesOK, Message
<1>4. jobs' \subseteq Pda
    BY <1>1, <1>3 DEF TypeOK
<1>5. idMap[h.sub] = h.pda \/ Shared(s, h.sub)
    <2>1. AllTold(s)
        BY DEF NodeOK, ToldOK
    <2>2. Shared(s, h.sub) \/ Told(s, h.sub, 1)
        BY <1>2, <1>3, <2>1 DEF AllTold
    <2> QED BY <1>2, <1>3, <2>2 DEF Told
<1>6. \A v \in SubId :
         \/ idMap'[v] = subs[s][v] /\ subs[s][v] # None
         \/ /\ idMap'[v] = idMap[v]
            /\ ~ (Head(wire[s]).kind = "result" /\ Head(wire[s]).sub = v)
    BY <1>1, <1>3
<1> QED
    BY <1>1, <1>4, <1>5, <1>6, HeardStep

\* A socket is closed: what was on the way is lost.
LEMMA CloseStep ==
    ASSUME TypeOK, NodeOK, NEW s \in Socket, Close(s)
    PROVE  /\ NodeOK' /\ wire' \in [Socket -> Seq(Message)]
           /\ reqs' \in [Socket -> SUBSET Request]
           /\ \A t \in Socket : /\ reqs'[t] \subseteq reqs[t]
                                /\ t # s => reqs'[t] = reqs[t]
<1>1. /\ wire \in [Socket -> Seq(Message)] /\ sock \in [Socket -> {"none", "connecting", "open", "closed"}]
      /\ reqs \in [Socket -> SUBSET Request]
    BY DEF TypeOK, NodeOK, NumbersOK
<1>2. /\ reqs' = [reqs EXCEPT ![s] = {}] /\ sock' = [sock EXCEPT ![s] = "closed"]
      /\ wire' = [wire EXCEPT ![s] = << >>]
      /\ counterMap' = counterMap /\ idMap' = idMap /\ subs' = subs
    BY DEF Close, memory
<1>3. << >> \in Seq(Message) /\ DOMAIN << >> = {}
    OBVIOUS
<1>4. /\ wire' \in [Socket -> Seq(Message)] /\ reqs' \in [Socket -> SUBSET Request]
      /\ \A t \in Socket : t # s => wire'[t] = wire[t] /\ reqs'[t] = reqs[t] /\ sock'[t] = sock[t]
      /\ wire'[s] = << >> /\ reqs'[s] = {} /\ sock'[s] = "closed"
      /\ \A t \in Socket : reqs'[t] \subseteq reqs[t]
    BY <1>1, <1>2, <1>3
<1>5. NumbersOK' /\ IdleOK' /\ MessagesOK'
    <2>1. \A t \in Socket : DOMAIN wire'[t] \subseteq DOMAIN wire[t]
        BY <1>3, <1>4
    <2>2. \A t \in Socket : \A k \in DOMAIN wire'[t] : t # s
        BY <1>3, <1>4
    <2>3. NumbersOK'
        BY <1>2, <1>4, <2>1, <2>2 DEF NodeOK, NumbersOK
    <2>4. IdleOK'
        BY <1>2, <1>4 DEF NodeOK, IdleOK
    <2>5. MessagesOK'
        BY <1>2, <1>4, <2>1, <2>2 DEF NodeOK, MessagesOK
    <2> QED BY <2>3, <2>4, <2>5
<1>6. ToldOK'
    <2> SUFFICES ASSUME NEW t \in Socket PROVE AllTold(t)'
        BY DEF ToldOK
    <2>1. CASE t = s
        BY <1>3, <1>4, <2>1 DEF AllTold
    <2>2. CASE t # s
        <3>1. AllTold(t) /\ wire'[t] = wire[t] /\ sock'[t] = sock[t]
            BY <1>4, <2>2 DEF NodeOK, ToldOK
        <3> QED BY <1>2, <3>1 DEF AllTold, Told, Shared
    <2> QED BY <2>1, <2>2
<1> QED
    BY <1>4, <1>5, <1>6 DEF NodeOK
-----------------------------------------------------------------------------
(* Accounts that are asked for.                                            *)

\* A request that is answered becomes a subscription: the account stays asked
\* for on every socket that is not closed.
LEMMA SubscribeAsked ==
    ASSUME TypeOK, NumbersOK, NEW s \in Socket, NEW m \in reqs[s], NEW u \in SubId,
           Subscribe(s, m, u)
    PROVE  \A t \in Socket, p \in Pda : Asked(t, p) => Asked(t, p)'
<1>1. /\ subs[s][u] = None /\ m.pda # None
      /\ reqs' = [reqs EXCEPT ![s] = @ \ {m}]
      /\ subs' = [subs EXCEPT ![s][u] = m.pda]
    BY ListenerAssumption DEF Subscribe, NumbersOK, Request
<1>2. /\ reqs \in [Socket -> SUBSET Request] /\ subs \in [Socket -> [SubId -> Pda \cup {None}]]
    BY DEF TypeOK, NumbersOK
<1>3. /\ \A t \in Socket : t # s => subs'[t] = subs[t] /\ reqs'[t] = reqs[t]
      /\ reqs'[s] = reqs[s] \ {m}
      /\ subs'[s][u] = m.pda /\ \A v \in SubId : v # u => subs'[s][v] = subs[s][v]
    BY <1>1, <1>2
<1> SUFFICES ASSUME NEW t \in Socket, NEW p \in Pda, Asked(t, p) PROVE Asked(t, p)'
    OBVIOUS
<1>4. CASE t # s
    BY <1>3, <1>4 DEF Asked
<1>5. CASE t = s
    <2>1. CASE m.pda = p
        BY <1>3, <1>5, <2>1 DEF Asked
    <2>2. ASSUME NEW x \in reqs[s], x.pda = p, m.pda # p PROVE Asked(t, p)'
        <3>1. x \in reqs'[s]
            BY <1>3, <2>2
        <3> QED BY <1>5, <2>2, <3>1 DEF Asked
    <2>3. ASSUME NEW v \in SubId, subs[s][v] = p PROVE Asked(t, p)'
        <3>1. p # None
            BY ListenerAssumption
        <3>2. subs'[s][v] = p
            BY <1>1, <1>3, <2>3, <3>1
        <3> QED BY <1>5, <3>2 DEF Asked
    <2> QED BY <1>5, <2>1, <2>2, <2>3 DEF Asked
<1> QED
    BY <1>4, <1>5

\* Accounts reached stay so, when a socket that was asked is still asked.
LEMMA ReachedKeeps ==
    ASSUME NEW c, NEW p, Reached(c, p), deaf' = deaf,
           NEW f, f = First(c),
           SocketsOf(c) # {} =>
              /\ sock'[f] = sock[f]
              /\ Asked(f, p) => Asked(f, p)'
    PROVE  Reached(c, p)'
<1>1. CASE SocketsOf(c) = {}
    BY <1>1 DEF Reached, Excused, SocketsOf
<1>2. CASE SocketsOf(c) # {}
    <2>1. sock'[f] = sock[f] /\ (Asked(f, p) => Asked(f, p)')
        BY <1>2
    <2>2. sock[f] \in {"connecting", "closed"} \/ f \in deaf \/ Asked(f, p)
        BY <1>2 DEF Reached, Excused
    <2>3. sock'[f] \in {"connecting", "closed"} \/ f \in deaf' \/ Asked(f, p)'
        BY <2>1, <2>2
    <2> QED BY <2>3 DEF Reached, Excused, First, SocketsOf
<1> QED
    BY <1>1, <1>2

\* Calls forget nothing that was asked.
LEMMA CallsAsked ==
    ASSUME Calls, subs' = subs
    PROVE  \A s \in Socket, p \in Pda : Asked(s, p) => Asked(s, p)'
BY DEF Calls, Asked

\* It is enough that accounts stay reached on the clusters whose sockets ask for
\* them, and that a new one is reached somewhere.
LEMMA AskedKeeps ==
    ASSUME TypeOK, MemoryOK, AskedOK, UNCHANGED <<phase, loaded>>,
           \A g \in Program : pdas[g] \subseteq pdas'[g],
           phase = "ready" =>
              /\ \A g \in Program, p \in Pda, c \in Cluster :
                    p \in pdas[g] /\ Listed(c, g) /\ Reached(c, p) => Reached(c, p)'
              /\ \A g \in Program : \A p \in pdas'[g] :
                    p \notin pdas[g] => \E i \in Indexer : ProgramOf[i] = g /\ Reached(ClusterOf[i], p)'
    PROVE  AskedOK'
<1> SUFFICES ASSUME phase = "ready" PROVE AskedOK'
    BY DEF AskedOK
<1>1. ASSUME NEW i \in Indexer, NEW g, g = ProgramOf[i], NEW c, c = ClusterOf[i],
             NEW p \in pdas[g], Reached(c, p)
      PROVE  Reached(c, p)'
    <2>1. g \in Program /\ c \in Cluster
        BY <1>1, ListenerAssumption
    <2>2. Listed(c, g) /\ p \in Pda
        BY <1>1, <2>1 DEF MemoryOK, TypeOK
    <2> QED BY <1>1, <2>1, <2>2
<1>2. ASSUME NEW r \in loaded, NEW c, c = ClusterOf[r[1]]
      PROVE  r[2] \in pdas'[ProgramOf[r[1]]] /\ Reached(c, r[2])'
    <2>1. PICK i \in Indexer, p \in Pda : r = <<i, p>>
        BY <1>2 DEF TypeOK
    <2>2. p \in pdas[ProgramOf[i]] /\ Reached(c, p) /\ ProgramOf[i] \in Program
        BY <1>2, <2>1, ListenerAssumption DEF AskedOK
    <2>3. Reached(c, p)'
        BY <1>1, <1>2, <2>1, <2>2
    <2> QED BY <2>1, <2>2, <2>3
<1>3. ASSUME NEW g \in Program, NEW p \in pdas'[g]
      PROVE  \E i \in Indexer : ProgramOf[i] = g /\ Reached(ClusterOf[i], p)'
    <2>1. CASE p \notin pdas[g]
        BY <1>3, <2>1
    <2>2. CASE p \in pdas[g]
        <3>1. PICK i \in Indexer : ProgramOf[i] = g /\ Reached(ClusterOf[i], p)
            BY <2>2 DEF AskedOK
        <3>2. PICK c : c = ClusterOf[i]
            OBVIOUS
        <3>3. Reached(c, p)'
            BY <1>1, <2>2, <3>1, <3>2
        <3> QED BY <3>1, <3>2, <3>3
    <2> QED BY <2>1, <2>2
<1>4. \A r \in loaded : r[2] \in pdas'[ProgramOf[r[1]]] /\ Reached(ClusterOf[r[1]], r[2])'
    BY <1>2
<1> QED
    BY <1>3, <1>4 DEF AskedOK

\* A step that changes no program, no socket and not who is asked.
LEMMA AskedQuiet ==
    ASSUME TypeOK, MemoryOK, AskedOK, UNCHANGED <<phase, sock, pdas, ghosts>>,
           \A s \in Socket, p \in Pda : Asked(s, p) => Asked(s, p)'
    PROVE  AskedOK'
<1>1. ASSUME NEW c, NEW p \in Pda, Reached(c, p) PROVE Reached(c, p)'
    <2>1. SocketsOf(c) # {} => First(c) \in Socket
        BY FirstIs
    <2>2. PICK f : f = First(c)
        OBVIOUS
    <2> QED BY <1>1, <2>1, <2>2, ReachedKeeps DEF ghosts
<1> QED
    BY <1>1, AskedKeeps DEF ghosts

\* When the accounts are loaded, no socket can have been asked, but each will
\* be when it opens, or is deaf or closed.
LEMMA LoadAsked ==
    ASSUME TypeOK, MemoryOK, LoadPrograms
    PROVE  AskedOK'
<1>1. /\ phase = "loading" /\ sock' = sock /\ loaded' = db
      /\ deaf' = {s \in Socket : sock[s] = "open"}
      /\ pdas' = [g \in Program |-> {p \in Pda : \E i \in Indexer :
                                        ProgramOf[i] = g /\ <<i, p>> \in db}]
    BY DEF LoadPrograms
<1>2. ASSUME NEW c, NEW p PROVE Reached(c, p)'
    <2>1. PICK f : f = First(c)
        OBVIOUS
    <2>2. CASE SocketsOf(c) = {}
        BY <2>2 DEF Reached, Excused, SocketsOf
    <2>3. CASE SocketsOf(c) # {}
        <3>1. f \in Socket
            BY <2>1, <2>3, FirstIs
        <3>2. sock[f] \in {"connecting", "open", "closed"}
            BY <1>1, <3>1 DEF TypeOK, MemoryOK
        <3>3. sock'[f] \in {"connecting", "closed"} \/ f \in deaf'
            BY <1>1, <3>1, <3>2
        <3> QED BY <2>1, <3>3 DEF Reached, Excused, First, SocketsOf
    <2> QED BY <2>2, <2>3
<1>3. ASSUME NEW r \in loaded' PROVE r[2] \in pdas'[ProgramOf[r[1]]] /\ Reached(ClusterOf[r[1]], r[2])'
    <2>1. PICK i \in Indexer, p \in Pda : r = <<i, p>> /\ r \in db
        BY <1>1 DEF TypeOK
    <2>2. ProgramOf[i] \in Program
        BY ListenerAssumption
    <2>3. PICK c : c = ClusterOf[i]
        OBVIOUS
    <2>4. Reached(c, p)'
        BY <1>2
    <2> QED BY <1>1, <2>1, <2>2, <2>3, <2>4
<1>4. ASSUME NEW g \in Program, NEW p \in pdas'[g]
      PROVE  \E i \in Indexer : ProgramOf[i] = g /\ Reached(ClusterOf[i], p)'
    <2>1. PICK i \in Indexer : ProgramOf[i] = g
        BY <1>1
    <2>2. PICK c : c = ClusterOf[i]
        OBVIOUS
    <2>3. Reached(c, p)'
        BY <1>2
    <2> QED BY <2>1, <2>2, <2>3
<1> QED
    BY <1>3, <1>4 DEF AskedOK

\* The first socket of a cluster opens: every account of the cluster is asked for.
LEMMA OpenAsked ==
    ASSUME TypeOK, NumbersOK, MemoryOK, AskedOK, NEW s \in Socket, Open(s)
    PROVE  AskedOK' /\ Calls
<1> DEFINE d == SocketCluster[s]
<1>1. /\ phase = "ready" /\ sock' = [sock EXCEPT ![s] = "open"]
      /\ AccountSubscribe(d, AllAccounts(d))
      /\ UNCHANGED <<phase, programs, pdas, subs, ghosts>>
    BY DEF Open
<1>2. d \in Cluster
    BY ListenerAssumption
<1>3. AllAccounts(d) \in Seq(Pda)
    BY <1>2, AllAccountsIs
<1>4. /\ Calls
      /\ SocketsOf(d) # {} /\ sock'[First(d)] = "open" =>
            \A n \in DOMAIN AllAccounts(d) :
               \E m \in reqs'[First(d)] : m.pda = AllAccounts(d)[n]
    BY <1>1, <1>2, <1>3, AskStep
<1>5. \A t \in Socket, p \in Pda : Asked(t, p) => Asked(t, p)'
    BY <1>1, <1>4, CallsAsked
<1>6. ASSUME NEW g \in Program, NEW p \in Pda, NEW c \in Cluster,
             p \in pdas[g], Listed(c, g), Reached(c, p)
      PROVE  Reached(c, p)'
    <2>1. PICK f : f = First(c)
        OBVIOUS
    <2>2. SocketsOf(c) # {} => f \in Socket /\ SocketCluster[f] = c
        BY <2>1, FirstIs
    <2>3. CASE SocketsOf(c) # {} /\ f = s
        <3>1. c = d /\ sock'[f] = "open"
            BY <1>1, <2>2, <2>3 DEF TypeOK
        <3>2. PICK n \in DOMAIN AllAccounts(d) : AllAccounts(d)[n] = p
            BY <1>2, <1>6, <3>1, AllAccountsIs
        <3>3. PICK m \in reqs'[f] : m.pda = p
            BY <1>4, <2>1, <2>3, <3>1, <3>2
        <3>4. Asked(f, p)'
            BY <3>3 DEF Asked
        <3> QED BY <2>1, <3>4 DEF Reached
    <2>4. CASE ~ (SocketsOf(c) # {} /\ f = s)
        <3>1. SocketsOf(c) # {} => sock'[f] = sock[f] /\ (Asked(f, p) => Asked(f, p)')
            BY <1>1, <1>5, <2>2, <2>4 DEF TypeOK
        <3> QED BY <1>1, <1>6, <2>1, <3>1, ReachedKeeps DEF ghosts
    <2> QED BY <2>3, <2>4
<1>7. AskedOK'
    BY <1>1, <1>6, AskedKeeps DEF ghosts
<1> QED
    BY <1>4, <1>7

\* An account that is new to memory is asked for on the spot, or when its
\* socket opens.
LEMMA RegisterAsked ==
    ASSUME TypeOK, NumbersOK, MemoryOK, AskedOK, NEW j \in Indexer, NEW q \in Pda, RegisterTrigger(j, q)
    PROVE  AskedOK' /\ Calls
<1> DEFINE g == ProgramOf[j]
           one == <<q>>
<1>0. PICK d : d = ClusterOf[j]
    OBVIOUS
<1>1. /\ phase = "ready" /\ UNCHANGED <<phase, sock, subs, ghosts>>
      /\ pdas' = [pdas EXCEPT ![g] = @ \cup {q}]
      /\ IF q \in pdas[g] THEN UNCHANGED <<counterMap, reqs>> ELSE AccountSubscribe(d, one)
    BY <1>0 DEF RegisterTrigger
<1>2. d \in Cluster /\ g \in Program /\ one \in Seq(Pda) /\ 1 \in DOMAIN one /\ one[1] = q
    BY <1>0, ListenerAssumption
<1> HIDE DEF one
<1>3. q \notin pdas[g] =>
         /\ Calls
         /\ SocketsOf(d) # {} /\ sock'[First(d)] = "open" =>
               \A n \in DOMAIN one : \E m \in reqs'[First(d)] : m.pda = one[n]
    BY <1>1, <1>2, AskStep
<1>4. Calls
    BY <1>1, <1>3, NoCalls
<1>5. \A t \in Socket, p \in Pda : Asked(t, p) => Asked(t, p)'
    BY <1>1, <1>4, CallsAsked
<1>6. ASSUME NEW p \in Pda, NEW c, Reached(c, p) PROVE Reached(c, p)'
    <2>1. PICK f : f = First(c)
        OBVIOUS
    <2>2. SocketsOf(c) # {} => f \in Socket
        BY <2>1, FirstIs
    <2>3. SocketsOf(c) # {} => sock'[f] = sock[f] /\ (Asked(f, p) => Asked(f, p)')
        BY <1>1, <1>5, <2>2
    <2> QED BY <1>1, <1>6, <2>1, <2>3, ReachedKeeps DEF ghosts
<1>7. ASSUME q \notin pdas[g] PROVE Reached(d, q)'
    <2>1. PICK f : f = First(d)
        OBVIOUS
    <2>2. CASE SocketsOf(d) = {}
        BY <2>2 DEF Reached, Excused, SocketsOf
    <2>3. CASE SocketsOf(d) # {} /\ sock'[f] = "open"
        <3>1. PICK m \in reqs'[f] : m.pda = q
            BY <1>2, <1>3, <1>7, <2>1, <2>3
        <3>2. Asked(f, q)'
            BY <3>1 DEF Asked
        <3> QED BY <2>1, <3>2 DEF Reached
    <2>4. CASE SocketsOf(d) # {} /\ sock'[f] # "open"
        <3>1. f \in Socket /\ sock[f] # "none"
            BY <1>1, <2>1, <2>4, FirstIs DEF MemoryOK
        <3>2. sock'[f] \in {"connecting", "closed"}
            BY <1>1, <2>4, <3>1 DEF TypeOK
        <3> QED BY <2>1, <3>2 DEF Reached, Excused
    <2> QED BY <2>2, <2>3, <2>4
<1>8. ASSUME NEW h \in Program, NEW p \in pdas'[h], p \notin pdas[h]
      PROVE  \E i \in Indexer : ProgramOf[i] = h /\ Reached(ClusterOf[i], p)'
    <2>1. h = g /\ p = q
        BY <1>1, <1>2, <1>8 DEF TypeOK
    <2>2. Reached(d, p)'
        BY <1>7, <1>8, <2>1
    <2> QED BY <1>0, <2>1, <2>2
<1>9. \A h \in Program : pdas[h] \subseteq pdas'[h]
    BY <1>1, <1>2 DEF TypeOK
<1>a. AskedOK'
    BY <1>1, <1>6, <1>8, <1>9, AskedKeeps DEF ghosts
<1> QED
    BY <1>4, <1>a

\* A cluster whose first socket is closed is excused.
LEMMA CloseAsked ==
    ASSUME TypeOK, NodeOK, MemoryOK, AskedOK, NEW s \in Socket, Close(s)
    PROVE  AskedOK'
<1>1. /\ sock' = [sock EXCEPT ![s] = "closed"]
      /\ UNCHANGED <<phase, pdas, subs, ghosts>>
    BY DEF Close, memory
<1>2. \A t \in Socket : t # s => reqs'[t] = reqs[t]
    BY CloseStep
<1>3. ASSUME NEW c, NEW p \in Pda, Reached(c, p) PROVE Reached(c, p)'
    <2>1. PICK f : f = First(c)
        OBVIOUS
    <2>2. SocketsOf(c) # {} => f \in Socket
        BY <2>1, FirstIs
    <2>3. CASE SocketsOf(c) # {} /\ f = s
        <3>1. sock'[f] = "closed"
            BY <1>1, <2>2, <2>3 DEF TypeOK
        <3> QED BY <2>1, <3>1 DEF Reached, Excused
    <2>4. CASE ~ (SocketsOf(c) # {} /\ f = s)
        <3>1. SocketsOf(c) # {} => sock'[f] = sock[f] /\ (Asked(f, p) => Asked(f, p)')
            <4> SUFFICES ASSUME SocketsOf(c) # {}
                         PROVE  sock'[f] = sock[f] /\ (Asked(f, p) => Asked(f, p)')
                OBVIOUS
            <4>1. f \in Socket /\ f # s
                BY <2>2, <2>4
            <4>2. reqs'[f] = reqs[f] /\ subs'[f] = subs[f]
                BY <1>1, <1>2, <4>1
            <4>3. sock'[f] = sock[f]
                BY <1>1, <4>1 DEF TypeOK
            <4> QED BY <4>2, <4>3 DEF Asked
        <3> QED BY <1>1, <1>3, <2>1, <3>1, ReachedKeeps DEF ghosts
    <2> QED BY <2>3, <2>4
<1> QED
    BY <1>1, <1>3, AskedKeeps DEF ghosts
-----------------------------------------------------------------------------
(* The steps.                                                              *)

\* A new process knows nothing, and nothing is asked of anyone.
NewProcess ==
    /\ phase = "down" /\ pending = {} /\ deaf = {} /\ loaded = {}
    /\ sock = [s \in Socket |-> "none"]
    /\ programs = [c \in Cluster |-> << >>]
    /\ pdas = [g \in Program |-> {}]
    /\ counterMap = << >>
    /\ idMap = [u \in SubId |-> None]
    /\ reqs = [s \in Socket |-> {}]
    /\ subs = [s \in Socket |-> [u \in SubId |-> None]]
    /\ wire = [s \in Socket |-> << >>]

\* What outlives a process.
OutsideOK ==
    /\ db \subseteq Indexer \X Pda /\ jobs \subseteq Pda
    /\ crashes \in 0 .. MaxCrashes /\ changes \in 0 .. MaxChanges

\* The invariant holds of it.
LEMMA NewProcessIInv == NewProcess /\ OutsideOK => IInv
<1> SUFFICES ASSUME NewProcess, OutsideOK PROVE IInv
    OBVIOUS
<1> USE DEF NewProcess, OutsideOK
<1>1. /\ << >> \in Seq(Program) /\ << >> \in Seq(Pda) /\ << >> \in Seq(Message)
      /\ DOMAIN << >> = {}
    OBVIOUS
<1>2. TypeOK
    BY <1>1 DEF TypeOK
<1>3. \A s \in Socket : wire[s] = << >> /\ reqs[s] = {} /\ \A u \in SubId : subs[s][u] = None
    OBVIOUS
<1>4. NumbersOK
    BY <1>1, <1>3 DEF NumbersOK
<1>5. MemoryOK /\ AskedOK
    BY DEF MemoryOK, AskedOK
<1>6. IdleOK /\ MessagesOK /\ ToldOK
    BY <1>1, <1>3 DEF IdleOK, MessagesOK, ToldOK, AllTold
<1> QED
    BY <1>2, <1>4, <1>5, <1>6 DEF IInv

\* So it does at the start.
LEMMA InitIInv == Init => IInv
<1> SUFFICES ASSUME Init PROVE IInv
    OBVIOUS
<1> QED
    BY NewProcessIInv, ListenerAssumption DEF Init, NewProcess, OutsideOK

\* And after a crash: all but the database and the queue is gone.
LEMMA CrashStep == ASSUME TypeOK, Crash PROVE IInv'
<1>1. NewProcess'
    BY DEF Crash, Blank, NewProcess
<1>2. OutsideOK'
    BY ListenerAssumption DEF Crash, TypeOK, OutsideOK
<1> QED
    BY <1>1, <1>2, NewProcessIInv, PTL

\* Memory after the load.
LEMMA LoadMemory ==
    ASSUME TypeOK, MemoryOK, LoadPrograms
    PROVE  /\ MemoryOK' /\ programs' \in [Cluster -> Seq(Program)]
           /\ pdas' \in [Program -> SUBSET Pda]
<1> DEFINE S(c) == {i \in Indexer : ClusterOf[i] = c}
           L(c) == [n \in DOMAIN SetToSeq(S(c)) |-> ProgramOf[SetToSeq(S(c))[n]]]
<1>1. /\ phase = "loading" /\ phase' = "ready" /\ db' = db /\ pending' = pending /\ sock' = sock
      /\ programs' = [c \in Cluster |-> L(c)]
      /\ pdas' = [g \in Program |-> {p \in Pda : \E i \in Indexer :
                                        ProgramOf[i] = g /\ <<i, p>> \in db}]
    BY DEF LoadPrograms, rows
<1>2. ASSUME NEW c \in Cluster
      PROVE  /\ L(c) \in Seq(Program)
             /\ \A i \in S(c) : \E n \in DOMAIN L(c) : L(c)[n] = ProgramOf[i]
    <2>1. IsFiniteSet(S(c))
        BY ListenerAssumption, FS_Subset
    <2>2. PICK q : q = SetToSeq(S(c))
        OBVIOUS
    <2>3. q \in Seq(S(c)) /\ \A i \in S(c) : \E n \in DOMAIN q : q[n] = i
        BY <2>1, <2>2, SetToSeqIs
    <2>4. \A n \in DOMAIN q : ProgramOf[q[n]] \in Program
        BY <2>3, ListenerAssumption
    <2>5. DOMAIN q = 1 .. Len(q) /\ Len(q) \in Nat
        BY <2>3
    <2>6. PICK l : l = [n \in DOMAIN q |-> ProgramOf[q[n]]]
        OBVIOUS
    <2>7. l = L(c)
        BY <2>2, <2>6
    <2>8. l \in Seq(Program) /\ DOMAIN l = DOMAIN q /\ \A n \in DOMAIN q : l[n] = ProgramOf[q[n]]
        BY <2>4, <2>5, <2>6
    <2>9. \A i \in S(c) : \E n \in DOMAIN l : l[n] = ProgramOf[i]
        BY <2>3, <2>8
    <2> QED BY <2>7, <2>8, <2>9
<1>3. ASSUME NEW i \in Indexer, NEW c, c = ClusterOf[i], NEW g, g = ProgramOf[i]
      PROVE  Listed(c, g)'
    <2>1. c \in Cluster /\ i \in S(c)
        BY <1>3, ListenerAssumption
    <2> HIDE DEF S, L
    <2>2. programs'[c] = L(c)
        BY <1>1, <2>1
    <2> QED BY <1>2, <1>3, <2>1, <2>2 DEF Listed
<1>4. programs' \in [Cluster -> Seq(Program)]
    <2> HIDE DEF S, L
    <2> QED BY <1>1, <1>2
<1>5. pdas' \in [Program -> SUBSET Pda]
    BY <1>1
<1>6. ASSUME NEW r \in db' \cup pending' PROVE r[2] \in pdas'[ProgramOf[r[1]]]
    <2>1. r \in db
        BY <1>1 DEF MemoryOK
    <2>2. PICK i \in Indexer, p \in Pda : r = <<i, p>>
        BY <2>1 DEF TypeOK
    <2>3. ProgramOf[i] \in Program
        BY ListenerAssumption
    <2> QED BY <1>1, <2>1, <2>2, <2>3
<1>7. MemoryOK'
    BY <1>1, <1>3, <1>6 DEF MemoryOK
<1> QED
    BY <1>4, <1>5, <1>7

\* Memory after a registration.
LEMMA RegisterMemory ==
    ASSUME TypeOK, MemoryOK, NEW j \in Indexer, NEW q \in Pda, RegisterTrigger(j, q)
    PROVE  /\ MemoryOK' /\ programs' \in [Cluster -> Seq(Program)]
           /\ pdas' \in [Program -> SUBSET Pda] /\ pending' \subseteq Indexer \X Pda
<1> DEFINE g == ProgramOf[j]
           d == ClusterOf[j]
<1>1. /\ phase = "ready" /\ phase' = phase /\ db' = db /\ sock' = sock
      /\ pending' = pending \cup {<<j, q>>}
      /\ programs' = programs \/ programs' = [programs EXCEPT ![d] = Append(@, g)]
      /\ pdas' = [pdas EXCEPT ![g] = @ \cup {q}]
    BY DEF RegisterTrigger
<1>2. d \in Cluster /\ g \in Program
    BY ListenerAssumption
<1>3. pdas' \in [Program -> SUBSET Pda] /\ pending' \subseteq Indexer \X Pda
    BY <1>1, <1>2 DEF TypeOK
<1>4. q \in pdas'[g] /\ \A h \in Program : pdas[h] \subseteq pdas'[h]
    BY <1>1, <1>2 DEF TypeOK
<1>5. /\ programs' \in [Cluster -> Seq(Program)]
      /\ \A c \in Cluster : /\ DOMAIN programs[c] \subseteq DOMAIN programs'[c]
                            /\ \A n \in DOMAIN programs[c] : programs'[c][n] = programs[c][n]
    <2>1. CASE programs' = programs
        BY <2>1 DEF TypeOK
    <2>2. CASE programs' = [programs EXCEPT ![d] = Append(@, g)]
        <3>1. PICK l \in Seq(Program) : l = programs[d]
            BY <1>2 DEF TypeOK
        <3>2. /\ Append(l, g) \in Seq(Program) /\ DOMAIN l \subseteq DOMAIN Append(l, g)
              /\ \A n \in DOMAIN l : Append(l, g)[n] = l[n]
            BY <1>2
        <3>3. /\ programs \in [Cluster -> Seq(Program)] /\ programs'[d] = Append(l, g)
              /\ \A c \in Cluster : c # d => programs'[c] = programs[c]
              /\ programs' \in [Cluster -> Seq(Program)]
            BY <1>2, <2>2, <3>1, <3>2 DEF TypeOK
        <3> QED BY <3>1, <3>2, <3>3
    <2> QED BY <1>1, <2>1, <2>2
<1>6. ASSUME NEW i \in Indexer, NEW c, c = ClusterOf[i], NEW h, h = ProgramOf[i]
      PROVE  Listed(c, h)'
    <2>1. c \in Cluster /\ Listed(c, h)
        BY <1>1, <1>6, ListenerAssumption DEF MemoryOK
    <2> QED BY <1>5, <2>1 DEF Listed
<1>7. ASSUME NEW r \in db' \cup pending' PROVE r[2] \in pdas'[ProgramOf[r[1]]]
    <2>1. CASE r = <<j, q>>
        <3>1. r[1] = j /\ r[2] = q
            BY <2>1
        <3> QED BY <1>4, <3>1
    <2>2. CASE r \in db \cup pending
        <3>1. ProgramOf[r[1]] \in Program
            BY <2>2, ListenerAssumption DEF TypeOK
        <3>2. r[2] \in pdas[ProgramOf[r[1]]]
            BY <1>1, <2>2 DEF MemoryOK
        <3> QED BY <1>4, <3>1, <3>2
    <2> QED BY <1>1, <2>1, <2>2
<1>8. MemoryOK'
    BY <1>1, <1>6, <1>7 DEF MemoryOK
<1> QED
    BY <1>3, <1>5, <1>8

\* Memory is as it was, and no row is new.
LEMMA MemoryQuiet ==
    ASSUME TypeOK, MemoryOK, UNCHANGED <<phase, programs, pdas>>,
           db' \cup pending' \subseteq db \cup pending, phase # "ready" => pending' = pending,
           \A s \in Socket : sock[s] = "none" <=> sock'[s] = "none"
    PROVE  MemoryOK'
BY DEF MemoryOK, Listed

\* Every step keeps the invariant.
LEMMA StepIInv == IInv /\ [Next]_vars => IInv'
<1> SUFFICES ASSUME IInv, [Next]_vars PROVE IInv'
    OBVIOUS
<1>0. TypeOK /\ NodeOK /\ MemoryOK /\ AskedOK /\ NumbersOK
    BY DEF IInv, NodeOK
<1>1. ASSUME NodeOK', TypeOK', MemoryOK', AskedOK' PROVE IInv'
    BY <1>1 DEF IInv, NodeOK
<1>2. ASSUME UNCHANGED <<counterMap, reqs, subs, idMap, wire>>,
             \A s \in Socket : sock'[s] # "closed" => sock[s] # "closed"
      PROVE  /\ NodeOK' /\ \A s \in Socket, p \in Pda : Asked(s, p) => Asked(s, p)'
             /\ \A s \in Socket : reqs'[s] \subseteq [id : DOMAIN counterMap', pda : Pda]
    <2>1. Calls
        BY <1>0, <1>2, NoCalls
    <2> QED BY <1>0, <1>2, <2>1, CallsNode, CallsAsked
<1>3. CASE ConnectAll
    <2>1. /\ phase' = "loading" /\ phase = "down" /\ sock' = [s \in Socket |-> "connecting"]
          /\ UNCHANGED <<rows, memory, node, jobs, ghosts, bounds>>
        BY <1>3 DEF ConnectAll
    <2>2. NodeOK'
        BY <1>0, <1>2, <2>1 DEF memory, node, MemoryOK
    <2>3. TypeOK'
        BY <1>0, <2>1 DEF TypeOK, memory, node, rows, bounds, ghosts
    <2>4. MemoryOK' /\ AskedOK'
        BY <1>0, <2>1 DEF MemoryOK, AskedOK, rows
    <2> QED BY <1>1, <2>2, <2>3, <2>4
<1>4. CASE LoadPrograms
    <2>1. /\ phase' = "ready" /\ UNCHANGED <<rows, sock, counterMap, idMap, node, jobs, bounds>>
          /\ deaf' \subseteq Socket /\ loaded' = db
        BY <1>4 DEF LoadPrograms
    <2>2. NodeOK'
        BY <1>2, <2>1 DEF node
    <2>3. MemoryOK' /\ programs' \in [Cluster -> Seq(Program)] /\ pdas' \in [Program -> SUBSET Pda]
        BY <1>0, <1>4, LoadMemory
    <2>4. TypeOK'
        BY <1>0, <2>1, <2>3 DEF TypeOK, node, rows, bounds
    <2> QED BY <1>0, <1>1, <1>4, <2>2, <2>3, <2>4, LoadAsked
<1>5. CASE Crash
    BY <1>0, <1>5, CrashStep
<1>6. ASSUME NEW s \in Socket, OpenUnheard(s) PROVE IInv'
    <2>1. /\ phase = "loading" /\ sock[s] = "connecting" /\ sock' = [sock EXCEPT ![s] = "open"]
          /\ UNCHANGED <<rows, phase, memory, node, jobs, ghosts, bounds>>
        BY <1>6 DEF OpenUnheard
    <2>a. \A t \in Socket : sock'[t] # "closed" => sock[t] # "closed"
        BY <1>0, <2>1 DEF TypeOK
    <2>2. NodeOK'
        BY <1>2, <2>1, <2>a DEF memory, node
    <2>3. TypeOK'
        BY <1>0, <2>1 DEF TypeOK, memory, node, rows, bounds, ghosts
    <2>4. MemoryOK' /\ AskedOK'
        BY <1>0, <1>6, <2>1 DEF MemoryOK, AskedOK, rows, TypeOK, OpenUnheard
    <2> QED BY <1>1, <2>2, <2>3, <2>4
<1>7. ASSUME NEW s \in Socket, Open(s) PROVE IInv'
    <2>1. /\ sock[s] = "connecting" /\ sock' = [sock EXCEPT ![s] = "open"]
          /\ UNCHANGED <<rows, phase, programs, pdas, idMap, subs, wire, jobs, ghosts, bounds>>
        BY <1>7 DEF Open
    <2>2. AskedOK' /\ Calls
        BY <1>0, <1>7, OpenAsked
    <2>a. \A t \in Socket : sock'[t] # "closed" => sock[t] # "closed"
        BY <1>0, <2>1 DEF TypeOK
    <2>3. /\ NodeOK' /\ counterMap' \in Seq(Pda)
          /\ \A t \in Socket : reqs'[t] \subseteq [id : DOMAIN counterMap', pda : Pda]
        BY <1>0, <2>1, <2>2, <2>a, CallsNode
    <2>4. TypeOK'
        BY <1>0, <2>1, <2>3 DEF TypeOK, rows, bounds, ghosts
    <2>5. \A t \in Socket : sock[t] = "none" <=> sock'[t] = "none"
        BY <1>0, <1>7, <2>1 DEF TypeOK, Open
    <2>6. MemoryOK'
        BY <1>0, <2>1, <2>5, MemoryQuiet DEF rows
    <2> QED BY <1>1, <2>2, <2>3, <2>4, <2>6
<1>8. ASSUME NEW s \in Socket, Close(s) PROVE IInv'
    <2>1. /\ sock[s] = "open" /\ sock' = [sock EXCEPT ![s] = "closed"]
          /\ UNCHANGED <<rows, phase, memory, subs, jobs, ghosts, bounds>>
        BY <1>8 DEF Close
    <2>2. /\ NodeOK' /\ wire' \in [Socket -> Seq(Message)]
          /\ \A t \in Socket : reqs'[t] \subseteq reqs[t]
        BY <1>0, <1>8, CloseStep
    <2>3. TypeOK'
        BY <1>0, <2>1, <2>2 DEF TypeOK, rows, bounds, memory, ghosts
    <2>4. \A t \in Socket : sock[t] = "none" <=> sock'[t] = "none"
        BY <1>0, <2>1 DEF TypeOK
    <2>5. MemoryOK'
        BY <1>0, <2>1, <2>4, MemoryQuiet DEF rows, memory
    <2> QED BY <1>0, <1>1, <1>8, <2>2, <2>3, <2>5, CloseAsked
<1>9. ASSUME NEW s \in Socket, NEW m \in reqs[s], NEW u \in SubId, Subscribe(s, m, u)
      PROVE  IInv'
    <2>1. UNCHANGED <<rows, phase, sock, memory, jobs, ghosts, bounds>>
        BY <1>9 DEF Subscribe
    <2>2. /\ NodeOK' /\ wire' \in [Socket -> Seq(Message)]
          /\ subs' \in [Socket -> [SubId -> Pda \cup {None}]]
          /\ \A t \in Socket : reqs'[t] \subseteq reqs[t]
        BY <1>0, <1>9, SubscribeStep
    <2>3. TypeOK'
        BY <1>0, <2>1, <2>2 DEF TypeOK, rows, bounds, memory, ghosts
    <2>4. MemoryOK'
        BY <1>0, <2>1, MemoryQuiet DEF rows, memory
    <2>5. AskedOK'
        BY <1>0, <1>9, <2>1, SubscribeAsked, AskedQuiet DEF memory
    <2> QED BY <1>1, <2>2, <2>3, <2>4, <2>5
<1>a. ASSUME NEW s \in Socket, NEW p \in Pda, AccountChange(s, p) PROVE IInv'
    <2>1. /\ changes < MaxChanges /\ changes' = changes + 1
          /\ UNCHANGED <<rows, phase, sock, memory, reqs, subs, jobs, ghosts, crashes>>
        BY <1>a DEF AccountChange
    <2>2. NodeOK' /\ wire' \in [Socket -> Seq(Message)]
        BY <1>0, <1>a, ChangeStep
    <2>3. TypeOK'
        BY <1>0, <2>1, <2>2, ListenerAssumption DEF TypeOK, rows, memory, ghosts
    <2>4. MemoryOK'
        BY <1>0, <2>1, MemoryQuiet DEF rows, memory
    <2>5. AskedOK'
        BY <1>0, <2>1, AskedQuiet DEF memory, Asked
    <2> QED BY <1>1, <2>2, <2>3, <2>4, <2>5
<1>b. ASSUME NEW s \in Socket, OnMessage(s) PROVE IInv'
    <2>1. UNCHANGED <<rows, phase, sock, programs, pdas, counterMap, reqs, subs, ghosts, bounds>>
        BY <1>b DEF OnMessage, OnResult, OnNotification, memory
    <2>2. /\ NodeOK' /\ wire' \in [Socket -> Seq(Message)] /\ jobs' \subseteq Pda
          /\ idMap' \in [SubId -> Pda \cup {None}]
        <3>1. CASE OnResult(s)
            <4>1. jobs' = jobs /\ jobs \subseteq Pda
                BY <1>0, <3>1 DEF OnResult, TypeOK
            <4> QED BY <1>0, <3>1, <4>1, ResultStep
        <3>2. CASE OnNotification(s)
            <4>1. idMap' = idMap /\ idMap \in [SubId -> Pda \cup {None}]
                BY <1>0, <3>2 DEF OnNotification, memory, TypeOK
            <4> QED BY <1>0, <3>2, <4>1, NotificationStep
        <3> QED BY <1>b, <3>1, <3>2 DEF OnMessage
    <2>3. TypeOK'
        BY <1>0, <2>1, <2>2 DEF TypeOK, rows, bounds, ghosts
    <2>4. MemoryOK'
        BY <1>0, <2>1, MemoryQuiet DEF rows
    <2>5. AskedOK'
        BY <1>0, <2>1, AskedQuiet DEF Asked
    <2> QED BY <1>1, <2>2, <2>3, <2>4, <2>5
<1>c. ASSUME NEW i \in Indexer, NEW p \in Pda, RegisterTrigger(i, p) PROVE IInv'
    <2>1. UNCHANGED <<db, phase, sock, idMap, subs, wire, jobs, ghosts, bounds>>
        BY <1>c DEF RegisterTrigger
    <2>2. AskedOK' /\ Calls
        BY <1>0, <1>c, RegisterAsked
    <2>3. /\ NodeOK' /\ counterMap' \in Seq(Pda)
          /\ \A t \in Socket : reqs'[t] \subseteq [id : DOMAIN counterMap', pda : Pda]
        BY <1>0, <2>1, <2>2, CallsNode
    <2>4. /\ MemoryOK' /\ programs' \in [Cluster -> Seq(Program)]
          /\ pdas' \in [Program -> SUBSET Pda] /\ pending' \subseteq Indexer \X Pda
        BY <1>0, <1>c, RegisterMemory
    <2>5. TypeOK'
        BY <1>0, <2>1, <2>3, <2>4 DEF TypeOK, bounds, ghosts
    <2> QED BY <1>1, <2>2, <2>3, <2>4, <2>5
<1>d. ASSUME /\ db' \cup pending' \subseteq db \cup pending
             /\ phase # "ready" => pending' = pending
             /\ jobs' \subseteq jobs
             /\ UNCHANGED <<phase, sock, memory, node, ghosts, bounds>>
      PROVE  IInv'
    <2>1. NodeOK' /\ \A s \in Socket, p \in Pda : Asked(s, p) => Asked(s, p)'
        BY <1>2, <1>d DEF memory, node
    <2>2. db' \subseteq Indexer \X Pda /\ pending' \subseteq Indexer \X Pda
        BY <1>0, <1>d DEF TypeOK
    <2>3. TypeOK'
        BY <1>0, <1>d, <2>2 DEF TypeOK, memory, node, bounds, ghosts
    <2>4. MemoryOK'
        BY <1>0, <1>d, MemoryQuiet DEF memory
    <2>5. AskedOK'
        BY <1>0, <1>d, <2>1, AskedQuiet DEF memory
    <2> QED BY <1>1, <2>1, <2>3, <2>4, <2>5
<1>e. ASSUME NEW r \in pending, Commit(r) \/ Rollback(r) PROVE IInv'
    <2>1. /\ UNCHANGED <<phase, sock, memory, node, ghosts, bounds>> /\ jobs' = jobs
          /\ pending' = pending \ {r} /\ (db' = db \cup {r} \/ db' = db)
        BY <1>e DEF Commit, Rollback
    <2>2. phase # "ready" => pending' = pending
        BY <1>0, <1>e DEF MemoryOK
    <2> QED BY <1>d, <2>1, <2>2
<1>f. ASSUME NEW r \in db, DeleteTrigger(r) PROVE IInv'
    BY <1>d, <1>f DEF DeleteTrigger
<1>g. ASSUME NEW p \in Pda, JobRemoved(p) PROVE IInv'
    BY <1>d, <1>g DEF JobRemoved, rows
<1>h. CASE UNCHANGED vars
    BY <1>d, <1>h DEF vars, rows
<1>i. ASSUME NEW s \in Socket, Opens(s) \/ Close(s) \/ Serves(s) \/ OnMessage(s) PROVE IInv'
    BY <1>5, <1>6, <1>7, <1>8, <1>9, <1>b, <1>i DEF Opens, OpenTooEarly, Serves
<1> QED
    BY <1>3, <1>4, <1>5, <1>a, <1>c, <1>e, <1>f, <1>g, <1>h, <1>i DEF Next
-----------------------------------------------------------------------------
(* The theorems.                                                           *)

\* The invariant holds in every reachable state.
THEOREM Invariance == Spec => []IInv
BY InitIInv, StepIInv, PTL DEF Spec

\* Rows, maps, requests and messages are well typed: a number that is asked
\* with is one that was given out.
THEOREM TypeCorrect == Spec => []TypeOK
<1>1. IInv => TypeOK
    BY DEF IInv
<1> QED
    BY <1>1, Invariance, PTL

\* The account of every trigger is asked for: on its own cluster if it was there
\* at the start, else on its own or that of another indexer of its program; for
\* any number of clusters, sockets and restarts.
THEOREM EveryAccountIsAsked == Spec => []EveryPdaAsked
<1>1. IInv => EveryPdaAsked
    <2> SUFFICES ASSUME IInv, phase = "ready", NEW r \in db \cup pending,
                        NEW c, c = ClusterOf[r[1]], NEW g, g = ProgramOf[r[1]],
                        ~ Reached(c, r[2])
                 PROVE  /\ r \notin loaded
                        /\ \E i \in Indexer : /\ ProgramOf[i] = g /\ ClusterOf[i] # c
                                              /\ Reached(ClusterOf[i], r[2])
        BY DEF EveryPdaAsked
    <2>1. r[1] \in Indexer
        BY DEF IInv, TypeOK
    <2>2. g \in Program /\ r[2] \in pdas[g]
        BY <2>1, ListenerAssumption DEF IInv, MemoryOK
    <2>3. r \notin loaded
        BY DEF IInv, AskedOK
    <2>4. PICK i \in Indexer : ProgramOf[i] = g /\ Reached(ClusterOf[i], r[2])
        BY <2>2 DEF IInv, AskedOK
    <2> QED BY <2>3, <2>4
<1> QED
    BY <1>1, Invariance, PTL

\* A notification is taken for the account that changed, and none is read
\* before the answer that says whose it is, unless another node gave out its
\* id too; for any number of nodes.
THEOREM NotificationsAreRight == Spec => RightUnlessShared
<1>1. IInv /\ [Next]_vars =>
         [\A s \in Socket : OnNotification(s) =>
             \/ idMap[Head(wire[s]).sub] = Head(wire[s]).pda
             \/ \E t \in Socket \ {s} : subs[t][Head(wire[s]).sub] # None]_vars
    BY NotificationStep DEF IInv, NodeOK, Shared
<1> QED
    BY <1>1, Invariance, PTL DEF Spec, RightUnlessShared
=============================================================================
