-------------------------- MODULE WebsocketListener --------------------------
(***************************************************************************)
(* WebsocketListenerService and the RPC nodes it listens to.  The service  *)
(* opens one socket per RPC row, subscribes every account that a trigger   *)
(* names, and turns each notification into a PDA_CHANGE job.               *)
(*                                                                         *)
(* What runs between two awaits on a promise of I/O is one step: the loops *)
(* of programSubscribeAccount await only functions that never suspend.     *)
(* The wire keeps the order of a socket's messages.  A socket that fails   *)
(* has no `error' handler, so that the process goes down and pm2 starts it *)
(* again; one that is closed stays closed.                                 *)
(***************************************************************************)
EXTENDS Integers, FiniteSets, SequencesExt

CONSTANTS
    Indexer, Program, Pda, Cluster,
    ProgramOf, ClusterOf,    \* the columns of an indexer
    Socket,                  \* active rows of rpc, ids in the order of findAll
    SocketCluster,           \* and their cluster
    SubId,                   \* subscription ids a node may choose
    None,                    \* no account
    MaxCrashes, MaxChanges   \* bounds: restarts, and changes seen by a node

\* Rows of a table, keys of 32 bytes and ids of 64 bits: there are finitely many.
ASSUME ListenerAssumption ==
    /\ IsFiniteSet(Indexer) /\ IsFiniteSet(Pda) /\ IsFiniteSet(SubId)
    /\ ProgramOf \in [Indexer -> Program] /\ ClusterOf \in [Indexer -> Cluster]
    /\ Socket \subseteq Nat /\ SocketCluster \in [Socket -> Cluster]
    /\ None \notin Pda
    /\ MaxCrashes \in Nat /\ MaxChanges \in Nat

VARIABLES
    db,          \* committed triggers, as <<indexer, account>>
    pending,     \* triggers whose transaction has emitted but not committed
    phase,       \* "down", "loading" (handlers not assigned yet), "ready"
    sock,        \* readyState of each socket
    programs,    \* programsClusterMap
    pdas,        \* programPdasMap
    counterMap,  \* subscribeCounterPdaMap; subscribeCounter is its length + 1
    idMap,       \* subscribeIdPdaMap
    reqs,        \* accountSubscribe requests on their way to a node
    subs,        \* the subscription ids a node has given out on a socket
    wire,        \* messages on their way from a node
    jobs,        \* accounts with a PDA_CHANGE job
    deaf,        \* ghost: sockets that opened before onopen was assigned
    loaded,      \* ghost: triggers that LoadPrograms found
    crashes, changes

memory == <<programs, pdas, counterMap, idMap>>
node   == <<reqs, subs, wire>>
rows   == <<db, pending>>
ghosts == <<deaf, loaded>>
bounds == <<crashes, changes>>
vars   == <<rows, phase, sock, memory, node, jobs, ghosts, bounds>>

Message == [kind : {"result", "accountNotification"},
            id : Nat, sub : SubId, pda : Pda \cup {None}]

TypeOK ==
    /\ db \subseteq Indexer \X Pda /\ pending \subseteq Indexer \X Pda
    /\ phase \in {"down", "loading", "ready"}
    /\ sock \in [Socket -> {"none", "connecting", "open", "closed"}]
    /\ programs \in [Cluster -> Seq(Program)]
    /\ pdas \in [Program -> SUBSET Pda]
    /\ counterMap \in Seq(Pda)
    /\ idMap \in [SubId -> Pda \cup {None}]
    /\ \A s \in Socket : reqs[s] \subseteq [id : DOMAIN counterMap, pda : Pda]
    /\ subs \in [Socket -> [SubId -> Pda \cup {None}]]
    /\ wire \in [Socket -> Seq(Message)]
    /\ jobs \subseteq Pda /\ deaf \subseteq Socket /\ loaded \subseteq Indexer \X Pda
    /\ crashes \in 0 .. MaxCrashes /\ changes \in 0 .. MaxChanges

\* What a new process starts with.
Blank ==
    /\ phase' = "down"
    /\ sock' = [s \in Socket |-> "none"]
    /\ programs' = [c \in Cluster |-> <<>>]
    /\ pdas' = [g \in Program |-> {}]
    /\ counterMap' = <<>>
    /\ idMap' = [u \in SubId |-> None]
    /\ reqs' = [s \in Socket |-> {}]
    /\ subs' = [s \in Socket |-> [u \in SubId |-> None]]
    /\ wire' = [s \in Socket |-> <<>>]
    /\ deaf' = {} /\ loaded' = {}
    /\ pending' = {}

Init ==
    /\ db \in SUBSET (Indexer \X Pda)
    /\ pending = {}
    /\ phase = "down"
    /\ sock = [s \in Socket |-> "none"]
    /\ programs = [c \in Cluster |-> <<>>]
    /\ pdas = [g \in Program |-> {}]
    /\ counterMap = <<>>
    /\ idMap = [u \in SubId |-> None]
    /\ reqs = [s \in Socket |-> {}]
    /\ subs = [s \in Socket |-> [u \in SubId |-> None]]
    /\ wire = [s \in Socket |-> <<>>]
    /\ jobs = {} /\ deaf = {} /\ loaded = {}
    /\ crashes = 0 /\ changes = 0

\* An uncaught exception or unhandled rejection, and the restart.
Crash ==
    /\ phase # "down"
    /\ crashes < MaxCrashes
    /\ crashes' = crashes + 1
    /\ Blank
    /\ UNCHANGED <<db, jobs, changes>>
-----------------------------------------------------------------------------
(* onModuleInit.                                                           *)

\* findAll returns; a socket is made for each row.
ConnectAll ==
    /\ phase = "down"
    /\ phase' = "loading"
    /\ sock' = [s \in Socket |-> "connecting"]
    /\ UNCHANGED <<rows, memory, node, jobs, ghosts, bounds>>

\* Mutant: an indexer's accounts replace those of the program's other indexers.
LoadProgramsReplacing ==
    /\ phase = "loading"
    /\ phase' = "ready"
    /\ programs' = [c \in Cluster |->
          LET ids == SetToSeq({i \in Indexer : ClusterOf[i] = c})
          IN  [n \in DOMAIN ids |-> ProgramOf[ids[n]]]]
    /\ pdas' = [g \in Program |->
          IF \A i \in Indexer : ProgramOf[i] # g THEN {}
          ELSE LET last == CHOOSE i \in Indexer : ProgramOf[i] = g
               IN  {p \in Pda : <<last, p>> \in db}]
    /\ deaf' = {s \in Socket : sock[s] = "open"}
    /\ loaded' = db
    /\ UNCHANGED <<rows, sock, counterMap, idMap, node, jobs, bounds>>

\* getAllProgramWithPda returns: the maps are filled, one entry per indexer in
\* programsClusterMap, and the handlers assigned.
LoadPrograms ==
    /\ phase = "loading"
    /\ phase' = "ready"
    /\ programs' = [c \in Cluster |->
          LET ids == SetToSeq({i \in Indexer : ClusterOf[i] = c})
          IN  [n \in DOMAIN ids |-> ProgramOf[ids[n]]]]
    /\ pdas' = [g \in Program |-> {p \in Pda : \E i \in Indexer :
                                      ProgramOf[i] = g /\ <<i, p>> \in db}]
    /\ deaf' = {s \in Socket : sock[s] = "open"}
    /\ loaded' = db
    /\ UNCHANGED <<rows, sock, counterMap, idMap, node, jobs, bounds>>
-----------------------------------------------------------------------------
(* accountSubscribe, for a list of accounts, on the cluster's first socket. *)

SocketsOf(c) == {s \in Socket : SocketCluster[s] = c}
First(c)     == CHOOSE s \in SocketsOf(c) : \A r \in SocketsOf(c) : s <= r

\* ws throws when a socket is not open yet, and drops the data when it is no
\* longer open; a dropped request still takes a number.
Throws(c) == SocketsOf(c) # {} /\ sock'[First(c)] = "connecting"

\* Mutant: the counter is incremented before the request is sent.
AccountSubscribeCountedFirst(c, list) ==
    IF SocketsOf(c) = {} \/ Throws(c)
    THEN UNCHANGED <<counterMap, reqs>>
    ELSE /\ counterMap' = counterMap \o list
         /\ reqs' = IF sock'[First(c)] = "open"
                    THEN [reqs EXCEPT ![First(c)] = @ \cup
                            {[id |-> Len(counterMap) + n + 1, pda |-> list[n]] : n \in DOMAIN list}]
                    ELSE reqs

AccountSubscribe(c, list) ==
    IF SocketsOf(c) = {} \/ Throws(c)
    THEN UNCHANGED <<counterMap, reqs>>
    ELSE /\ counterMap' = counterMap \o list
         /\ reqs' = IF sock'[First(c)] = "open"
                    THEN [reqs EXCEPT ![First(c)] = @ \cup
                            {[id |-> Len(counterMap) + n, pda |-> list[n]] : n \in DOMAIN list}]
                    ELSE reqs

\* programSubscribeAccount goes through every account of every listed program.
AllAccounts(c) ==
    LET turns == {x \in (1 .. Len(programs[c])) \X Pda : x[2] \in pdas[programs[c][x[1]]]}
        order == SetToSeq(turns)
    IN  [n \in DOMAIN order |-> order[n][2]]
-----------------------------------------------------------------------------
(* Sockets.                                                                *)

\* A socket opens before onopen is assigned: nothing hears it.
OpenUnheard(s) ==
    /\ phase = "loading" /\ sock[s] = "connecting"
    /\ sock' = [sock EXCEPT ![s] = "open"]
    /\ UNCHANGED <<rows, phase, memory, node, jobs, ghosts, bounds>>

\* Mutant: onopen does not subscribe.
OpenOnly(s) ==
    /\ phase = "ready" /\ sock[s] = "connecting"
    /\ sock' = [sock EXCEPT ![s] = "open"]
    /\ UNCHANGED <<rows, phase, memory, node, jobs, ghosts, bounds>>

\* onopen subscribes the cluster's accounts.
Open(s) ==
    LET c == SocketCluster[s] IN
    /\ phase = "ready" /\ sock[s] = "connecting"
    /\ sock' = [sock EXCEPT ![s] = "open"]
    /\ AllAccounts(c) # <<>> => ~ Throws(c)
    /\ AccountSubscribe(c, AllAccounts(c))
    /\ UNCHANGED <<rows, phase, programs, pdas, idMap, subs, wire, jobs, ghosts, bounds>>

\* onopen of a later socket finds the first still connecting: the rejection of
\* programSubscribeAccount is nobody's, and the process goes down.
OpenTooEarly(s) ==
    LET c == SocketCluster[s] IN
    /\ phase = "ready" /\ sock[s] = "connecting"
    /\ s # First(c) /\ sock[First(c)] = "connecting" /\ AllAccounts(c) # <<>>
    /\ Crash

\* The node closes the socket; nothing opens it again.  The service still maps
\* the ids of its subscriptions.
Close(s) ==
    /\ sock[s] = "open"
    /\ sock' = [sock EXCEPT ![s] = "closed"]
    /\ reqs' = [reqs EXCEPT ![s] = {}]
    /\ wire' = [wire EXCEPT ![s] = <<>>]
    /\ UNCHANGED <<rows, phase, memory, subs, jobs, ghosts, bounds>>
-----------------------------------------------------------------------------
(* Registration, whose transaction emits INDEXER_TRIGGER_CREATED before it *)
(* commits; the handler runs inside emit.                                  *)

RegisterTrigger(i, p) ==
    LET c == ClusterOf[i]
        g == ProgramOf[i]
        listed == \E n \in DOMAIN programs[c] : programs[c][n] = g
    IN
    /\ phase = "ready" /\ <<i, p>> \notin db \cup pending
    /\ pending' = pending \cup {<<i, p>>}
    /\ programs' = IF listed THEN programs
                   ELSE [programs EXCEPT ![c] = Append(@, g)]
    /\ pdas' = [pdas EXCEPT ![g] = @ \cup {p}]
    /\ UNCHANGED sock
    /\ IF p \in pdas[g] THEN UNCHANGED <<counterMap, reqs>>
       ELSE AccountSubscribe(c, <<p>>)
    /\ UNCHANGED <<db, phase, idMap, subs, wire, jobs, ghosts, bounds>>

Commit(r) ==
    /\ r \in pending
    /\ pending' = pending \ {r}
    /\ db' = db \cup {r}
    /\ UNCHANGED <<phase, sock, memory, node, jobs, ghosts, bounds>>

Rollback(r) ==
    /\ r \in pending
    /\ pending' = pending \ {r}
    /\ UNCHANGED <<db, phase, sock, memory, node, jobs, ghosts, bounds>>

\* Deleting a trigger does not reach the listener.
DeleteTrigger(r) ==
    /\ phase = "ready" /\ r \in db
    /\ db' = db \ {r}
    /\ UNCHANGED <<pending, phase, sock, memory, node, jobs, ghosts, bounds>>
-----------------------------------------------------------------------------
(* The node: each chooses its subscription ids for itself.                 *)

Subscribe(s, m, u) ==
    /\ m \in reqs[s] /\ subs[s][u] = None
    /\ reqs' = [reqs EXCEPT ![s] = @ \ {m}]
    /\ subs' = [subs EXCEPT ![s][u] = m.pda]
    /\ wire' = [wire EXCEPT ![s] =
          Append(@, [kind |-> "result", id |-> m.id, sub |-> u, pda |-> None])]
    /\ UNCHANGED <<rows, phase, sock, memory, jobs, ghosts, bounds>>

\* An account changes: one notification for each subscription to it.
AccountChange(s, p) ==
    LET ids == SetToSeq({u \in SubId : subs[s][u] = p}) IN
    /\ sock[s] = "open" /\ ids # <<>> /\ changes < MaxChanges
    /\ changes' = changes + 1
    /\ wire' = [wire EXCEPT ![s] = @ \o
          [n \in DOMAIN ids |->
             [kind |-> "accountNotification", id |-> 0, sub |-> ids[n], pda |-> p]]]
    /\ UNCHANGED <<rows, phase, sock, memory, reqs, subs, jobs, ghosts, crashes>>
-----------------------------------------------------------------------------
(* onmessage.                                                              *)

Received(s, kind) == wire[s] # <<>> /\ Head(wire[s]).kind = kind

OnResult(s) ==
    /\ Received(s, "result")
    /\ idMap' = [idMap EXCEPT ![Head(wire[s]).sub] = counterMap[Head(wire[s]).id]]
    /\ wire' = [wire EXCEPT ![s] = Tail(@)]
    /\ UNCHANGED <<rows, phase, sock, programs, pdas, counterMap, reqs, subs, jobs, ghosts, bounds>>

\* The job is for the account that the subscription id is mapped to, if any.
OnNotification(s) ==
    LET p == idMap[Head(wire[s]).sub] IN
    /\ Received(s, "accountNotification")
    /\ jobs' = jobs \cup ({p} \ {None})
    /\ wire' = [wire EXCEPT ![s] = Tail(@)]
    /\ UNCHANGED <<rows, phase, sock, memory, reqs, subs, ghosts, bounds>>

\* The sweep of the account is over: see module SyncPipeline.
JobRemoved(p) ==
    /\ p \in jobs
    /\ jobs' = jobs \ {p}
    /\ UNCHANGED <<rows, phase, sock, memory, node, ghosts, bounds>>
-----------------------------------------------------------------------------
Opens(s) == OpenUnheard(s) \/ Open(s) \/ OpenTooEarly(s)
Serves(s) == \E m \in reqs[s], u \in SubId : Subscribe(s, m, u)
OnMessage(s) == OnResult(s) \/ OnNotification(s)

Next ==
    \/ ConnectAll \/ LoadPrograms \/ Crash
    \/ \E s \in Socket : Opens(s) \/ Close(s) \/ Serves(s) \/ OnMessage(s)
    \/ \E s \in Socket, p \in Pda : AccountChange(s, p)
    \/ \E i \in Indexer, p \in Pda : RegisterTrigger(i, p)
    \/ \E r \in pending : Commit(r) \/ Rollback(r)
    \/ \E r \in db : DeleteTrigger(r)
    \/ \E p \in Pda : JobRemoved(p)

Spec == Init /\ [][Next]_vars

\* The process starts, its sockets open, the node answers, messages are read.
FairSpec ==
    /\ Spec
    /\ WF_vars(ConnectAll) /\ WF_vars(LoadPrograms)
    /\ \A s \in Socket : WF_vars(Opens(s)) /\ WF_vars(Serves(s)) /\ WF_vars(OnMessage(s))
-----------------------------------------------------------------------------
(* Properties.                                                             *)

\* The node has been asked, or is being asked, for notifications of p.
Asked(s, p) ==
    \/ \E m \in reqs[s] : m.pda = p
    \/ \E u \in SubId : subs[s][u] = p

\* The first socket of c will be asked when it opens, or cannot be.
Excused(c) == SocketsOf(c) = {} \/ sock[First(c)] \in {"connecting", "closed"}

Reached(c, p) == Excused(c) \/ First(c) \in deaf \/ Asked(First(c), p)

\* The account of every trigger is subscribed on its cluster, whether the
\* trigger was there at the start, was registered while the sockets were still
\* connecting, or is not even committed yet; unless the socket is gone or its
\* open event came before onopen was assigned.  Memory keeps accounts by
\* program: one that was registered later may be subscribed on the cluster of
\* another indexer of the program instead.
EveryPdaAsked ==
    phase = "ready" =>
        \A r \in db \cup pending :
            LET c == ClusterOf[r[1]] IN
            \/ Reached(c, r[2])
            \/ /\ r \notin loaded
               /\ \E i \in Indexer : /\ ProgramOf[i] = ProgramOf[r[1]]
                                     /\ ClusterOf[i] # c
                                     /\ Reached(ClusterOf[i], r[2])

\* "Map subcription id to pda": a notification is taken for the account that
\* changed.  It is not, when two nodes give out the same id.
RightAccount ==
    [][\A s \in Socket : OnNotification(s) =>
          idMap[Head(wire[s]).sub] = Head(wire[s]).pda]_vars

\* A notification is taken for the account that changed, and none comes before
\* the answer that says whose it is, unless another node gave out its id too.
RightUnlessShared ==
    [][\A s \in Socket : OnNotification(s) =>
          \/ idMap[Head(wire[s]).sub] = Head(wire[s]).pda
          \/ \E t \in Socket \ {s} : subs[t][Head(wire[s]).sub] # None]_vars

\* The node of c notifies of p with an id that the service knows, or that another
\* node gave out too.
Heard(c, p) ==
    \E u \in SubId :
        /\ subs[First(c)][u] = p
        /\ idMap[u] = p \/ \E t \in Socket \ {First(c)} : subs[t][u] # None

Served(c, p) ==
    SocketsOf(c) = {} \/ sock[First(c)] = "closed" \/ First(c) \in deaf \/ Heard(c, p)

\* A trigger that stays ends up heard, for as long as the socket is open, whatever
\* order the sockets open in, also when that takes the process down: its account
\* has a subscription with an id of its own that the service knows.  Registered
\* since the start, it may be heard on the cluster of another indexer of the
\* program instead.
EveryTriggerHeard ==
    \A i \in Indexer, p \in Pda :
        <<i, p>> \in db ~>
            \/ <<i, p>> \notin db
            \/ Served(ClusterOf[i], p)
            \/ /\ phase = "ready" /\ <<i, p>> \notin loaded
               /\ \E j \in Indexer : ProgramOf[j] = ProgramOf[i] /\ Served(ClusterOf[j], p)
=============================================================================
