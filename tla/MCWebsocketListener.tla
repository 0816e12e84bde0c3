------------------------ MODULE MCWebsocketListener ------------------------
(***************************************************************************)
(* Instances of WebsocketListener for TLC: clusters, sockets and indexers. *)
(***************************************************************************)
EXTENDS WebsocketListener, TLC

CONSTANTS i1, i2, g1, main, dev, a, b

\* Two indexers of one program, each on a cluster of its own.
SameProgram == (i1 :> g1) @@ (i2 :> g1)
OwnCluster  == (i1 :> main) @@ (i2 :> dev)

SocketEach   == (1 :> main) @@ (2 :> dev)
ThreeSockets == (1 :> main) @@ (2 :> main) @@ (3 :> dev)
=============================================================================
