SPECIFICATION FairSpec
CONSTANTS
    i1 = i1
    i2 = i2
    g1 = g1
    main = main
    dev = dev
    a = a
    b = b
    None = None
    Indexer = {i1, i2}
    Program = {g1}
    Cluster = {main, dev}
    Pda = {a}
    ProgramOf <- SameProgram
    ClusterOf <- OwnCluster
    Socket = {1, 2, 3}
    SocketCluster <- ThreeSockets
    SubId = {0}
    MaxCrashes = 1
    MaxChanges = 1
INVARIANTS TypeOK EveryPdaAsked
PROPERTIES EveryTriggerHeard
