SPECIFICATION Spec
CONSTANTS
    i1 = i1
    i2 = i2
    g1 = g1
    main = main
    dev = dev
    a = a
    b = b
    None = None
    Indexer = {i1, i2}
    Program = {g1}
    Cluster = {main, dev}
    Pda = {a, b}
    ProgramOf <- SameProgram
    ClusterOf <- OwnCluster
    Socket = {1, 2}
    SocketCluster <- SocketEach
    SubId = {0, 1}
    MaxCrashes = 0
    MaxChanges = 1
PROPERTIES RightAccount
