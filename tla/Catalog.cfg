SPECIFICATION Spec
CONSTANTS
    r1 = r1  r2 = r2  alice = alice  bob = bob
    T = T  t = t  U = U
    Request = {r1, r2}
    Account = {alice}
    Indexer = {1, 2}
    Slug = {"s"}
    Name = {T, t, U}
    FullName <- FoldedName
    MaxIds = 3
SYMMETRY Symmetry
CHECK_DEADLOCK FALSE
INVARIANTS TypeOK References InStep
