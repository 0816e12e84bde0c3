SPECIFICATION Spec
CONSTANTS
    r1 = r1  r2 = r2  r3 = r3
    w1 = w1  e1 = e1  n1 = n1  none = none
    Request = {r1, r2, r3}
    Wallet = {w1}
    Email = {e1}
    UserName = {e1, n1}
    None = none
    Blank = blank  blank = blank
    MaxNonces = 3
    MaxIds = 3
SYMMETRY Symmetry
CHECK_DEADLOCK FALSE
INVARIANTS TypeOK NonceSpent NoLaterTwin OneFreshAccountPerEmail
