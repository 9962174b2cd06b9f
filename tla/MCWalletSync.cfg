SPECIFICATION Spec
CONSTANTS
    Ops = {o1, o2}
    Wallets = {w1, w2}
    ChainSets = {c1, c2}
    Permits = {p1, p2}
    MaxActive = 1
    MaxPermits = 1
    NoLock = NoLock
    NoState = NoState
SYMMETRY OpSymmetry
CHECK_DEADLOCK FALSE
INVARIANTS
    HoldsItsLock
    StaysDeleted
    OwnershipKept
    QuotaHeld
    ChainsAgree
PROPERTIES
    PermitsKept
