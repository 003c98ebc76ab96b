SPECIFICATION Spec
CONSTANTS
    u1 = u1
    u2 = u2
    u3 = u3
    f1 = f1
    f2 = f2
    k1 = k1
    k2 = k2
    k3 = k3
    k4 = k4
    k5 = k5
    None = none
    User <- ThreeUsers
    Filler <- TwoFillers
    Conn <- FiveConns
    IsEager = TRUE
    InitSize = 2
    MaxSize = 3
    MayTimeout = TRUE
    MaxCalls = 3
    MaxFailures = 1
CHECK_DEADLOCK FALSE
SYMMETRY PoolSymmetry
INVARIANTS
    TypeOK
    RefCount
    PoolOutlivesUse
    SingleOwner
    NoStrandedConnection
    WarmupFills
    IInv
PROPERTIES
    PermitsNeverLeak
    LendsExclusively
