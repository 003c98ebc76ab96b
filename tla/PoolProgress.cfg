SPECIFICATION FairSpec
CONSTANTS
    u1 = u1
    u2 = u2
    u3 = u3
    f1 = f1
    f2 = f2
    k1 = k1
    k2 = k2
    k3 = k3
    k4 = k4
    k5 = k5
    None = none
    User <- TwoUsers
    Filler <- OneFiller
    Conn <- FourConns
    IsEager = TRUE
    InitSize = 1
    MaxSize = 1
    MayTimeout = FALSE
    MaxCalls = 4
    MaxFailures = 1
CHECK_DEADLOCK FALSE
PROPERTIES
    AcquireServed
    WarmupCompletes
