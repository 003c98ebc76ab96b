SPECIFICATION FairSpec
CONSTANTS
    r1 = r1
    r2 = r2
    r3 = r3
    r4 = r4
    none = none
    c1 = c1
    c2 = c2
    Request <- Requests4
    None = none
    Async <- Asyncs3
    Awaits <- Chain
    CbWorker <- TwoCbs
    Heartbeat = FALSE
    MayClose = TRUE
CHECK_DEADLOCK FALSE
PROPERTIES
    EveryRequestAnswered
    ShutdownCompletes
