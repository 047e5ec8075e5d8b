CONSTANTS
    Requests = {r1}
    Idle = Idle
    RequestTimeout = 3
    ShutdownTimeout = 1
    DrainTimeout = 3
SPECIFICATION FairSpec
INVARIANTS
    LcTypeOK
    PoolOutlivesConnections
    OnlySlowRequestsCutOff
    NoWorkBehindGroup
    NothingLeftOpen
    CleanExitOnSignal
PROPERTY
    StopsAsAWhole
CHECK_DEADLOCK FALSE
