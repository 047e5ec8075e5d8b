CONSTANTS
    Tenants = {t1}
    Tenders = {d1}
    Users = {u1, u2, u3}
    Levels = {"view"}
    NoExpiry = NoExpiry
    NoAccess = NoAccess
    NoLimit = NoLimit
    Idle = Idle
    Windows <- MCWindows
    DefaultLimit = 1
    MaxLimit = 2
    TxTime = 1
    MaxTime = 3
    MaxRows = 3
SPECIFICATION Spec
SYMMETRY MCSymmetry
INVARIANTS
    LTypeOK
    QuietPagingComplete
CHECK_DEADLOCK FALSE
