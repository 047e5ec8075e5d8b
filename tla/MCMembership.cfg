\* A user leaves, comes back and leaves again.
SPECIFICATION MSpec
CONSTANTS
    t1 = t1
    d1 = d1
    u1 = u1
    w1 = w1
    w2 = w2
    Tenants = {t1}
    Tenders = {d1}
    Users = {u1}
    Levels = {"view"}
    NoExpiry = NoExpiry
    NoAccess = NoAccess
    Malformed = Malformed
    EventIds = {"e1", "e2", "e3"}
    Envelopes <- LeavesTwiceOrPurged
    MaxReceive = 2
    MaxAttempts = 2
    Lifetime = 1
    Retention = 1
    MaxTime = 0
    MaxRows = 2
    MaxSent = 2
    Workers = {w1, w2}
SYMMETRY Symmetry
INVARIANTS MTypeOK OnlyOverdueOrphans QuietGrantsStay
CHECK_DEADLOCK FALSE
