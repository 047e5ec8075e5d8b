\* Redelivery, overlap, crashes and age: both cascades on the rows of one user.
SPECIFICATION Spec
CONSTANTS
    t1 = t1
    d1 = d1
    u1 = u1
    w1 = w1
    w2 = w2
    Tenants = {t1}
    Tenders = {d1}
    Users = {u1}
    Levels = {"view"}
    NoExpiry = NoExpiry
    NoAccess = NoAccess
    Malformed = Malformed
    EventIds = {"e1", "e2", "e3"}
    Envelopes <- BothCascades
    MaxReceive = 2
    MaxAttempts = 2
    Lifetime = 1
    Retention = 1
    MaxTime = 2
    MaxRows = 2
    MaxSent = 2
    Workers = {w1, w2}
SYMMETRY Symmetry
INVARIANTS TypeOK DoneMeansGone DeletedOnce NoLateReplay
PROPERTIES ImplementsAccessTable
CHECK_DEADLOCK FALSE
