\* One key, two concurrent requests, time: the cache races.
SPECIFICATION Spec
CONSTANTS
    t1 = t1
    d1 = d1
    u1 = u1
    c1 = c1
    c2 = c2
    Tenants = {t1}
    Tenders = {d1}
    Users = {u1}
    Levels = {"view"}
    Clients = {c1, c2}
    NoExpiry = NoExpiry
    NoAccess = NoAccess
    Absent = Absent
    TTL = 2
    Timeout = 2
    MaxTime = 4
    MaxRows = 2
    GrantExpiries = {2, NoExpiry}
SYMMETRY Symmetry
INVARIANTS TypeOK OneLiveRow VersionCountsDeletion AnswersFresh
PROPERTIES AuditTrailKept OnlyChangesOutdate ImplementsAccessTable
CHECK_DEADLOCK FALSE
