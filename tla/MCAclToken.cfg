\* A version read from one row revokes a later one.
SPECIFICATION HealthySpec
CONSTANTS
    t1 = t1
    d1 = d1
    u1 = u1
    c1 = c1
    c2 = c2
    Tenants = {t1}
    Tenders = {d1}
    Users = {u1}
    Levels = {"view"}
    Clients = {c1, c2}
    NoExpiry = NoExpiry
    NoAccess = NoAccess
    Absent = Absent
    TTL = 2
    Timeout = 2
    MaxTime = 4
    MaxRows = 2
    GrantExpiries = {NoExpiry}
SYMMETRY Symmetry
PROPERTY RevokesWhatWasRead
CHECK_DEADLOCK FALSE
