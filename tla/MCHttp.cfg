CONSTANTS
    t1 = t1
    t2 = t2
    u0 = u0
    Tenants <- MCTenants
    Tenders = {d1}
    Users = {u1}
    Levels = {"view"}
    NoExpiry = NoExpiry
    NoAccess = NoAccess
    Malformed = Malformed
    NoCaller = NoCaller
    NoLimit = NoLimit
    NoAnswer = NoAnswer
    RequiredRoles = {"tender_admin", "tenant_admin", "tenant_owner"}
    Calls <- MCCalls
    MaxTime = 1
    MaxRows = 3
SPECIFICATION Spec
INVARIANT
    HTypeOK
PROPERTIES
    SettledAnswers
    RefusedWroteNothing
    OutsidersGetNothing
CHECK_DEADLOCK FALSE
