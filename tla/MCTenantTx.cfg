\* Four calls of three callers on two connections.
SPECIFICATION Spec
CONSTANTS
    t1 = t1
    t2 = t2
    k1 = k1
    k2 = k2
    c1 = c1
    c2 = c2
    c3 = c3
    Tenants = {t1, t2}
    Conns = {k1, k2}
    Callers = {c1, c2, c3}
    Nobody = Nobody
    NoConn = NoConn
    NoTenant = NoTenant
    MaxAttempts = 2
    MaxCalls = 4
SYMMETRY Symmetry
INVARIANTS TxTypeOK SettingIsOwn MarkedMeansPurged EveryAckCounted NobodyStuck
CHECK_DEADLOCK FALSE
