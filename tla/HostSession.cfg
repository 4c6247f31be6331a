SPECIFICATION HostSpec
CONSTANTS
    k1 = k1
    k2 = k2
    k3 = k3
    p1 = p1
    p2 = p2
    Controllers = {p1, p2}
    Conns = {k1, k2, k3}
    Direct = {k2, k3}
    RosterCapacity = 2
    None = None
    MaxCode = 2
INVARIANTS
    AuthenticatesSettledConnection
PROPERTIES
    OneShotSpec
    AttemptsEnd
CHECK_DEADLOCK FALSE
