CONSTANTS
    s1 = s1
    c1 = c1
    Peers = {p1, p2}
    Sources = {s1}
    Locators = {l1, l2}
    Capacity = 1
    PerSource = 1
    Grace = 2
    NoSource = NoSource
    SourceOf <- MCSourceOf
    Conns = {c1, c2}
    RosterCapacity = 1
    Kinds = {"allocate", "release"}
    Readers = 1
SPECIFICATION SvcSpec
INVARIANTS
    IndexesAgree
    RejectionDrains
PROPERTIES
    LocatorHeldUntilReleaseOrGrace
    StaleCallsChangeNothing
    ExchangesEnd
CHECK_DEADLOCK FALSE
