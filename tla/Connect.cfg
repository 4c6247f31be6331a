SPECIFICATION Spec
CONSTANTS
    PeerCapacity = 8
    TransportCapacity = 2
    MaxConnections = 3
    MaxPings = 2
    MaxAccidents = 1
    Transports <- OneTransport
    RoundTrips <- Fast
    SelectionWindow = 2
    UpgradeWindow = 4
    LateWindow = 1
    SettleTimeout = 6
    RetryLimit = 1
    Access = "enterprise"
    Addresses <- ThreeAddresses
    TransportOf <- ThreeQuic
    RelayPings = 1
    Delays <- OneOrTwo
    DialWindow = 3
    TransportTimeout = 4
    DrainWindow = 1
INVARIANTS
    RouteMatchesAttempt
    CallLeavesNothing
PROPERTY ConnectEnds
CHECK_DEADLOCK FALSE
