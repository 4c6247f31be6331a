SPECIFICATION FtSpec
CONSTANTS
    Sessions <- ThreeSessions
    MaxBlocks = 2
    MaxFaults = 2
    MaxQueue = 1
INVARIANT
    PublishedIsWhole
PROPERTIES
    DeliverySpec
    HonestPeersAgree
    TransferEnds
CHECK_DEADLOCK FALSE
