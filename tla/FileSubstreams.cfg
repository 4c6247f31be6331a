SPECIFICATION Spec
CONSTANTS
    MaxStreams = 4
    Sessions <- ThreeSessions
INVARIANT RecordsInOrder
PROPERTIES
    SequentialNotRefused
    SubstreamsDrain
CHECK_DEADLOCK FALSE
