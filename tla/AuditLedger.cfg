SPECIFICATION Spec
CONSTANTS
    Sessions = {s1, s2, s3}
    Visitor = visitor
    NoOne = none
    Faults = {"crash", "power", "disk", "drop"}
    MaxFaults = 1
    MaxAnchorSteps = 1
    MaxAnchorScan = 3
INVARIANTS
    NeverConflicts
    ReportedIsAnchored
PROPERTY
    PendingIsRecovered
CHECK_DEADLOCK FALSE
