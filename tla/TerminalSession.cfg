SPECIFICATION Spec
CONSTANTS
    Controller = "controller"
    Host = "host"
    BlockLen = 2
    Scenarios <- ThreeScenarios
    MaxFaults = 1
INVARIANTS
    NoSpuriousMismatch
    AppendBeforeEffect
    ExitCodeIsJoint
PROPERTIES
    JointRecordSpec
    SettledCloseFinishes
    SessionsEnd
CHECK_DEADLOCK FALSE
