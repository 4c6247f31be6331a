SPECIFICATION Spec
CONSTANTS
    BlockLen = 2
    Controller = c
    Host = h
    Scenarios <- SmallScenarios
INVARIANTS
    HonestRecordIntact
    ShellHasTwoRecords
    FinishedPairVerifies
    ConfirmationsNeverFarApart
CHECK_DEADLOCK FALSE
