SPECIFICATION UiSpec
CONSTANTS
    Chunks <- Typing
    MaxChunks = 6
    MaxOutput = 3
    MaxLine = 2
    DelayedCap = 1
    Audited = TRUE
    OtherOwners = TRUE
INVARIANT DisplayInOrder
CHECK_DEADLOCK FALSE
