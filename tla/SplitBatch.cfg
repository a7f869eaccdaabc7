SPECIFICATION Spec
CONSTANTS
    Settings <- Splitting
    DefaultAttemptLimit = 1
    LongestWait = 2
    CascadeLimit = 2
    Polls = {1}
    MaxRecords = 4
    LastWrite = 1
    MaxTime = 2
CHECK_DEADLOCK FALSE
INVARIANT HalvesCarryOnlyTheSplitBatch
