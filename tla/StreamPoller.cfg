SPECIFICATION Spec
CONSTANTS
    Settings <- EverySetting
    DefaultAttemptLimit = 1
    LongestWait = 1
    CascadeLimit = 2
    Polls = {1, 2}
    MaxRecords = 3
    LastWrite = 1
    MaxTime = 2
CHECK_DEADLOCK FALSE
INVARIANTS
    StreamTypeOK
    OneBatchAtATime
    PassesOnlyTheFinished
    NeverAsleepOverRecords
PROPERTIES
    SettlesWithoutTheClock
    EveryRecordFinishes
    DeliversInOrder
