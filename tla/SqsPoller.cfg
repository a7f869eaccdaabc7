SPECIFICATION PollerSpec
CONSTANTS
    work = work
    none = none
    Names = {work}
    NoQueue = none
    Retentions <- JustTwo
    Default = 2
    Policies <- Nowhere
    MayDelete <- Work
    Timeouts <- JustOne
    Delays <- ZeroOne
    Limits <- JustOne
    NameHold = 1
    MaxTime = 1
    MaxCopies = 2
    MaxReceives = 2
    Polled = work
    BatchSize = 1
    Polls = {1, 2}
    MaxTurns = 1
CHECK_DEADLOCK FALSE
INVARIANTS PollerTypeOK NeverAsleepOverMessages PolledWhenItComesBack StopLeavesNothingScheduled SettledMeansDelivered
