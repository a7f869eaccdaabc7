SPECIFICATION PollerSpec
CONSTANTS
    work = work
    none = none
    Names = {work}
    NoQueue = none
    Retentions <- JustTwo
    Default = 2
    Policies <- Nowhere
    MayDelete <- Nobody
    Timeouts <- Zero
    Delays <- Zero
    Limits <- Nobody
    NameHold = 1
    MaxTime = 2
    MaxCopies = 1
    MaxReceives = 2
    Polled = work
    BatchSize = 1
    Polls = {1, 2}
    MaxTurns = 1
CHECK_DEADLOCK FALSE
PROPERTIES ComesBackOnTheClock
