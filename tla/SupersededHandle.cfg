SPECIFICATION Spec
CONSTANTS
    work = work
    dead = dead
    none = none
    Names = {work, dead}
    NoQueue = none
    Retentions <- JustTwo
    Default = 2
    Policies <- Straight
    MayDelete <- None
    Timeouts <- ZeroOne
    Delays <- Zero
    Limits <- JustOne
    NameHold = 1
    MaxTime = 2
    MaxCopies = 2
    MaxReceives = 2
CHECK_DEADLOCK FALSE
PROPERTIES SupersededHandlesDoNothing
