SPECIFICATION FairWalksSpec
CONSTANTS
    a = a
    b = b
    t = t
    u = u
    Jobs = {a, b}
    Tests = {t}
    BaseAdvances = FALSE
    MaxBase = 0
    Instants <- Three
    MayFail = {b}
    MayPark = {a, b}
    Racers = {}
    TaskDelays <- Later
    ParkDelays <- Soon
    MaxPushes = 3
    MayAsk = {a}
    MaySwitch = {}
CHECK_DEADLOCK FALSE
INVARIANTS TypeOK EveryWaitIsQueued
PROPERTIES OwedHappens NothingCanMove FailuresSurfaceUnlessParked CallsReturn
