SPECIFICATION FairSpec
CONSTANTS
    a = a
    b = b
    t = t
    u = u
    Jobs = {a, b}
    Tests = {t}
    BaseAdvances = TRUE
    MaxBase = 2
    Instants <- Four
    MayFail = {a}
    MayPark = {b}
    Racers = {}
    TaskDelays <- Later
    ParkDelays <- One
    MaxPushes = 3
    MayAsk = {}
    MaySwitch = {t}
CHECK_DEADLOCK FALSE
PROPERTIES HappensOnTime TimeMovesForward ThrowStopsTheClock WaitsForWhatCanMove RunningClockReleases SwitchingKeepsTheInstant AdvancesTellsTheTruth
