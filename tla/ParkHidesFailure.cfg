SPECIFICATION Spec
CONSTANTS
    a = a
    b = b
    t = t
    u = u
    Jobs = {a, b}
    Tests = {t}
    BaseAdvances = FALSE
    MaxBase = 0
    Instants <- OneThree
    MayFail = {a}
    MayPark = {b}
    Racers = {}
    TaskDelays <- Later
    ParkDelays <- One
    MaxPushes = 2
    MayAsk = {}
    MaySwitch = {}
CHECK_DEADLOCK FALSE
PROPERTIES FailuresSurface
