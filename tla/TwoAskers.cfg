SPECIFICATION Spec
CONSTANTS
    a = a
    b = b
    t = t
    u = u
    Jobs = {a, b}
    Tests = {t}
    BaseAdvances = FALSE
    MaxBase = 0
    Instants <- OneThree
    MayFail = {}
    MayPark = {}
    Racers = {}
    TaskDelays <- Later
    ParkDelays <- One
    MaxPushes = 2
    MayAsk = {a, b}
    MaySwitch = {}
CHECK_DEADLOCK FALSE
INVARIANTS NoMutualWait
