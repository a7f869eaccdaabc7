SPECIFICATION Spec
CONSTANTS
    a = a
    b = b
    t = t
    u = u
    Jobs = {a, b}
    Tests = {t}
    BaseAdvances = FALSE
    MaxBase = 0
    Instants <- Three
    MayFail = {}
    MayPark = {}
    Racers = {}
    TaskDelays <- Zero
    ParkDelays <- One
    MaxPushes = 2
    MayAsk = {}
    MaySwitch = {}
CHECK_DEADLOCK FALSE
PROPERTIES NothingDueIsLeft
