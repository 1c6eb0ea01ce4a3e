SPECIFICATION GraphSpec
CONSTANTS
    Keys = {a, b, c, d}
    Workers = {w1, w2}
    NoWorker = nobody
    MaxCrashes = 1
    MaxStalls = 1
    MaxRows = 5
    a = a
    b = b
    c = c
    d = d
    w1 = w1
    w2 = w2
    Definitions <- SharedDefinitions
INVARIANT GraphTypeOK
INVARIANT KeysAreReserved
INVARIANT DependenciesHold
INVARIANT FanOutIsCapped
INVARIANT EndedRunIsSettled
PROPERTY RunEndIsFinal
PROPERTY RunCompletes
CONSTRAINT StallsInPairs
CHECK_DEADLOCK FALSE
