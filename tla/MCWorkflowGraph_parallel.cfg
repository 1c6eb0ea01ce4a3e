SPECIFICATION GraphSpec
CONSTANTS
    Keys = {a, b, c, d}
    Workers = {w1, w2}
    NoWorker = nobody
    MaxCrashes = 2
    MaxStalls = 0
    MaxRows = 5
    a = a
    b = b
    c = c
    d = d
    w1 = w1
    w2 = w2
    Definitions <- ParallelDefinitions
INVARIANT EndedRunIsSettled
CHECK_DEADLOCK FALSE
