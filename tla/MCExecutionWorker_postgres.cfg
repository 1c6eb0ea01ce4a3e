SPECIFICATION WorkerSpec
CONSTANTS
    r1 = r1
    r2 = r2
    w1 = w1
    w2 = w2
    Jobs = {j1}
    Workers = {w1, w2}
    Runners = {r1, r2, r3}
    WorkerOf <- SameName
    NoWorker = null
    MaxAttempts = 3
    MaxGeneration = 6
    Backend = "postgres"
INVARIANT WorkerTypeOK
INVARIANT AtMostOneEffect
INVARIANT CanceledEventIsTrue
INVARIANT ResultIsNeverLost
INVARIANT VerdictIsBacked
PROPERTY ActionSpec
SYMMETRY Symmetry
CHECK_DEADLOCK FALSE
