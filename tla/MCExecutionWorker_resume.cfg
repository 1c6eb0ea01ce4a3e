SPECIFICATION WorkerSpec
CONSTANTS
    r1 = r1
    r2 = r2
    w1 = w1
    w2 = w2
    Jobs = {j1}
    Workers = {w1, w2}
    Runners = {r1, r2}
    WorkerOf <- OwnNames
    NoWorker = null
    MaxAttempts = 2
    MaxGeneration = 4
    Backend = "postgres"
INVARIANT ResumedFinalizationFinishes
CHECK_DEADLOCK FALSE
