SPECIFICATION FairLoopSpec
CONSTANTS
    Runners = {r1, r2}
    WorkerOf <- OwnNames
    RunCalls = {}
    Adapters = {}
    Execs = {e1}
    MaxEvents = 2
    MaxStarts = 2
INVARIANT AcknowledgedWasSeen
INVARIANT OneRunsOneWaits
PROPERTY StaleOwnerIsFenced
PROPERTY InputsAreSeen
CHECK_DEADLOCK FALSE
