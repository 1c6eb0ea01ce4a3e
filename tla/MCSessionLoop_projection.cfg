SPECIFICATION LoopSpec
CONSTANTS
    Runners = {r1}
    WorkerOf <- OwnNames
    RunCalls = {}
    Adapters = {}
    Execs = {e1, e2}
    MaxEvents = 4
    MaxStarts = 1
SYMMETRY Symmetry
INVARIANT LoopTypeOK
INVARIANT NoInputLost
INVARIANT WindowsFollow
CHECK_DEADLOCK FALSE
