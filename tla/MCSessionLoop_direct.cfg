SPECIFICATION LoopSpec
CONSTANTS
    Runners = {r1}
    WorkerOf <- OwnNames
    RunCalls = {c1}
    Adapters = {a1}
    Execs = {e1}
    MaxEvents = 2
    MaxStarts = 1
SYMMETRY Symmetry
INVARIANT HiddenResultStaysPending
PROPERTY CursorIsMonotone
CHECK_DEADLOCK FALSE
