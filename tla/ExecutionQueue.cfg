SPECIFICATION QueueSpec
CONSTANTS
    Jobs = {j1}
    Workers = {w1, w2}
    NoWorker = null
    MaxAttempts = 2
    MaxGeneration = 5
    Backend = "memory"
PROPERTY TerminalIsFinal
PROPERTY CommitIsIrrevocable
CHECK_DEADLOCK FALSE
