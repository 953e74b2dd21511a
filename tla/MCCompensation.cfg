CONSTANTS
    w1 = w1  w2 = w2  operator = operator
    NoStep = 0  NoWorker = NoWorker
    Steps = {1, 2, 3, 4}
    Length = 4
    Handlers = {1, 2}
    WaitSteps = {3}
    WorkerIds = {w1, w2}
    Operators = {operator}
    MaxAttempts = 2
    Expires = TRUE
    Exhausts = TRUE
    MaxFaults = 1
    MaxRetries = 1
    MaxWalks = 2
SPECIFICATION Spec
SYMMETRY Symmetry
INVARIANT TypeOK
INVARIANT WalksInReverse
INVARIANT UndoneOnce
INVARIANT FailuresEscalate
INVARIANT NothingLeftBehind
CHECK_DEADLOCK FALSE
