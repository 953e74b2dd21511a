CONSTANTS
    w1 = w1  w2 = w2  operator = operator
    NoStep = 0  NoWorker = NoWorker
    Steps = {1, 2, 3}
    Length = 3
    Handlers = {1}
    WaitSteps = {}
    WorkerIds = {w1}
    Operators = {operator}
    MaxAttempts = 2
    Expires = FALSE
    Exhausts = FALSE
    MaxFaults = 0
    MaxRetries = 0
    MaxWalks = 2
SPECIFICATION Spec
INVARIANT PolicyKept
CHECK_DEADLOCK FALSE
