CONSTANTS
    w1 = w1  w2 = w2  shared = shared  r1 = r1  r2 = r2
    poll = poll  nap = nap  done = done
    NoStep = NoStep  NoWorker = NoWorker  NoRun = NoRun
    Runs = {r1, r2}
    Workers = {w1, w2}
    WorkerIds = {shared}
    IdOf <- SharedIds
    Steps <- PollSteps
    StartAt = poll
    Kind <- PollKind
    Transitions <- LineTransitions
    RollSteps <- PollTasks
    SpendSteps = {}
    MaxAttempts <- TwoAttempts
    FatalSteps = {}
    MaxClaims = 2
    SlowClaims = 2
    MaxFaults = 1
    MaxRetries = 1
SPECIFICATION Spec
SYMMETRY Symmetry
INVARIANT ChainOfSuccessors
PROPERTY ImplementsDurableRun
CHECK_DEADLOCK FALSE
