CONSTANTS
    w1 = w1  w2 = w2  shared = shared  r1 = r1  r2 = r2
    poll = poll  nap = nap  done = done
    NoStep = NoStep  NoWorker = NoWorker  NoRun = NoRun
    Runs = {r1}
    Workers = {w1, w2}
    WorkerIds = {w1, w2}
    IdOf <- DistinctIds
    Steps <- PollSteps
    StartAt = poll
    Kind <- PollKind
    Transitions <- LineTransitions
    RollSteps = {}
    SpendSteps = {}
    MaxAttempts <- TwoAttempts
    FatalSteps = {}
    MaxClaims = 9
    SlowClaims = 1
    MaxFaults = 2
    MaxRetries = 1
SPECIFICATION LiveSpec
PROPERTY EveryRunSettles
CHECK_DEADLOCK FALSE
