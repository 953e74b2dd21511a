CONSTANTS
    w1 = w1  w2 = w2  shared = shared  r1 = r1  r2 = r2
    poll = poll  nap = nap  done = done
    NoStep = NoStep  NoWorker = NoWorker  NoRun = NoRun
    Runs = {r1}
    Workers = {w1, w2}
    WorkerIds = {w1, w2}
    IdOf <- DistinctIds
    Steps <- PollSteps
    StartAt = poll
    Kind <- PollKind
    Transitions <- PollTransitions
    RollSteps = {}
    SpendSteps <- PollTasks
    MaxAttempts <- TwoAttempts
    FatalSteps <- PollTasks
    MaxClaims = 4
    SlowClaims = 4
    MaxFaults = 1
    MaxRetries = 1
SPECIFICATION Spec
INVARIANT TypeOK
INVARIANT LeasedRunsAreRunning
INVARIANT OnlyLatestClaimCommits
INVARIANT OneCompletionPerVisit
INVARIANT RetryBudget
PROPERTY FinalRowsStay
PROPERTY AttemptsSettleOnce
PROPERTY ImplementsDurableRun
CHECK_DEADLOCK FALSE
