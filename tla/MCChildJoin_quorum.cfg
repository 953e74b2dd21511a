CONSTANTS
    w1 = w1  w2 = w2  join = join  after = after
    NoStep = NoStep  NoWorker = NoWorker
    Steps = {join, after}
    Join = join
    After = after
    Kind = "fanOut"
    Width = 3
    Quorum = 2
    FailFast = FALSE
    HasTimeout = FALSE
    MaxSlow = 0
    MaxFaults = 1
    MaxRetries = 1
    WorkerIds = {w1, w2}
SPECIFICATION Spec
SYMMETRY Symmetry
INVARIANT JoinHolds
CHECK_DEADLOCK FALSE
