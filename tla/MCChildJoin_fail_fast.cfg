CONSTANTS
    w1 = w1  w2 = w2  join = join  after = after
    NoStep = NoStep  NoWorker = NoWorker
    Steps = {join, after}
    Join = join
    After = after
    Kind = "fanOut"
    Width = 2
    Quorum = 2
    FailFast = TRUE
    HasTimeout = FALSE
    MaxSlow = 0
    MaxFaults = 0
    MaxRetries = 0
    WorkerIds = {w1, w2}
SPECIFICATION LiveSpec
PROPERTY FailFastEndsTheJoin
CHECK_DEADLOCK FALSE
