CONSTANTS
    w1 = w1  w2 = w2  join = join  after = after
    NoStep = NoStep  NoWorker = NoWorker
    Steps = {join, after}
    Join = join
    After = after
    Kind = "child"
    Width = 1
    Quorum = 1
    FailFast = FALSE
    HasTimeout = FALSE
    MaxSlow = 0
    MaxFaults = 0
    MaxRetries = 0
    WorkerIds = {w1, w2}
SPECIFICATION LiveSpec
PROPERTY EveryJoinEnds
CHECK_DEADLOCK FALSE
