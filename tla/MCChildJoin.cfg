CONSTANTS
    w1 = w1  w2 = w2  join = join  after = after
    NoStep = NoStep  NoWorker = NoWorker
    Steps = {join, after}
    Join = join
    After = after
    Kind = "fanOut"
    Width = 2
    Quorum = 1
    FailFast = TRUE
    HasTimeout = TRUE
    MaxSlow = 1
    MaxFaults = 1
    MaxRetries = 1
    WorkerIds = {w1, w2}
SPECIFICATION Spec
SYMMETRY Symmetry
INVARIANT TypeOK
INVARIANT JoinHolds
INVARIANT ChildrenStartOnce
CHECK_DEADLOCK FALSE
