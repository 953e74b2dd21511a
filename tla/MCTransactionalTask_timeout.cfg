CONSTANTS
    w1 = w1  w2 = w2  save = save  after = after
    NoStep = NoStep  NoWorker = NoWorker
    Steps = {save, after}
    Save = save
    After = after
    Budget = 2
    TimesOut = TRUE
    ClocksDiffer = FALSE
    Overspends = FALSE
    Swallows = FALSE
    MaxSlow = 0
    MaxFaults = 0
    MaxRetries = 0
    WorkerIds = {w1, w2}
SPECIFICATION Spec
SYMMETRY Symmetry
INVARIANT SameTransaction
CHECK_DEADLOCK FALSE
