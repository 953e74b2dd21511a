CONSTANTS
    w1 = w1  w2 = w2  save = save  after = after
    NoStep = NoStep  NoWorker = NoWorker
    Steps = {save, after}
    Save = save
    After = after
    Budget = 4
    TimesOut = TRUE
    ClocksDiffer = TRUE
    Overspends = TRUE
    Swallows = TRUE
    MaxSlow = 2
    MaxFaults = 2
    MaxRetries = 1
    WorkerIds = {w1, w2}
SPECIFICATION Spec
SYMMETRY Symmetry
INVARIANT TypeOK
INVARIANT EffectsMatchCompletions
INVARIANT CompletedWithItsWrite
PROPERTY NoEffectAfterTermination
CHECK_DEADLOCK FALSE
