CONSTANTS
    w1 = w1  w2 = w2  e1 = e1  e2 = e2  g1 = g1  g2 = g2
    gate = gate  ask = ask  agent = agent  done = done
    NoStep = NoStep  NoWorker = NoWorker  NoSignal = NoSignal
    WorkerIds = {w1, w2}
    Steps <- GateSteps
    StartAt = ask
    Kind <- GateKind
    Transitions <- GateTransitions
    TimeoutTo <- GateTimeouts
    FreshKeys = {}
    KeyOf <- GateKeys
    Expirers = {e1}
    Signals = {g1, g2}
    Awaits <- GateAwaits
    MaxWaits = 3
    MaxSlow = 1
    MaxFaults = 0
    MaxThrows = 1
    MaxRetries = 0
SPECIFICATION Spec
INVARIANT RaceClosedForGood
CHECK_DEADLOCK FALSE
