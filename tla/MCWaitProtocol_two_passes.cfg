CONSTANTS
    w1 = w1  w2 = w2  e1 = e1  e2 = e2  g1 = g1  g2 = g2
    gate = gate  ask = ask  agent = agent  done = done
    NoStep = NoStep  NoWorker = NoWorker  NoSignal = NoSignal
    WorkerIds = {w1}
    Steps <- GateSteps
    StartAt = agent
    Kind <- GateKind
    Transitions <- GateTransitions
    TimeoutTo <- GateTimeouts
    FreshKeys <- Agents
    KeyOf <- GateKeys
    Expirers = {e1, e2}
    Signals = {g1}
    Awaits <- GateAwaits
    MaxWaits = 3
    MaxSlow = 1
    MaxFaults = 0
    MaxThrows = 0
    MaxRetries = 1
SPECIFICATION Spec
INVARIANT WaitMovesRunOnce
CHECK_DEADLOCK FALSE
