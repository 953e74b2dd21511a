CONSTANTS
    m1 = m1  m2 = m2  plain = plain  d1 = d1  d2 = d2  NoMessage = NoMessage
    s1 = s1  s2 = s2  unknown = unknown  p1 = p1  p2 = p2  NoSchedule = NoSchedule
    worker = worker  recovery = recovery  schedules = schedules  drain = drain
    calls = calls  tokens = tokens  c1 = c1  c2 = c2  c3 = c3
    e1 = e1  e2 = e2  k1 = k1  NoKey = NoKey  NoRunId = 0
    w1 = w1  w2 = w2  r1 = r1  poll = poll  nap = nap  done = done
    NoStep = NoStep  NoWorker = NoWorker  NoRun = NoRun
    \* Outbox
    Messages = {m1, m2, plain}
    Handled = {m1, m2}
    Drainers = {d1, d2}
    DrainLimit = 2
    MaxDrainSlow = 1
    MaxDrainFaults = 1
    \* Schedules
    ScheduleIds = {s1, unknown}
    Registered = {s1}
    Schedulers = {p1, p2}
    Skew <- SlowAndFast
    MaxSkew = 1
    FireLimit = 2
    LastTime = 2
    MaxOperations = 2
    MaxSetBacks = 1
    MaxFireFaults = 1
    \* ProcessLoops
    Worker = worker
    Timed <- StopsInOrder
    Unguarded = {drain}
    \* UsageBudget
    Offers <- CallsAndTokens
    Limit <- OneCall
    CostLimit = 2
    Recorders = {c1, c2}
    MaxUsages = 4
    MaxUsageFaults = 1
    \* EventStream
    Writers = {e1, e2}
    NotifiesInside = {e1}
    MaxStreamFaults = 1
    \* StartRun
    Keys = {k1}
    Clients = {c1, c2, c3}
    MaxNewRuns = 3
    MaxStartFaults = 2
    \* RunTrees
    RunIds <- FourRuns
    MaxRequests = 2
    MaxStarting = 1
    MaxTreeEvents = 1
    \* RunLifecycle
    Runs = {r1}
    Workers = {w1, w2}
    WorkerIds = {w1, w2}
    IdOf <- OwnIds
    Steps = {poll, nap, done}
    StartAt = poll
    Kind <- PollKind
    Transitions <- LineTransitions
    RollSteps = {}
    SpendSteps = {}
    FatalSteps = {}
    MaxAttempts <- TwoAttempts
    MaxClaims = 9
    SlowClaims = 1
    MaxFaults = 2
    MaxRetries = 1
SPECIFICATION Spec
INVARIANT OccurrencesStartOnce
CHECK_DEADLOCK FALSE
