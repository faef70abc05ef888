SPECIFICATION MCSpec
CONSTANTS
    Threads = {t1, t2, t3}
    Keys = {k1, k2}
    Entries = {e1, e2, e3}
    None = None
    MaxTasks = 2
    MaxTime = 1
    TimerIds = {i1}
    ChanSize = 2
    MaxAdds = 2
    MaxClock = 2
    Workers = {w1, w2}
    QueueSize = 1
    MaxPauses = 1
    Total = 3
    Delay = TRUE
    Capacity = 3
    Costs = {1, 2}
    NNodes = 3
    MaxParallel = 2
    Publishers = {p1, p2, p3}
    BufSize = 2
    MaxValues = 4
    InputQueue = 1
    CallQueue = 2
    MaxEmptyTicks = 2
    MaxSize = 3
    Owners = {o1}
    TxIds = {x1}
    Half = 4
    MaxLedgers = 2
    Cap = 1
    ScaleThreshold = 1
    Buffer = 1
    Size = 2
    MaxBatch = 2
    Limits = {0, 2}
INVARIANTS
    MutualExclusion
    NoLeak
    RevokedNeverFires
    StopIsClean
    ResultsAreRight
    MessagesArrive
    AccountsAddUp
PROPERTIES
    NobodyWaitsForever
CHECK_DEADLOCK FALSE
