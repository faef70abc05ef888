SPECIFICATION MCSpec
CONSTANTS
    Runs = {r1, r2}
    None = None
    NParts = 2
    EarlyHooks = TRUE
    Panics = TRUE
    NSteps = 4
    MaxCrashes = 2
    Compensable = {1, 3, 4}
    CompRetries = 1
    HasConfirm = {1, 3, 4}
    HasCancel = {1, 2, 3, 4}
    ConfirmRetries = 1
    CancelRetries = 2
    Jobs = {j1}
    Procs = {p1, p2}
    Loops = {p1}
    MaxRetries = 0
    MaxStops = 1
    Callers = {c1, c2, c3}
    MaxErrors = 1
    MaxExpiries = 1
    Instances = {i1}
    MaxFaults = 2
    Clients = {c1}
    Getters = {c2}
    Addrs = {a1, a2}
    Retries = 1
    MaxEvents = 1
    MaxPosts = 2
    MaxOps = 2
    MaxMoves = 2
INVARIANTS
    StatusIsHonest
    NothingOutOfTurn
    AllOrNothing
    NothingIsLost
    StoreAgrees
PROPERTIES
    ReverseOrder
    TccConfirmNeedsAll
    AllSettle
    DiscoveryConverges
CHECK_DEADLOCK FALSE
