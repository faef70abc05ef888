SPECIFICATION MCSpec
CONSTANTS
    Jobs = {j1, j2}
    urgent = j1
    Priority <- MCPriority
    Deferred = {j2}
    MaxRetries = 1
    Workers = {w1, w2}
    QueueSize = 2
    MaxPauses = 0
    NoJob = NoJob
INVARIANTS
    OnePlace
    TokensCoverReadyJobs
    QuietAfterStop
PROPERTIES
    ImplementsBoard
    UnpausedQueueDelivers
CHECK_DEADLOCK FALSE
