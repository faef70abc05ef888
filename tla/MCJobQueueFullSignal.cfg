SPECIFICATION PlainSpec
CONSTANTS
    Jobs = {j1, j2}
    urgent = j1
    Priority <- MCPriority
    Deferred = {}
    MaxRetries = 0
    Workers = {w1}
    QueueSize = 1
    MaxPauses = 0
    NoJob = NoJob
PROPERTIES
    AcceptedJobsEnd
CHECK_DEADLOCK FALSE
