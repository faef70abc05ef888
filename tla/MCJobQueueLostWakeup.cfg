SPECIFICATION PlainSpec
CONSTANTS
    Jobs = {j1}
    urgent = j1
    Priority <- MCPriority
    Deferred = {}
    MaxRetries = 0
    Workers = {w1}
    QueueSize = 1
    MaxPauses = 1
    NoJob = NoJob
PROPERTIES
    StopCompletes
CHECK_DEADLOCK FALSE
