SPECIFICATION MCSpec
CONSTANTS
    Candidates = {a, b}
    Lockers = {}
    locker = b
    TTL = 6
    ReplyDelay = 1
    MaxSessions = 1
    None = None
INVARIANTS
    LeaderHoldsKey
PROPERTIES
    DeadKeyExpires
CHECK_DEADLOCK FALSE
