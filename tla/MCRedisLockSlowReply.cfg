SPECIFICATION MCSpec
CONSTANTS
    Candidates = {a, b}
    Lockers = {}
    locker = b
    TTL = 6
    ReplyDelay = 2
    MaxSessions = 1
    None = None
INVARIANTS
    AtMostOneLeader
CHECK_DEADLOCK FALSE
