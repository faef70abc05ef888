SPECIFICATION Spec
CONSTANTS
    Callers = {c1, c2}
    Guards = {}
    MayPanic = TRUE
    MaxForgets = 0
    None = None
INVARIANTS
    SharedIsReal
CHECK_DEADLOCK FALSE
