SPECIFICATION Spec
CONSTANTS
    Runs = {r1, r2}
    None = None
    NParts = 2
    EarlyHooks = TRUE
    Panics = FALSE
INVARIANTS
    NoHookOfFailedRun
CHECK_DEADLOCK FALSE
