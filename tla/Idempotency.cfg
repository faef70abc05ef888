SPECIFICATION FairSpec
CONSTANTS
    Callers = {c1, c2, c3, c4}
    Guards = {c1, c2}
    MayPanic = TRUE
    MaxForgets = 1
    None = None
INVARIANTS
    ExclusiveUnlessForgotten
    SharedIsRealOrZero
    ForgottenResultNotReused
    NeverClosedTwice
PROPERTIES
    WaitersWake
CHECK_DEADLOCK FALSE
