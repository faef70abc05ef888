SPECIFICATION MCSpec
CONSTANTS
    Calls = {c1, c2, c3}
    MaxRequests = 2
    ReadyToTrip <- DefaultReadyToTrip
    MinRequests = 2
    ManualReset = TRUE
    Gens = {1, 2, 3, 4, 5}
    MaxCount = 3
    None = None
INVARIANTS
    CountsBalance
    ProbeLimit
    HalfOpenCanDecide
PROPERTIES
    StaleResultsIgnored
    UnaidedImplementsStates
    AllRecover
