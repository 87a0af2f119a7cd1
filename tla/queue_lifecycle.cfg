SPECIFICATION FairSpec
CONSTANTS
    x1 = x1  x2 = x2  c1 = c1  c2 = c2
    None = None
    Items = {x1, x2}
    Controls = {c1}
    MaxCalls = 4
    MaxAttempts = 1
    MayCancel = TRUE
INVARIANTS
    TypeOK
    ItemsConserved
    DepthAtRest
    OneProcessor
PROPERTIES
    StopReturns
    Drained
CHECK_DEADLOCK FALSE
