SPECIFICATION Spec
CONSTANTS
    b1 = b1
    b2 = b2
    Builders <- OneBuilder
    Required <- AllRequired
    Versions <- TwoRuns
    Profile <- NoneThenEth
    IsHTTP = FALSE
    UseCache = TRUE
    RequireVerified = FALSE
    PinKey = TRUE
    MaxFaults = 1
    MaxResolves = 2
INVARIANT Authentic
CHECK_DEADLOCK FALSE
