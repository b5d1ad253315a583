SPECIFICATION Spec
CONSTANTS
    b1 = b1
    b2 = b2
    Builders <- OneBuilder
    Required <- AllRequired
    Versions <- OneRun
    Profile <- AllWifi
    IsHTTP = TRUE
    UseCache = TRUE
    RequireVerified = TRUE
    PinKey = FALSE
    MaxFaults = 0
    MaxResolves = 2
INVARIANT HitLikeFetch
CHECK_DEADLOCK FALSE
