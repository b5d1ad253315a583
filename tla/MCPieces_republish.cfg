SPECIFICATION Spec
CONSTANTS
    b1 = b1
    b2 = b2
    Builders <- OneBuilder
    Required <- TwoRequired
    Versions <- TwoRuns
    Profile <- WifiThenNone
    IsHTTP = TRUE
    UseCache = TRUE
    RequireVerified = TRUE
    PinKey = FALSE
    MaxFaults = 1
    MaxResolves = 2
INVARIANT TypeOK
INVARIANT OneBuild
INVARIANT QuietSource
PROPERTY StorePromise
CHECK_DEADLOCK FALSE
