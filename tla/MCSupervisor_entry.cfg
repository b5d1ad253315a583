SPECIFICATION Spec
CONSTANTS
    entry = entry
    svc = svc
    p1 = p1
    p2 = p2
    p3 = p3
    Services <- JustEntry
    Entry <- entry
    HasHC = TRUE
    Policies <- AllPolicies
    Pids <- TwoPids
    NoPid = NoPid
    Interval = 1
    Retries = 2
    StopGrace = 3
    BackoffCap = 2
    MaxCrash = 1
    MayHang = TRUE
    WorkdirOk = TRUE
SYMMETRY PidSymmetry
INVARIANTS
    TypeOK
    OneInstance
    TermBeforeKill
    CompletedStaysDown
    BoundedShutdown
PROPERTIES
    KillAfterGrace
    LifePromise
