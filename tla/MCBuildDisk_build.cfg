\* One output, rebuilt and killed while the Nimbusfile is edited and the pieces
\* are published anew, beside a keygen.
SPECIFICATION Spec
CONSTANTS
    b1 = b1
    b2 = b2
    g1 = g1
    Builds = {b1}
    Keygens = {g1}
    MaxPairs = 2
    Nimbusfiles <- McNimbusfiles
    Sets <- McSets
    Commands <- McCommands
    SigSize = 2048
    MaxRuns = 2
INVARIANTS Bootable StaysInside LockTells CleanExit Enrollable
PROPERTY PairKept
CHECK_DEADLOCK FALSE
