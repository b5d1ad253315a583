\* Three commands of any kind, each step of which may fail or be the last.
SPECIFICATION Spec
CONSTANTS
    r1 = r1
    r2 = r2
    r3 = r3
    Runs = {r1, r2, r3}
    Specs <- McSpecs
INVARIANTS CleanFailure DiskStays 
PROPERTY RemovesOwn
SYMMETRY Symmetry
CHECK_DEADLOCK FALSE
