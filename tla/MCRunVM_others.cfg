\* A failed command removes the VM another command left running.
SPECIFICATION Spec
CONSTANTS
    r1 = r1
    r2 = r2
    r3 = r3
    Runs = {r1, r2}
    Specs <- McSpecs
PROPERTY LeavesAlone
CHECK_DEADLOCK FALSE
