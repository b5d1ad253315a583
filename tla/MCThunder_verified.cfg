\* A kernel that --insecure-skip-kernel-verify let in stays for verified runs.
SPECIFICATION Spec
CONSTANTS
    Symbols <- McSymbols
    Needs <- McNeeds
    Tiny <- McTiny
    Fragment <- McFragment
    HasLegacy = TRUE
    Requests <- McRequests
    Machine <- McMachine
    MaxFaults = 2
    MaxKills = 1
INVARIANT VerifiedBuild
