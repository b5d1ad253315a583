\* Prepares of several kinds in one cache volume, with two bad or failed
\* transfers and one interruption.
SPECIFICATION FairSpec
CONSTANTS
    Symbols <- McSymbols
    Needs <- McNeeds
    Tiny <- McTiny
    Fragment <- McFragment
    HasLegacy = TRUE
    Requests <- McRequests
    Machine <- McMachine
    MaxFaults = 2
    MaxKills = 1
INVARIANTS BuiltFromRecorded KernelAsAsked
PROPERTY Heals
