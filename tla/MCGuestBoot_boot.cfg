SPECIFICATION Spec
CONSTANTS
    vda = vda
    vdb = vdb
    data = data
    tmpdir = tmpdir
    Devices <- MCDevices
    Mountpoints <- MCMountpoints
    Ramdirs <- MCRamdirs
    NoMount = NoMount
    Tmpfs = Tmpfs
    NDPRules = 1
    AssocTimeout = 2
    LogOpens = FALSE
    Boots <- AllBoots
INVARIANTS
    RequiredMounted
    FirewallWhole
    NoNetwork
    DirectiveWins
    BootBounded
PROPERTY
    IndependentRulesets
