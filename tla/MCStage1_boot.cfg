SPECIFICATION FairSpec
CONSTANTS
    Wholes <- MCWholes
    Parts <- MCParts
    Volumes <- MCVolumes
    Boots <- AllBoots
    Attempts = 2
    Page = 2
INVARIANTS
    Found
    Preferred
    CleanRetry
    Delivered
    RoomAtBoot
PROPERTY
    Ends
