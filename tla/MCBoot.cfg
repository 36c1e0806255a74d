CONSTANTS
    o1 = o1
    o2 = o2
    k1 = k1
    k2 = k2
    c1 = c1
    c2 = c2
    None = None
    Packs <- MCPacks
    Doc <- MCDoc
    Fp <- MCFp
    Pol <- MCPol
    Ids <- MCIds
    Keys <- MCKeys
    Seeds <- MCSeeds
    MaxHead = 2
    Natural = TRUE
    MayRevert = FALSE
    Callers <- MCCallers
    Docs <- MCDocs
    Handles <- MCHandles
    MaxMistakes = 1
    MaxRestarts = 1
    MaxCrashes = 2
SPECIFICATION BootSpec
INVARIANTS
    ServesOpenStore
    ServesInLine
PROPERTY Deploys
CHECK_DEADLOCK FALSE
