CONSTANTS
    None = None
    Own = "own"
    Absent = "absent"
    Paths <- MCPaths
    Values <- MCValues
    First <- MCFirst
    Started <- MCStarted
    PageSize = 1
    MaxVersion = 3
    MaxLeaves = 2
    MaxLocal = 1
    MaxFailures = 1
SPECIFICATION FairSpec
INVARIANTS
    HealthyIsCopy
    CopyBetweenPulls
PROPERTY CatchesUp
