SPECIFICATION FairSpec
CONSTANTS
    MaxId = 3
    MaxTime = 3
    Overlap = 1
    CommitDelay = 1
    PageSize = 1
    MaxPages = 3
    MaxFaults = 1
    MaxTruncates = 1
INVARIANTS
    TypeOK
    NothingLeftBehind
    CursorIsStored
PROPERTIES
    RewritesAreExplained
    EverythingPolled
