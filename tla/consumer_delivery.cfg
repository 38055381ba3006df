SPECIFICATION FairSpec
CONSTANTS
    c1 = c1
    c2 = c2
    Consumers = {c1, c2}
    Nobody = Nobody
    MaxId = 2
    MaxLen = 2
    Decoded <- DecodedPair
    StartFromBeginning = TRUE
    Count = 2
    FlushMaxRows = 2
    MaxCopies = 4
    MaxFaults = 1
    MaxStops = 1
INVARIANT
    DuplicatesPaidFor
PROPERTIES
    KeepsPromise
    EverythingSettled
    ShutdownTerminates
    RecoveryEnds
