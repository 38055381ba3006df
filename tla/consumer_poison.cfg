SPECIFICATION FairSpec
CONSTANTS
    c1 = c1
    Consumers = {c1}
    Nobody = Nobody
    MaxId = 2
    MaxLen = 2
    Decoded <- DecodedPoison
    StartFromBeginning = TRUE
    Count = 2
    FlushMaxRows = 2
    MaxCopies = 2
    MaxFaults = 0
    MaxStops = 0
PROPERTIES
    GoodEntriesStored
