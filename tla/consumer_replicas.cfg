SPECIFICATION Spec
CONSTANTS
    c1 = c1
    c2 = c2
    Consumers = {c1, c2}
    Nobody = Nobody
    MaxId = 5
    MaxLen = 4
    Decoded <- DecodedFive
    StartFromBeginning = FALSE
    Count = 1
    FlushMaxRows = 2
    MaxCopies = 4
    MaxFaults = 1
    MaxStops = 0
SYMMETRY Replicas
INVARIANTS
    TypeOK
    AckedIsStored
    Bookkeeping
    BufferBounded
