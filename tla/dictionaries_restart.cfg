SPECIFICATION Spec
CONSTANTS
    Syncers = {s1}
    MaxUser = 3
    PageSize = 1
    MaxPages = 0
    Nodes = {n1}
    MaxTime = 1
    MaxFaults = 2
INVARIANTS TypeOK NoUserSkipped OwnAddressesRecognised
PROPERTY EveryUserNamed
