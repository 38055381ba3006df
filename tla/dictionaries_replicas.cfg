SPECIFICATION Spec
CONSTANTS
    Syncers = {s1, s2}
    MaxUser = 1
    PageSize = 1
    MaxPages = 0
    Nodes = {n1}
    MaxTime = 2
    MaxFaults = 1
SYMMETRY MCSymmetry
INVARIANT FinishedRefreshStands
