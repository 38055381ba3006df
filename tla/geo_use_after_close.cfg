SPECIFICATION Spec
CONSTANTS
    l1 = l1
    Lookups = {l1}
    MaxOpens = 2
INVARIANTS
    ReadersInUseAreOpen
CHECK_DEADLOCK FALSE
