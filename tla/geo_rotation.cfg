SPECIFICATION Spec
CONSTANTS
    l1 = l1
    l2 = l2
    Lookups = {l1, l2}
    MaxOpens = 3
SYMMETRY Symmetry
INVARIANTS
    TypeOK
    CurrentIsOpen
    NoReaderLeaked
PROPERTIES
    NeverDegrades
CHECK_DEADLOCK FALSE
