SPECIFICATION Spec
CONSTANTS
    Syncers = {s1}
    Devices = {d1, d2}
    PageSize = 1
    MaxPages = 2
    MaxTime = 2
    MaxChanges = 2
PROPERTY DeletedAreAbsent
