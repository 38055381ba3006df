SPECIFICATION Spec
CONSTANTS
    Syncers = {s1, s2}
    Devices = {d1, d2, d3, d4}
    PageSize = 1
    MaxPages = 2
    MaxTime = 3
    MaxChanges = 2
SYMMETRY MCSymmetry
INVARIANT TypeOK
PROPERTIES RefreshShowsTheList LateListIsHidden
