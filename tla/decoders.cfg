SPECIFICATION Spec
CONSTANTS
    MaxUint = 3
    LocalNets = {"10.0.0"}
    Keywords = {"hosting"}
    Messages <- MCMessages
    OwnTexts <- MCOwnTexts
    Readers <- MCReaders
INVARIANTS
    TypeOK
    RowsAsSaid
    SpellingIrrelevant
    ClientRecognised
