SPECIFICATION FairSpec
CONSTANTS
    Exporters = {e1, e2}
    Workers = {w1, w2}
    Environments <- MCEnvironments
    Statements <- SchemaStatements
    Databases <- MCDatabases
    Queries <- RollupQueries
    MaxFaults = 1
INVARIANTS
    TypeOK
    ClosedLast
    NobodyStuckSending
    NoWorkerMissed
    CleanExitWasAsked
    ServedDatabase
    StatementsApply
    InsertsGoThrough
PROPERTIES
    ShutdownEnds
    ComesUp
CHECK_DEADLOCK FALSE
