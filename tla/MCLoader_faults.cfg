SPECIFICATION FairSpec
CONSTANTS
    pk = pk  ai = ai  log = log
    None = None  NoState = NoState
    TableOrder <- OrderAll
    PKTables = {pk, ai}
    UniqueTables = {pk}
    Keys = {1, 2, 5}
    InitialRows <- SomeRows
    BatchSize = 2
    MinInt <- LeastInt  MaxInt = 15  ExactBound = 15
    Constrained = FALSE
    Faults = {"queryErr", "copyErr", "commitLost", "saveFail", "tornSave", "crash", "insert"}
    MaxFaults = 2
INVARIANTS TypeOK CheckpointSound CompletedIsComplete ProgressNeverOverstated
PROPERTIES StateFileMovesForward EveryRunEnds ImplementsTransfer
