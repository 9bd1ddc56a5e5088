SPECIFICATION FairSpec
CONSTANTS
    pk = pk  ai = ai  log = log
    None = None  NoState = NoState
    TableOrder <- OrderPK
    PKTables = {pk}
    UniqueTables = {pk}
    Keys = {1, 2, 4}
    InitialRows <- FullRows
    BatchSize = 2
    MinInt <- LeastInt  MaxInt = 15  ExactBound = 15
    Constrained = FALSE
    Faults = {"crash"}
    MaxFaults = 1

PROPERTIES EventuallyStreamed
