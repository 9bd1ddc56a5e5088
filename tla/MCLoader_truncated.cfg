SPECIFICATION Spec
CONSTANTS
    pk = pk  ai = ai  log = log
    None = None  NoState = NoState
    TableOrder <- OrderPair
    PKTables = {pk}
    UniqueTables = {pk}
    Keys = {1, 2, 3}
    InitialRows <- FullRows
    BatchSize = 2
    MinInt <- LeastInt  MaxInt = 15  ExactBound = 15
    Constrained = FALSE
    Faults = {"readTruncated"}
    MaxFaults = 1
INVARIANTS CompletedIsComplete

