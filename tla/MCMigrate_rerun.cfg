SPECIFICATION MFairSpec
CONSTANTS
    users = users  orders = orders  log = log
    None = None  NoState = NoState
    TableOrder <- OrderTwo
    PKTables = {users, orders}
    UniqueTables = {users, orders}
    IdentityTables = {users}
    UniqueIndexTables = {}
    Keys = {1, 2}
    InitialRows <- FullRows
    BatchSize = 2
    MinInt <- LeastInt  MaxInt = 15  ExactBound = 15
    Constrained = TRUE
    Faults = {"crash"}
    MaxFaults = 1
    Fks = {fk}
    ChildOf <- ToOrders  ParentOf <- ToUsers  Refers <- SameKey
    CompositeFks = {}
    DirtyRows <- NoneDirty
    MaxErrors = 0
PROPERTIES SavedJobsFinish
