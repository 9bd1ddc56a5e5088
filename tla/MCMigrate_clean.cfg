SPECIFICATION MFairSpec
CONSTANTS
    users = users  orders = orders  log = log
    None = None  NoState = NoState
    TableOrder <- OrderThree
    PKTables = {users, orders}
    UniqueTables = {users}
    IdentityTables = {users}
    UniqueIndexTables = {}
    Keys = {1, 2, 3}
    InitialRows <- AnyRows
    BatchSize = 2
    MinInt <- LeastInt  MaxInt = 15  ExactBound = 15
    Constrained = TRUE
    Faults = {"queryErr", "copyErr"}
    MaxFaults = 2
    Fks = {fk}
    ChildOf <- ToOrders  ParentOf <- ToUsers  Refers <- SameKey
    CompositeFks = {}
    DirtyRows <- NoneDirty
    MaxErrors = 2
INVARIANTS CompletedIsExact
PROPERTIES EventuallyMigrated
