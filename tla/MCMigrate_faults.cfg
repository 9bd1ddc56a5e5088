SPECIFICATION MSpec
CONSTANTS
    users = users  orders = orders  log = log
    None = None  NoState = NoState
    TableOrder <- OrderTwo
    PKTables = {users}
    UniqueTables = {users}
    IdentityTables = {users}
    UniqueIndexTables = {orders}
    Keys <- SignedKeys
    InitialRows <- AnyRows
    BatchSize = 2
    MinInt <- LeastInt  MaxInt = 15  ExactBound = 15
    Constrained = TRUE
    Faults = {"copyErr", "commitLost", "saveFail", "tornSave", "crash", "insert"}
    MaxFaults = 3
    Fks = {fk}
    ChildOf <- ToOrders  ParentOf <- ToUsers  Refers <- SameKey
    CompositeFks = {}
    DirtyRows <- NoneDirty
    MaxErrors = 1
INVARIANTS MigratedIsComplete MigratedIsConstrained SequencesAhead
PROPERTIES DataBeforeConstraints ImplementsLoader
