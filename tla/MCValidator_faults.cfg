SPECIFICATION FairSpec
CONSTANTS
    orders = orders  users = users  buyer = buyer  seller = seller
    None = None
    TableList <- ListTwo
    IdentityTables = {orders, users}
    Keys = {1, 2, 3, 4}
    InitialPKMaps <- SomeKeys
    InitialRows <- FewOrders
    InitialLooks <- FewOdd
    SampleSize = 2
    Fks = {buyer, seller}
    ChildOf <- Children  ParentOf <- Parents  Refers <- Parties
    PoolSize = 2
    Faults = {"queryErr", "readTruncated", "crash", "insert"}
    MaxFaults = 1
INVARIANTS SucceededIsComplete SucceededHasNoOrphans PassedIsVerified OnlyMasked
PROPERTIES EveryValidationEnds
