SPECIFICATION FairSpec
CONSTANTS
    items = items  orders = orders  users = users  elsewhere = elsewhere
    SchemaOrder <- Schema
    Outside = {elsewhere}
    Fks = {1, 2, 3}
CHECK_DEADLOCK FALSE
INVARIANTS TypeOK OrderIsComplete SortedParentsFirst CircularIffBlocked
PROPERTIES EventuallyPlanned
