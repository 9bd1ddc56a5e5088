SPECIFICATION Spec
CONSTANTS
    None = None
    staging = staging  production = production  mirrored = mirrored  remote = remote
    orders = orders  users = users  mysql = mysql  mirror = mirror
    Configs = {staging, production}
    Job <- Jobs
    TableOrder <- Orders
    Content <- Rows
    Existing <- Present
    Dirty <- DirtyRows
    SampleSize = 2
    Local = {mysql, mirror, "qantara_test", "qantara_prod"}
    NameWords <- TargetNames  DsnWords <- TargetNames
    Faults = {}
    MaxFaults = 0
    MaxCommands = 2
INVARIANTS SuccessIsComplete
CHECK_DEADLOCK FALSE
