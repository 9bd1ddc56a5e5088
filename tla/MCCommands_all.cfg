SPECIFICATION Spec
CONSTANTS
    None = None
    staging = staging  production = production  mirrored = mirrored  remote = remote
    orders = orders  users = users  mysql = mysql  mirror = mirror
    Configs = {staging, production, mirrored, remote}
    Job <- Jobs
    TableOrder <- Orders
    Content <- Rows
    Existing <- Present
    Dirty <- DirtyRows
    SampleSize = 2
    Local = {mysql, mirror, "qantara_test", "qantara_prod"}
    NameWords <- TargetNames  DsnWords <- TargetNames
    Faults = {"stop", "inspectCut", "sequenceErr"}
    MaxFaults = 2
    MaxCommands = 3
PROPERTIES OthersAreLeftAlone
INVARIANTS CompleteUnlessForeign CertifiedIsComplete VerdictIsBacked
CHECK_DEADLOCK FALSE
