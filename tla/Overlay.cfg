CONSTANTS
    t1 = t1
    t2 = t2
    n1 = n1
    n2 = n2
    n3 = n3
    x = x
    Scenarios <- Covered
    Threads = {t1, t2}
    NoThread = NoThread
    Names = {n1, n2, n3}
    NoParent = NoParent
    NoLabel = NoLabel
    Changes = {x}
    TxFaults = TRUE
    MaxSeq = 3
    MaxCrashes = 2
SPECIFICATION MCSpec
INVARIANTS TypeOK DirectoriesBacked NoOrphans
PROPERTIES CleanupHeals TreeSpec
CHECK_DEADLOCK FALSE
