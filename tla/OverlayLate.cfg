CONSTANTS
    t1 = t1
    t2 = t2
    n1 = n1
    n2 = n2
    n3 = n3
    x = x
    Scenarios <- Late
    Threads = {t1, t2}
    NoThread = NoThread
    Names = {n1, n2}
    NoParent = NoParent
    NoLabel = NoLabel
    Changes = {x}
    TxFaults = FALSE
    MaxSeq = 3
    MaxCrashes = 1
SPECIFICATION MCSpec
INVARIANTS DirectoriesBacked
CHECK_DEADLOCK FALSE
