CONSTANTS
    t1 = t1
    t2 = t2
    idx = idx
    l1 = l1
    l2 = l2
    p = p
    q = q
    Threads = {t1, t2}
    NoThread = NoThread
    Refs = {idx, l1, l2}
    Bytes = {p, q}
    Writes <- AllWrites
    Scenarios <- Mixed
    NoWrite = NoWrite
    IOFaults = TRUE
    OpenFaults = TRUE
    TxFaults = TRUE
    MaxCrashes = 2
SPECIFICATION MCFairSpec
INVARIANTS TypeOK ContentAddressed WrittenIsStored OwnSucceeds LocksFreed
PROPERTIES WritesFinish
CHECK_DEADLOCK FALSE
