CONSTANTS
    t1 = t1
    t2 = t2
    idx = idx
    l1 = l1
    l2 = l2
    p = p
    q = q
    Threads = {t1}
    NoThread = NoThread
    Refs = {idx, l1, l2}
    Bytes = {p, q}
    Writes <- AllWrites
    Scenarios <- Shorter
    NoWrite = NoWrite
    IOFaults = FALSE
    OpenFaults = FALSE
    TxFaults = FALSE
    MaxCrashes = 1
SPECIFICATION MCSpec
INVARIANTS UndisturbedSucceeds
