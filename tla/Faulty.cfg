CONSTANTS
    t1 = t1
    t2 = t2
    k1 = k1
    k2 = k2
    a = a
    b = b
    out = out
    m1 = m1
    b0 = b0
    b1 = b1
    x = x
    Scenarios <- FaultyScenarios
    Threads = {t1, t2}
    Keys = {k1, k2}
    Refs = {a, b, out}
    NoRef = NoRef
    Targets = {m1}
    Changes = {b0, b1, x}
    UserChanges = {x}
    Requests <- AllRequests
    NoReq = NoReq
    NoParent <- MCNoParent
    Gone = Gone
    MaxLayers = 2
    MaxLosses = 1
    Faults = TRUE
    LiveWrites = FALSE
SPECIFICATION MCSpec
CONSTRAINT BoundedLosses
INVARIANTS TypeOK ContentsComplete NoLeftovers ChainsFaithful ParentsCommitted CommitsDurable MountsBacked UmountsComplete SingleImportKeeps RemovesLine
PROPERTIES ActiveKept
