CONSTANTS
    i1 = i1
    i2 = i2
    i3 = i3
    p1 = p1
    p2 = p2
    p3 = p3
    NoOne = NoOne
    Faults = TRUE
    Instances = {i1, i2, i3}
    Processes = {p1, p2, p3}
    Owner <- Commands
SPECIFICATION FairSpec
INVARIANTS TypeOK OneUser NoLockCycle
PROPERTIES ProcessesEnd
CHECK_DEADLOCK FALSE
