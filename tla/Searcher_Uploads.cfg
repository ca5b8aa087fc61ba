SPECIFICATION Spec
CONSTANTS
    c1 = c1
    c2 = c2
    f1 = f1
    f2 = f2
    f3 = f3
    f4 = f4
    Clients = {c1, c2}
    Frags <- TwoIndexes
    Writers = {w1, w2}
    WriteCap = 1
    ReadCap = 1
    MaxFaults = 2
INVARIANTS
    TypeOK
    AckedKept
    XSetKept
    MetaLoadedOnce
PROPERTIES
    QueuedStored
    UploadAcked
CHECK_DEADLOCK FALSE
