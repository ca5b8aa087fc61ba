SPECIFICATION FairSpec
CONSTANTS
    a = a
    b = b
    Docs = {1, 2}
    Words = {a, b}
    DocWords <- SharedWord
    Workers = {w1}
    MaxErrs = 1
    MayStop = TRUE
INVARIANTS
    TypeOK
    TSetInv
    PostingsContiguous
    XTagsAllQueued
PROPERTIES
    Finishes
CHECK_DEADLOCK FALSE
