SPECIFICATION Spec
CONSTANTS
    a = a
    b = b
    Docs = {1, 2}
    Words = {a, b}
    DocWords <- SharedWord
    Workers = {w1, w2}
    MaxErrs = 0
    MayStop = FALSE
SYMMETRY WorkerSymmetry
INVARIANTS
    XTagsAllQueued
CHECK_DEADLOCK FALSE
