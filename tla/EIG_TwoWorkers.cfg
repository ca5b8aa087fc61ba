SPECIFICATION Spec
CONSTANTS
    a = a
    b = b
    Docs = {1, 2, 3}
    Words = {a, b}
    DocWords <- WithEmptyDoc
    Workers = {w1, w2}
    MaxErrs = 0
    MayStop = FALSE
SYMMETRY WorkerSymmetry
INVARIANTS
    PostingsComplete
PROPERTIES
    ImplementsPostingLists
CHECK_DEADLOCK FALSE
