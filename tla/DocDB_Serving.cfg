SPECIFICATION FairSpec
CONSTANTS
    DocIds = {1}
    Ciphers = {v1, v2}
    Readers = {r1, r2}
    Callers = {c1, c2}
    BufSize = 2
    MaxPuts = 3
    MaxErrs = 1
    MaxCrashes = 1
    MayStop = TRUE
INVARIANTS
    LastPutWins
    RepliesMatch
PROPERTIES
    RetrieveReturns
    PutsStored
    StopReturns
CHECK_DEADLOCK FALSE
