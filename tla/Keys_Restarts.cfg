SPECIFICATION FairSpec
CONSTANTS
    Passphrases = {right, wrong}
    Fetchers = {f1, f2}
    MaxStarts = 3
    MaxPutErrs = 1
    MayStop = TRUE
INVARIANTS
    SameKeysAlways
    KeysCompleteAndDistinct
PROPERTIES
    FetchAnswered
    StopReturns
CHECK_DEADLOCK FALSE
