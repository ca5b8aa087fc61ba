SPECIFICATION Spec
CONSTANTS
    lo = lo
    hi = hi
    x1 = x1
    x2 = x2
    x3 = x3
    u = u
    v = v
    Buckets = {lo, hi}
    Items = {x1, x2, x3, u, v}
    XSize = 3
    XAdds <- TwoDocs
    FreqSize <- Sizes
    FreqAdds <- WordsInBuckets
    Workers = {w1}
    MaxErrs = 0
    MaxCrashes = 1
    MayStop = FALSE
INVARIANTS
    NotFirstTimeAllSaved
CHECK_DEADLOCK FALSE
