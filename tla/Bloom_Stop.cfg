SPECIFICATION FairSpec
CONSTANTS
    lo = lo
    hi = hi
    x1 = x1
    x2 = x2
    x3 = x3
    u = u
    v = v
    Buckets = {lo, hi}
    Items = {x1, x2, x3, u, v}
    XSize = 1
    XAdds <- OneDoc
    FreqSize <- Sizes
    FreqAdds <- WordsInBuckets
    Workers = {w1, w2}
    MaxErrs = 1
    MaxCrashes = 0
    MayStop = TRUE
PROPERTIES
    StopReturns
CHECK_DEADLOCK FALSE
