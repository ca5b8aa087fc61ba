SPECIFICATION FairSpec
CONSTANTS
    Docs = {d1, d2, d3}
    Workers = {w1, w2}
    MaxErrs = 1
    MayStop = TRUE
INVARIANTS
    EachDocOnce
    AllUploaded
PROPERTIES
    Finishes
CHECK_DEADLOCK FALSE
