SPECIFICATION FairSpec
CONSTANTS
    a = a
    b = b
    c = c
    r1 = r1
    r2 = r2
    r3 = r3
    Docs = {1, 2, 3}
    Words = {a, b, c}
    Count <- Corpus
    Mappers = {m1, m2}
    Reducers = {r1, r2, r3}
    HashOf <- HashTable
    Cuts <- TwoBuckets
INVARIANTS
    ReducersOutliveShufflers
    SizesExact
PROPERTIES
    Finishes
