SPECIFICATION Spec
CONSTANTS
    Corpora <- SmallCorpora
    MaxFaults = 1
INVARIANTS
    StreamsAgree
    UploadsFullXSet
    ReturnsComplete
    NoPanic
PROPERTIES
    IndexReturns
    PipelineDrains
CHECK_DEADLOCK FALSE
