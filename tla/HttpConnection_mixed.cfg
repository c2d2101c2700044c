SPECIFICATION FairSpec
CONSTANTS
    Requests <- MixedRequests
    MaxRequests = 2
    BufferSize = 4
    MaxLineSize = 5
    PostMax = 2
INVARIANTS
    TypeOK
    NeverOverlong
    FirstIntact
PROPERTIES
    FirstAnswered
CHECK_DEADLOCK FALSE
