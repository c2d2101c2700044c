SPECIFICATION Spec
CONSTANTS
    Requests <- PlainGets
    MaxRequests = 2
    BufferSize = 4
    MaxLineSize = 5
    PostMax = 2
INVARIANT EachHandledOnce
CHECK_DEADLOCK FALSE
