SPECIFICATION FairSpec
CONSTANTS
    Frames <- MixedFrames
    MaxFrames = 3
    Lengths <- BoundaryLengths
INVARIANTS
    MessagesInOrder
    StreamKept
    LengthsAgree
PROPERTIES
    SentIsDelivered
CHECK_DEADLOCK FALSE
