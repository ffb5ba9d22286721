CONSTANTS
    PrefixSize = 2
    Base = 2
    Sizes = {0, 1, 3}
    MaxMessages = 3
    MaxReads = 4
    Capacity = 3
    Resettable = TRUE
    NonBlocking = FALSE

SPECIFICATION Spec

INVARIANTS
    TypeOK
    FrameAligned

PROPERTIES
    ImplementsMessageChannel
    EveryMessageArrives

\* A reader waits forever for a writer that has nothing more to say.
CHECK_DEADLOCK FALSE
