CONSTANTS
    Regions = 2
    MaxMessages = 4
    MaxReads = 5
    Breakable = TRUE

SPECIFICATION Spec

INVARIANTS
    TypeOK
    ReceiveRegionsApart
    QueuedNotRewritten

PROPERTIES
    ImplementsMessageChannel
    EveryMessageArrives

\* A reader waits forever for a writer that has nothing more to say.
CHECK_DEADLOCK FALSE
