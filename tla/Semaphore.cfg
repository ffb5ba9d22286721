CONSTANTS
    Threads = {t1, t2, t3}
    NoThread = NoThread
    InitialCount = 1
    MaxCount = 3

SPECIFICATION Spec

INVARIANTS
    TypeOK
    NoLostWakeup

PROPERTIES
    ImplementsCountingSemaphore
