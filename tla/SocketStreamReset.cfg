CONSTANTS
    PrefixSize = 2
    Base = 2
    Sizes = {0, 1, 3}
    MaxMessages = 3
    MaxReads = 4
    Capacity = 3
    Resettable = TRUE
    NonBlocking = FALSE

SPECIFICATION Safety

INVARIANTS
    ParseSucceeds

CHECK_DEADLOCK FALSE
