CONSTANTS
    LastSession = 2
    MaxMessages = 1
    Overlapping = TRUE
    MayCrash = {}

SPECIFICATION Spec

INVARIANTS
    TokenLive

CHECK_DEADLOCK FALSE
