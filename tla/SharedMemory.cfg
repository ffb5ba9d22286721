CONSTANTS
    LastSession = 2
    MaxMessages = 3
    Overlapping = FALSE
    MayCrash = {"owner", "client"}

SPECIFICATION Spec

INVARIANTS
    TypeOK
    TokenLive
    OneRegion
    NoRace
    NamesReleased
    ReadsWhatWasWritten

\* The sessions end.
CHECK_DEADLOCK FALSE
