SPECIFICATION ClockSpec
CONSTANTS
    U64Max = 23
    NsPerSec = 5
    SecBound = 9
CHECK_DEADLOCK FALSE
INVARIANTS
    ClockTypeOK
    NeverAhead
PROPERTIES
    ReadingIsElapsed
    NeverGoesBack
