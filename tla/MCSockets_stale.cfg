SPECIFICATION SocketsSpec
CONSTANTS
    U64Max = 9
    MaxSockets = 2
    MaxGeneration = 1
    Fds <- TwoFds
    Timeouts <- NoTimeouts
    Forever = 9
    ProbeBound = 5
    Coros = {c1, c2}
    Disciplined = FALSE
    ClockBound = 0
SYMMETRY CoroSymmetry
CHECK_DEADLOCK FALSE
PROPERTIES
    SucceedsOnItsOwnSocket
