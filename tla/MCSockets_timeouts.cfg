SPECIFICATION SocketsSpec
CONSTANTS
    U64Max = 9
    MaxSockets = 2
    MaxGeneration = 1
    Fds <- OneFd
    Timeouts <- ShortTimeout
    Forever = 9
    ProbeBound = 4
    Coros = {c1, c2}
    Disciplined = TRUE
    ClockBound = 2
SYMMETRY CoroSymmetry
CHECK_DEADLOCK FALSE
INVARIANTS
    SocketsTypeOK
PROPERTIES
    ImplementsMap
    NeverTimesOutEarly
    ConnectTellsTheTruth
