SPECIFICATION EchoSpec
CONSTANTS
    U64Max = 9
    MaxSockets = 3
    MaxGeneration = 1
    Fds <- SomeFds
    Timeouts <- NoTimeouts
    Forever = 9
    ProbeBound = 6
    Coros = {main, c1, c2, c3}
    Main = main
    Nobody = nobody
    Poller = poller
    BufferSize = 2
    Disciplined = FALSE
    ClockBound = 0
CHECK_DEADLOCK FALSE
INVARIANTS
    EchoTypeOK
    SocketsHaveOneOwner
    KeepsItsEntry
    ExitsClean
PROPERTIES
    EveryHangUpIsSeen
