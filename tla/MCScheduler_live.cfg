SPECIFICATION StdinSpec
CONSTANTS
    U64Max = 19
    MaxCoros = 2
    Jobs = {j1, j2}
    NoJob = nojob
    Fds <- OneSocket
    PollBits <- InErr
    Durations <- ShortAndForever
    DefaultTimeout = 2
    NsPerMs = 2
    IntMax = 8
    SleepBound = 3
    ClockBound = 3
PROPERTIES
    EveryDueCoroutineRuns
    PolledWaiterIsServed
    ImplementsRuntime
