SPECIFICATION QuietSpec
CONSTANTS
    U64Max = 19
    MaxCoros = 2
    Jobs = {j1, j2}
    NoJob = nojob
    Fds <- OneSocket
    PollBits <- InOnly
    Durations <- Forever
    DefaultTimeout = 2
    NsPerMs = 2
    IntMax = 8
    SleepBound = 1
    ClockBound = 2
PROPERTIES
    ReadyWaiterIsServed
