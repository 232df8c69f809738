SPECIFICATION Spec
CONSTANTS
    U64Max = 19
    MaxCoros = 2
    Jobs = {j1, j2, j3}
    NoJob = nojob
    Fds <- OneSocket
    PollBits <- InErr
    Durations <- ZeroShortAndForever
    DefaultTimeout = 4
    NsPerMs = 2
    IntMax = 8
    SleepBound = 3
    ClockBound = 5
SYMMETRY JobSymmetry
INVARIANTS
    TypeOK
    NoAssertFires
    SlotsConsistent
    JobsHaveOneOwner
    NoEarlyWake
PROPERTIES
    PollTimeoutFits
