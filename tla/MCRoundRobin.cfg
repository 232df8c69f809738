SPECIFICATION RRStacksSpec
CONSTANTS
    U64Max = 9
    MaxCoros = 3
    Jobs = {j1, j2, j3, j4}
    NoJob = nojob
    Fds <- OnlyStdin
    PollBits <- NoBits
    Durations <- Short
    DefaultTimeout = 2
    NsPerMs = 1
    IntMax = 8
    SleepBound = 1
    ClockBound = 2
    Regions = {r1, r2, r3}
    NoRegion = nowhere
    PageSize = 2
    DesiredStack = 3
    MainStack = mainstack
    RunDepth = 1
    Depths = {1, 2}
SYMMETRY JobRegionSymmetry
CHECK_DEADLOCK FALSE
INVARIANTS
    PassedAreBehind
    EveryCoroutineHasItsStack
    NoMappingLeaks
PROPERTIES
    NobodyRunsTwice
    ContinuesWhereItStopped
    EntersMainAligned
