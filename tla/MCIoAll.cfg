SPECIFICATION IoFairSpec
CONSTANTS
    Count = 9
    Capacity = 4
    SSizeMax = 3
    Faults <- AllFaults
CHECK_DEADLOCK FALSE
INVARIANTS
    IoTypeOK
    IoNoAssertFires
    ExactlyOnce
    SuccessMeansAll
PROPERTIES
    TransferCompletes
