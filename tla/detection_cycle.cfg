SPECIFICATION Spec
CONSTANTS
    FaultConfirmLimit = 2
    RecoveryConfirmLimit = 1
    BufferLen = 3
    DelayTimeout = 1
    StuckThreshold = 1
    NoiseThreshold = 2
    ContradictionThreshold = 2
    Rangers <- Pair
    First = "US1"
    Second = "US2"
    MaxDistance = 3
    Moves = {0, 1, 2}
    MaxMove = 2
    Wild = {0, 3}
    LongestPeriod = 1
    Behaviours <- OneMayFail
INVARIANTS
    TypeOK
    NoFalseAlarm
    TwinCannotExclude
    SilentSensorLeaves
