SPECIFICATION FairSpec
CONSTANTS
    FaultConfirmLimit = 2
    RecoveryConfirmLimit = 2
    Sensors <- Rangers
    SensorCount = 2
    Order <- PairOrder
    RangerCount = 2
    Ranger <- PairOrder
    Verdicts = {"NONE", "STUCK"}
    Gaps = {1}
    RecoveryTimeout = 3
    RecoveryMaxAttempts = 2
    BackoffBase = 1
    BackoffMax = 1
    AttachOutcomes <- FusionMayBeAlone
    LogMayFail = TRUE
PROPERTIES
    CyclesRecur
    CleanSensorsReturn
CHECK_DEADLOCK FALSE
