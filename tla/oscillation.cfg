SPECIFICATION FairSpec
CONSTANTS
    FaultConfirmLimit = 3
    RecoveryConfirmLimit = 3
    Sensors <- OneSensor
    SensorCount = 1
    Order <- OneOrder
    RangerCount = 1
    Ranger <- OneOrder
    Verdicts = {"STUCK"}
    Gaps = {1}
    RecoveryTimeout = 4
    RecoveryMaxAttempts = 2
    BackoffBase = 1
    BackoffMax = 1
    AttachOutcomes <- AllAttached
    LogMayFail = FALSE
PROPERTY OscillationEnds
CHECK_DEADLOCK FALSE
