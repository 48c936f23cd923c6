SPECIFICATION Spec
CONSTANTS
    FaultConfirmLimit = 3
    RecoveryConfirmLimit = 2
    BufferLen = 5
    DelayTimeout = 2
    StuckThreshold = 1
    NoiseThreshold = 2
    ContradictionThreshold = 2
    Rangers <- Pair
    First = "US1"
    Second = "US2"
    MaxDistance = 3
    MaxMove = 2
    Moves = {0, 1, 2}
    Wild = {0, 3}
    LongestPeriod = 3
    Behaviours <- OneGlitch
INVARIANT GlitchIsTolerated
