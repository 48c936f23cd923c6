SPECIFICATION Spec
CONSTANTS
    First = US1
    Second = US2
    EchoTimeout = 30
    LoopPeriod = 100
    StaleSample = 300
    MaxWidth = 29
    Delays = {10, 30}
    Widths = {3, 30, 38}
    Rests = {2}
    LongestRest = 2
    Holds = {0, 10}
    LongestHold = 10
    Latency = 1
INVARIANTS
    TypeOK
    OwnEdges
    MeasuresWidth
    ReadIsBounded
    OneMissIsHarmless
    HandlesMatch
