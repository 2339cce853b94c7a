SPECIFICATION Spec
CONSTANTS
    Second = 12
    FpsHigh = 3
    FpsLow = 1
    Gaps <- SensorGaps
    Debounce = 6
    MaxTime = 28
    MaxSwitches = 2
    Backlog = 1
INVARIANTS
    TypeOK
    Timeline
    RateBound
    GateOpens
    MarkDensity
    TotalLag
PROPERTY PtsIncreases
CHECK_DEADLOCK FALSE
