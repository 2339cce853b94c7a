SPECIFICATION Spec
CONSTANTS
    Second = 12
    FpsHigh = 3
    FpsLow = 1
    Gaps <- SensorGaps
    Debounce = 6
    MaxTime = 28
    MaxSwitches = 2
    Backlog = 1
INVARIANT EverySwitchMarked
CHECK_DEADLOCK FALSE
