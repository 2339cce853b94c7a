SPECIFICATION Spec
CONSTANTS
    MaxDay = 4
    DaysPerYear = 9
    Keep = 2
    Heavy = {}
    CleanupEvery = 2
    MaxStarts = 3
    MaxSteps = 0
    MaxFaults = 0
    MaxMotion = 3
PROPERTIES
    MotionCountIsDaily
CHECK_DEADLOCK FALSE
