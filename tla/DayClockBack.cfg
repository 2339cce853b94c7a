SPECIFICATION Spec
CONSTANTS
    MaxDay = 4
    DaysPerYear = 9
    Keep = 1
    Heavy = {}
    CleanupEvery = 2
    MaxStarts = 3
    MaxSteps = 1
    MaxFaults = 1
    MaxMotion = 1
INVARIANTS
    RecordingDayKept
CHECK_DEADLOCK FALSE
