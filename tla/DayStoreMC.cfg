SPECIFICATION FairSpec
CONSTANTS
    MaxDay = 3
    DaysPerYear = 2
    Keep = 1
    Heavy = {1}
    CleanupEvery = 2
    MaxStarts = 2
    MaxSteps = 1
    MaxFaults = 1
    MaxMotion = 1
INVARIANTS
    TypeOK
    ForwardDayKept
    TodayCanOpen
    ActiveIsWhole
    OldestFirst
PROPERTIES
    PendingGoes
    SpaceComesBack
CHECK_DEADLOCK FALSE
