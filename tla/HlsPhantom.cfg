SPECIFICATION Spec
CONSTANTS
    MaxGop = 2
    MaxSize = 9
    MaxFrames = 6
    MaxSessions = 2
    MaxFaults = 1
INVARIANT ListedComplete
CHECK_DEADLOCK FALSE
