SPECIFICATION Spec
CONSTANTS
    MaxGop = 3
    MaxSize = 4
    MaxFrames = 5
    MaxSessions = 3
    MaxFaults = 2
INVARIANTS
    TypeOK
    PhantomsAreFaults
    Decodable
    FailedCutKeepsFrames
    PowerLossBound
    CleanClose
PROPERTY NeverRewritten
CHECK_DEADLOCK FALSE
