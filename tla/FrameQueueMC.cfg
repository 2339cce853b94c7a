SPECIFICATION FairSpec
CONSTANTS
    Capacity = 3
    MaxGop = 3
    MaxFrames = 8
    MaxNoMem = 1
INVARIANTS
    TypeOK
    RingOK
    NoLostWakeup
    Conservation
    StreamOK
PROPERTIES
    Decodable
    CloseEndsWriter
    ImplementsFifo
CHECK_DEADLOCK FALSE
