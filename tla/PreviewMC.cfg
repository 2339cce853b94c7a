SPECIFICATION Spec
CONSTANTS
    Clients = {c1, c2}
    ChanCap = 1
    FrameCells = 3
    RoomCells = 4
    MaxPending = 2
    MaxRestarts = 2
INVARIANTS
    TypeOK
    TornOnlyByShortSend
    LeftStaysEmpty
PROPERTIES
    PublishEnds
    PreviewResumes
CHECK_DEADLOCK FALSE
