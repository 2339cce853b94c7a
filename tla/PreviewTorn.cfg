SPECIFICATION Spec
CONSTANTS
    Clients = {c1, c2}
    ChanCap = 1
    FrameCells = 3
    RoomCells = 4
    MaxPending = 2
    MaxRestarts = 2
INVARIANT WholeFrames
CHECK_DEADLOCK FALSE
