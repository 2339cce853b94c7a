SPECIFICATION Spec
CONSTANT MaxQueue = 2
INVARIANTS
    TypeOK
    NoUseAfterRelease
    Released
    DrainedAndJoined
PROPERTIES
    StopHonoured
    StartDecides
