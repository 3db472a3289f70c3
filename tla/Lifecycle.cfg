SPECIFICATION FairSpec
CONSTANTS
    MaxGens = 4
    MaxFails = 3
    Overlap = FALSE
INVARIANTS
    TypeOK
    StopClosesStream
    ClosedOnceIfConnected
PROPERTY StopTerminatesIfConnected
CHECK_DEADLOCK FALSE
