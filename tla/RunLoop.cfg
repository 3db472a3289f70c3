SPECIFICATION FairSpec
CONSTANTS
    MaxSends = 4
    MaxQueue = 2
    MaxStarts = 2
INVARIANTS
    TypeOK
    OneTurnAtATime
    NothingLost
    KeptInOrder
    CancelledExactly
    StoppedIsQuiet
PROPERTIES
    ServerSpec
    EveryStopReturns
    QueuedBehindTurnIsTaken
CHECK_DEADLOCK FALSE
