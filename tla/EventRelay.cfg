SPECIFICATION FairSpec
CONSTANTS
    Producers = {p1, p2}
    MaxEvents = 5
    InCap = 2
    OutCap = 2
INVARIANTS
    TypeOK
    NothingLostOnTheWay
    ShutdownFlushes
PROPERTIES
    StreamSpec
    EmitReturns
    StopTerminates
    EventsArrive
    ConsumerSeesEnd
CHECK_DEADLOCK FALSE
