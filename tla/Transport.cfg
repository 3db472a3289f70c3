SPECIFICATION FairSpec
CONSTANTS
    Senders = {s1}
    Closers = {k1, k2}
    BufferLimit = 2
    InCap = 1
    OutCap = 1
    MsgCap = 1
    ErrCap = 1
    Printed = {"whole", "head", "tail", "odd", "noise", "huge"}
    MaxLines = 3
INVARIANTS
    TypeOK
    WritersHaveStdin
    DisconnectIsFinal
    EveryMessageOnce
PROPERTIES
    ReaderEnds
    DisconnectReturns
    MessagesArrive
CHECK_DEADLOCK FALSE
