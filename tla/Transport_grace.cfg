SPECIFICATION Spec
CONSTANTS
    Senders = {s1}
    Closers = {k1}
    BufferLimit = 2
    InCap = 1
    OutCap = 1
    MsgCap = 1
    ErrCap = 1
    Printed = {"whole"}
    MaxLines = 1
INVARIANT GraceIsGiven
CHECK_DEADLOCK FALSE
