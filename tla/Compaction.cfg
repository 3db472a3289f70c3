SPECIFICATION CompFairSpec
CONSTANTS
    MaxSends = 2
    MaxQueue = 1
    MaxStarts = 1
    Images = {}
    Prompts = {1, 2, 3, 4, 5, 6}
    MaxClients = 3
    MaxCrashes = 1
    MaxFails = 0
    Window = 5
    Tokens <- MCTokens
    Config <- MCConfig
    MaxClears = 1
INVARIANTS
    CompTypeOK
    EstimateFitsHistory
    ConversationIsKept
    ClearedStaysCleared
    ReplacesDeadOnly
PROPERTIES
    SessionIsLatest
    TurnsEnd
    DeadProcessIsReplaced
CHECK_DEADLOCK FALSE
