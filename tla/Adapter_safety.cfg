SPECIFICATION AdapterSpec
CONSTANTS
    MaxSends = 2
    MaxQueue = 1
    MaxStarts = 2
    Images = {1}
    Prompts = {1, 2}
    MaxClients = 4
    MaxCrashes = 1
    MaxFails = 1
INVARIANTS
    AdapterTypeOK
    NoOrphan
    OwnAnswers
    StopEndsProcesses
CHECK_DEADLOCK FALSE
