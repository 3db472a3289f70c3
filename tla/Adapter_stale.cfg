SPECIFICATION AdapterSpec
CONSTANTS
    MaxSends = 2
    MaxQueue = 1
    MaxStarts = 1
    Images = {}
    Prompts = {1, 2}
    MaxClients = 3
    MaxCrashes = 0
    MaxFails = 0
INVARIANT DoneHasOwnAnswer
CHECK_DEADLOCK FALSE
