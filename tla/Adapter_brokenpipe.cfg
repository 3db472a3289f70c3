SPECIFICATION AdapterFairSpec
CONSTANTS
    MaxSends = 2
    MaxQueue = 1
    MaxStarts = 1
    Images = {}
    Prompts = {1, 2}
    MaxClients = 3
    MaxCrashes = 1
    MaxFails = 0
PROPERTY NoBrokenPipe
CHECK_DEADLOCK FALSE
