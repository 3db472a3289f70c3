SPECIFICATION FairSpec
CONSTANTS
    MaxGens = 2
    MaxFails = 1
    Overlap = FALSE
PROPERTY StopTerminates
CHECK_DEADLOCK FALSE
