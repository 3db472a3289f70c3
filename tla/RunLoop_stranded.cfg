SPECIFICATION FairSpec
CONSTANTS
    MaxSends = 2
    MaxQueue = 2
    MaxStarts = 1
PROPERTY QueuedIsTaken
CHECK_DEADLOCK FALSE
