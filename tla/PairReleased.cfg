SPECIFICATION FairSpec
CONSTANTS
    Writers = {}
    MaxTasks = 3
    MaxHead = 0
    MaxLeaves = 0
    MaxFaults = 1
PROPERTY PairIsReleased
CHECK_DEADLOCK FALSE
