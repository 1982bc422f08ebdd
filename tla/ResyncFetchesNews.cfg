SPECIFICATION FairSpec
CONSTANTS
    Writers = {1}
    MaxTasks = 3
    MaxHead = 1
    MaxLeaves = 0
    MaxFaults = 0
PROPERTY ResyncFetchesNews
CHECK_DEADLOCK FALSE
