SPECIFICATION Spec
CONSTANTS
    Writers = {1}
    MaxTasks = 3
    MaxHead = 1
    MaxLeaves = 1
    MaxFaults = 1
INVARIANTS
    RunningHasATask
    OkDialExchanged
    OneExchangeAtATime
CHECK_DEADLOCK FALSE
