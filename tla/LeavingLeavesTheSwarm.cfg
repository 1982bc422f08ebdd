SPECIFICATION Spec
CONSTANTS
    Clients = {c1, c2}
    MaxCalls = 4
    MaxTasks = 2
INVARIANT LeavingLeavesTheSwarm
CHECK_DEADLOCK FALSE
