SPECIFICATION FairSpec
CONSTANTS
    Clients = {c1, c2}
    MaxCalls = 4
    MaxTasks = 2
INVARIANTS
    LiveHoldsItsHandle
    LeftIsLeft
    ImportMissesNothing
PROPERTY EveryCallReturns
CHECK_DEADLOCK FALSE
