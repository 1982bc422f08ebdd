SPECIFICATION Spec
CONSTANTS
    Authors = {1}
    Keys <- FiveKeys
    MaxByte = 2
    MaxTime = 2
    Hashes = {0, 1}
    EmptyHash = 0
    split_factor = 2
    max_set_size = 1
    MaxRejections = 1
    DefaultId = DefaultId
    Sessions <- BothKinds
    Writes <- FewWrites
INVARIANTS
    DoneMeansMerged
    SplitsAreProper
    SessionIsShort
    ServedEntriesArrive
    OnlyTheViewIsSent
CHECK_DEADLOCK FALSE
