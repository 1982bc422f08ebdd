SPECIFICATION FairSpec
CONSTANTS
    Namespaces = {n1, n2}
    NoNamespace = NoNamespace
    MaxSessions = 2
    MaxHandles = 2
    MaxEpochs = 2
INVARIANTS
    TypeOK
    StoreOpenAgrees
    OpenIsStored
    SessionsOfThisOpening
PROPERTIES
    HeldSnapshotStays
    DroppedSessionIsReleased
CHECK_DEADLOCK FALSE
