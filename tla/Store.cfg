SPECIFICATION Spec
CONSTANTS
    Authors = {1}
    Keys <- NestedKeys
    MaxByte = 1
    MaxTime = 2
    Hashes = {0, 1}
    EmptyHash = 0
    Peers = {1, 2, 3}
    MaxNanos = 2
    PeerCacheSize = 2
    MaxOps = 4
INVARIANTS
    NoShadowedEntries
    IndexCoversRecords
    CleanMeansCommitted
    SnapshotSeesWrites
    NoOrphanRows
    OpenCapabilityIsStored
    PeersCacheBounded
PROPERTIES
    
    StoredEntryClearsItsPrefix
