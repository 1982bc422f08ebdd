SPECIFICATION Spec
CONSTANTS
    Authors = {1}
    Keys <- NestedKeys
    MaxByte = 1
    MaxTime = 2
    Hashes = {0, 1}
    EmptyHash = 0
    Peers = {}
    MaxNanos = 0
    PeerCacheSize = 5
    MaxOps = 4
PROPERTY
    PrefixRemovalIsExact
