SPECIFICATION FairSpec
CONSTANTS
    Namespaces = {n1, n2}
    Hashes = {h1, h2}
    Peers = {p1, p2}
    NoNamespace = NoNamespace
    MaxEvents = 3
INVARIANTS
    QueuedIsDownloading
    OwedIsQueued
PROPERTIES
    ReadyAnswersASync
    ReadyComes
    OwnDownloadIsRetried
CHECK_DEADLOCK FALSE
