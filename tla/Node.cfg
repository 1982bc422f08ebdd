SPECIFICATION Spec
CONSTANTS
    Authors = {1, 2}
    Keys <- ThreeKeys
    MaxByte = 2
    MaxTime = 2
    Hashes = {0, 1}
    EmptyHash = 0
    Peers = {1}
    OldFiles <- SomeFiles
    Queries <- SomeQueries
    MaxOps = 2
    MaxStarts = 2
INVARIANT ContentSurvives
INVARIANT OpenIndexesAgree
INVARIANT DefaultAuthorKnown
INVARIANT ProtectIsComplete
PROPERTY AnswersAreRight
PROPERTY DroppedStaysDropped
CHECK_DEADLOCK FALSE
