SPECIFICATION FairSpec
CONSTANTS
    ActionCap = 2
    EventCap = 2
    MaxBatch = 3
    Window = 3

PROPERTY InsertsDoNotHang
CHECK_DEADLOCK FALSE
