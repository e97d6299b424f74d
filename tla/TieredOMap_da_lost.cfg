\* DA hot backend: is every record still reachable?
SPECIFICATION Spec
CHECK_DEADLOCK FALSE
CONSTANTS
    Keys = {0, 1, 2, 3}
    StoredKeys = {0, 1, 2, 3}
    HotKeys = {0, 1, 2}
    BlockOf <- MCBlockOf
    Values = {a}
    NoValue = NoValue
    NoWrite = NoWrite
    NoRef = NoRef
    Absent = Absent
    Cut = Cut
    NoMeta = NoMeta
    CacheSize = 1
    ObsWindow = 2
    SwapInterval = 3
    InitMaint = TRUE
    LateEnable = FALSE
    LongValues = FALSE
    TailOf <- MCTailOf
    MixMoves = FALSE
    DaHot = TRUE
    NumPositions = 2
    PosOf <- MCPosOf
    MaxAccesses = 14
INVARIANTS
    NoRecordLost
