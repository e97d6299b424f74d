\* B+ OMAPs, piggybacked scan: a demotion and a promotion in one access.
SPECIFICATION SpecInterleaved
CHECK_DEADLOCK FALSE
CONSTANTS
    Keys = {0, 1, 2, 3, 4}
    StoredKeys = {0, 1, 2, 3}
    HotKeys = {0, 1, 2}
    BlockOf <- MCBlockOf
    Values = {a}
    NoValue = NoValue
    NoWrite = NoWrite
    NoRef = NoRef
    Absent = Absent
    Cut = Cut
    NoMeta = NoMeta
    CacheSize = 2
    ObsWindow = 2
    SwapInterval = 4
    InitMaint = TRUE
    LateEnable = FALSE
    LongValues = FALSE
    TailOf <- MCTailOf
    MixMoves = FALSE
    DaHot = FALSE
    NumPositions = 1
    PosOf <- MCPosOf
    MaxAccesses = 10
    Modes <- BothModes
INVARIANTS
    NoRecordLost
