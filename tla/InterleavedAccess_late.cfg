\* A static map that is used, moves keys explicitly and then gets maintenance;
\* payloads shorter than the epoch trailer.
SPECIFICATION SpecInterleaved
CHECK_DEADLOCK FALSE
CONSTANTS
    Keys = {0, 1, 2, 3}
    StoredKeys = {0, 1, 2}
    HotKeys = {0, 1}
    BlockOf <- MCBlockOf
    Values = {a, b}
    NoValue = NoValue
    NoWrite = NoWrite
    NoRef = NoRef
    Absent = Absent
    Cut = Cut
    NoMeta = NoMeta
    CacheSize = 1
    ObsWindow = 3
    SwapInterval = 3
    InitMaint = FALSE
    LateEnable = TRUE
    LongValues = FALSE
    TailOf <- MCTailOf
    MixMoves = FALSE
    DaHot = FALSE
    NumPositions = 1
    PosOf <- MCPosOf
    MaxAccesses = 10
    Modes <- LateModes
INVARIANTS
    HomesKept
PROPERTIES
    RefinesKeyValueMap
