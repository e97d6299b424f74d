\* Maintenance on.  Five keys, one of them not stored; three hot,
\* two of them cached.
\* Windows of two and swaps of four accesses, so that promotion, eviction to
\* the cold tier, demotion and eviction to the hot tier all happen, and a
\* swap is still open when the next scan is due.
SPECIFICATION SpecInterleaved
CHECK_DEADLOCK FALSE
CONSTANTS
    Keys = {0, 1, 2, 3, 4}
    StoredKeys = {0, 1, 2, 3}
    HotKeys = {0, 1, 2}
    BlockOf <- MCBlockOf
    Values = {a}
    NoValue = NoValue
    NoWrite = NoWrite
    NoRef = NoRef
    Absent = Absent
    Cut = Cut
    NoMeta = NoMeta
    CacheSize = 2
    ObsWindow = 2
    SwapInterval = 4
    InitMaint = TRUE
    LateEnable = FALSE
    LongValues = FALSE
    TailOf <- MCTailOf
    MixMoves = FALSE
    DaHot = FALSE
    NumPositions = 1
    PosOf <- MCPosOf
    MaxAccesses = 10
    Modes <- DynamicModes
INVARIANTS
    TypeOK
    NoRecordLost
    OneHome
    BooksAgree
    CacheFpCurrent
    PendingInsertedInTime
PROPERTIES
    SwapImproves
    SizesKept
