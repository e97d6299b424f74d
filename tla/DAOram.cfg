SPECIFICATION Spec
CHECK_DEADLOCK FALSE
CONSTANTS
    NumIc = 3
    IcMax = 3
    NumLevels = 1
    Size <- MCSize
    PmKeys <- MCPmKeys
    MaxGc = 1
INVARIANTS
    BlocksFound LeavesCounted
PROPERTIES
    LeavesFresh
