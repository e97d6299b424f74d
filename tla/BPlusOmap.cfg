SPECIFICATION Spec
CHECK_DEADLOCK FALSE
CONSTANTS
    v1 = v1
    v2 = v2
    Keys <- MCKeys
    Values = {v1, v2}
    NoValue = NoValue
    NoUpdate = NoUpdate
    Configs <- MCConfigs
INVARIANTS
    NeverThrows
    TreeIntact
    SearchReaches
    RoundsHidden
PROPERTIES
    Dictionary
