\* Three keys of which one is added later, a tree of two levels with buckets of
\* one block, room for one block in the stash: full buckets, a full stash, the
\* overflow and rounds that read two paths happen.
SPECIFICATION Spec
CHECK_DEADLOCK FALSE
CONSTANTS
    Keys = {0, 1, 2}
    InitKeys = {0, 1}
    Values = {a, b}
    NoVal = NoVal
    NoWrite = NoWrite
    NoNode = NoNode
    Level = 2
    Z = 1
    StashMax = 1
    PairRounds = TRUE
INVARIANTS
    PathInvariant
    NeverMissing
PROPERTIES
    OverflowOnlyWhenFull
    ImplementsBlockStore
