\* Main reference in round 2 (a B+ search of height one that pauses) or 6 (an
\* AVL search of height two at the end of its budget), the scan's in round 1
\* (AVL) or 4 (B+, height two): never two data paths in one round.
SPECIFICATION Spec
CONSTANTS
    Keys = {0, 1}
    Values = {a, b}
    NoVal = NoVal
    NoWrite = NoWrite
    NoNode = NoNode
    NoBlock = NoBlock
    Level = 2
    Z = 1
    StashMax = 3
    FullObliv = TRUE
    MainRounds = {2, 6}
    ScanRounds = {1, 4}
    OmapRounds = 6
INVARIANTS
    DataIntact
    DataFound
    DataAnswered
PROPERTIES
    LoopEnds
