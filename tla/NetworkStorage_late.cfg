SPECIFICATION Spec
CONSTANTS
    h1 = h1
    h2 = h2
    Handles = {h1, h2}
    LocalStore = LocalStore
    Shapes <- MCTimedShapes
    Blocks <- MCBlocks
    LoadSeqs <- MCLoads
    MaxIds = 2
    MaxLate = 1
    NoHandle = NoHandle
    NoTree = NoTree
    NoCall = NoCall
    Void = Void
    Threw = Threw
    Garbled = Garbled
INVARIANT AnswerIsOwn
