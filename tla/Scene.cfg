SPECIFICATION SceneSpec
CONSTANTS
    Ids = {root, a, b, c}
    RootID = root
    NoId = NoId
    PointCounts = {7}
    Spans = {s}
    MaxBlocks = 3
SYMMETRY SymScene
INVARIANTS
    EachNodeDrawnOnce
    LinesAsWritten
    DrawnInItsLayer
PROPERTIES
    SkippedLeavesNothing
