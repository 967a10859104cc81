SPECIFICATION Spec
CONSTANTS
    Cells <- TwoCells
    NoParent = NoParent
    Parent <- TwoParent
    South <- TwoSouth
    NegInf = 0
    PosInf = 100
    MinCount = 1
    NumRes = 2
    Res <- TwoRes
    Boundary = {}
    Chunks = 4
    Rasters <- UnboundedRasters
    MapBudget = 4
    OutputLimit = 2
    BatchMax = 2
    MaxRows = 3
    CanForce = TRUE
    CanFail = TRUE
INVARIANT DeferredOutputKept
