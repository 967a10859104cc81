SPECIFICATION AlbersSpec
CONSTANTS
    None = None
    Inf = Inf
    Failed = Failed
    NoBox = NoBox
    All = All
    NoData = NoData
    Inputs <- Lists
    MaxGap = 1
    MaxRange = 4
    MaxOffset = 5
    MaxLength = 2
INVARIANT EveryParameterUnderstood
CHECK_DEADLOCK FALSE
