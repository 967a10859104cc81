SPECIFICATION RulesSpec
CONSTANTS
    None = None
    Inf = Inf
    Failed = Failed
    NoBox = NoBox
    All = All
    NoData = NoData
    Inputs <- Lists
    MaxGap = 1
    MaxRange = 4
    MaxOffset = 5
    MaxLength = 2
INVARIANTS
    PlacementRules
    MetadataRules
    WalkExact
    Statistics
    TileRules
    CoalesceTypeOK
    SlicesExact
    RangesTight
    PlanExact
CHECK_DEADLOCK FALSE
