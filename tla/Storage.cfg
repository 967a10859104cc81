SPECIFICATION StorageSpec
CONSTANTS
    Keys = {1, 2}
    Classes = {ca, cb, cc}
    Limit = 2
    MaxLevels = 3
    MaxPushes = 4
    NoParent = NoParent
INVARIANTS
    StreamsExact
    PartitionsExact
    DecodersOptimal
    AccountsHold
PROPERTY
    ImplementsBag
CHECK_DEADLOCK FALSE
