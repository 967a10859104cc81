SPECIFICATION MCSpec
CONSTANTS
    Capacity = 2
    TotalJobs = 4
    NoItem = NoItem
    Limit = 2
    IdleCapacity = 1
    NoWorker = NoWorker
    Workers = {w1, w2}
    Clients = {c1, c2}
    NoResponse = NoResponse
    NoChunk = NoChunk
    Need <- MixedNeed
    Size <- MixedSize
    MinBatch = 1
    MaxBatch = 2
    Faults = {"err", "open", "panic"}
INVARIANTS
    TypeOK
    DeliveredInOrder
    NoSilentTruncation
    BudgetSound
PROPERTIES
    NoOverwrite
    PrefetchEnds
    QueueServes
