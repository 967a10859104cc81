SPECIFICATION Spec
CONSTANTS
    Capacity = 2
    TotalJobs = 4
    NoItem = NoItem
    Workers = {w1, w2}
    PoolCapacity = 2
    MaxBatch = 2
INVARIANT
    PoolCounted
PROPERTIES
    ImplementsStream
CHECK_DEADLOCK FALSE
