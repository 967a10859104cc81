SPECIFICATION Spec
CONSTANTS
    w1 = w1
    w2 = w2
    c1 = c1
    c2 = c2
    ka = ka
    kb = kb
    kc = kc
    FetchWorkers = {w1, w2}
    Clients = {c1, c2}
    ChunkSlices <- TwiceSlices
    RangeBytes <- TwiceBytes
    MaxBytes = 3
    QueueCapacity = 1
    CanFail = TRUE
    CanBeShort = TRUE
    NoResponse = NoResponse
    NoChunk = NoChunk
SYMMETRY Threads
INVARIANTS
    HeldSound
    HonestAnswers
PROPERTIES
    WaitedForStays
