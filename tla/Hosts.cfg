SPECIFICATION HostsSpec
CONSTANTS
    Threads = {t1, t2, t3}
    NumRecords = 9
    BatchSize = 2
    CanFail = TRUE
    NoThread = NoThread
    Null = Null
    NaN = NaN
    Unwritten = Unwritten
    NoCall = NoCall
    NoBox = NoBox
    NoLimit = NoLimit
    t1 = t1
    t2 = t2
    opener = opener
INVARIANTS
    ScanExact
    MergeExact
    RemoteReads
    RecordsOnce
PROPERTY
    CallsEnd
CHECK_DEADLOCK FALSE
