SPECIFICATION ExportsSpec
CONSTANTS
    Cells <- FourCells
    South <- FourSouth
    North <- FourNorth
    Res <- FourRes
    Resolutions = {1, 2}
    Compacts = {TRUE, FALSE}
    Parent <- FourParents
    RowHeight <- TileRows
    MaxRadius <- CellRadius
    BatchSize = 2
    ChannelCapacity = 2
    Null = Null
    NaN = NaN
    Refused = Refused
    Idle = Idle
    t1 = t1
    t2 = t2
INVARIANTS
    TilerExact
    FilesExact
    ArchiveReadable
    ParquetExact
    ColumnsExact
PROPERTY
    ExportsEnd
CHECK_DEADLOCK FALSE
