------------------------------- MODULE MCStorage ------------------------------
(* What the aggregation keeps and where, for TLC: the run counter of a spilled    *)
(* resolution, the sharded map, the decoder cache, partitioned scans, and two     *)
(* more instances of the streamer: every small raster, and one partition.  The    *)
(* components share no state; `part' says which one a behaviour is about, and the *)
(* variables x1, x2, ... are that component's.                                    *)
EXTENDS SpillRuns, TLC

CONSTANTS NoParent    \* a cell that is not compacted

VARIABLES part, x1, x2, x3, x4, x5, x6, x7, x8, x9, x10, x11, x12, x13, x14, x15,
          x16, x17, x18, x19, x20, x21, x22, x23, x24

pool == <<x1, x2, x3, x4, x5, x6, x7, x8, x9, x10, x11, x12, x13, x14, x15,
          x16, x17, x18, x19, x20, x21, x22, x23, x24>>

Off == "off"

-----------------------------------------------------------------------------
(* Streamer: one resolution, one pair of siblings and a cell of its own.         *)

OneCells == 1 .. 3
OneParent == (1 :> 11) @@ (2 :> 11) @@ (3 :> NoParent)
OneSouth == (1 :> 3) @@ (2 :> 1) @@ (3 :> 1) @@ (11 :> 2)
OneRes == [c \in OneCells |-> 1]

\* Every raster of three chunks whose northern bounds are tight, loose or missing.
Norths == {<<3, 3, 1>>, <<3, 1, 1>>, <<100, 3, 3>>, <<1, 3, 3>>, <<3, 100, 1>>,
           <<100, 100, 100>>}
AllRasters == {r \in [touch : [1 .. 3 -> SUBSET OneCells], north : Norths] :
                  \A k \in 1 .. 3 : \A c \in r.touch[k] : OneSouth[c] <= r.north[k]}

All == INSTANCE HorizonStreamer WITH
    Cells <- OneCells, Parent <- OneParent, South <- OneSouth, Res <- OneRes,
    MinCount <- 1, NumRes <- 1, Boundary <- {}, Chunks <- 3, Rasters <- AllRasters,
    NegInf <- 0, PosInf <- 100, MapBudget <- 2, OutputLimit <- 2, BatchMax <- 2,
    MaxRows <- 2, CanForce <- FALSE, CanFail <- FALSE,
    raster <- x1, phase <- x2, rows <- x3, lifecycle <- x4, processed <- x5,
    batchEnd <- x6, todo <- x7, active <- x8, tracked <- x9, disk <- x10,
    spilled <- x11, evictionHorizon <- x12, currentHorizon <- x13, finishing <- x14,
    finalRes <- x15, reader <- x16, reading <- x17, compactionParent <- x18,
    flushed <- x19, pending <- x20, output <- x21, partials <- x22, delivered <- x23,
    seen <- x24

\* A partition of the mosaic: no compaction, and cell 2 reaches beyond it.
NoParents == [c \in OneCells |-> NoParent]
PartSouth == [c \in OneCells |-> OneSouth[c]]
PartRasters == {r \in AllRasters : r.north = <<3, 3, 1>>}

Part == INSTANCE HorizonStreamer WITH
    Cells <- OneCells, Parent <- NoParents, South <- PartSouth, Res <- OneRes,
    MinCount <- 2, NumRes <- 1, Boundary <- {2}, Chunks <- 3, Rasters <- PartRasters,
    NegInf <- 0, PosInf <- 100, MapBudget <- 3, OutputLimit <- 2, BatchMax <- 2,
    MaxRows <- 2, CanForce <- FALSE, CanFail <- TRUE,
    raster <- x1, phase <- x2, rows <- x3, lifecycle <- x4, processed <- x5,
    batchEnd <- x6, todo <- x7, active <- x8, tracked <- x9, disk <- x10,
    spilled <- x11, evictionHorizon <- x12, currentHorizon <- x13, finishing <- x14,
    finalRes <- x15, reader <- x16, reading <- x17, compactionParent <- x18,
    flushed <- x19, pending <- x20, output <- x21, partials <- x22, delivered <- x23,
    seen <- x24

-----------------------------------------------------------------------------
(* Sharded map: two cells of one shard and one of another.                       *)

Shards == INSTANCE ShardedResolutionMap WITH
    Cells <- {1, 2, 3}, Shards <- {1, 2}, ShardOf <- <<1, 1, 2>>, South <- <<5, 3, 4>>,
    Horizons <- {2, 4}, MaxClasses <- 3, InlineClasses <- 1, MaxOutput <- 2,
    map <- x1, heap <- x2, tableCap <- x3, heapCap <- x4, dynamicBytes <- x5,
    structureBytes <- x6, trackEviction <- x7, output <- x8, outputBytes <- x9

ASSUME ShardsAssumption == Shards!MapAssumption

(* Decoder cache: every list of six jobs on three tiles.                         *)

Cache == INSTANCE DecoderCache WITH
    JobLists <- [1 .. 6 -> 1 .. 3], CacheSize <- 2,
    tiles <- x1, entries <- x2, job <- x3, opens <- x4, mine <- x5, evicted <- x6

-----------------------------------------------------------------------------
(* Partitioned scans.  A plane of small coordinates: cells of side 2 whose        *)
(* ancestors double, a tile of six chunks and one of four, placed apart, across   *)
(* the antimeridian, or where the transformer gives no finite bounds.             *)

MaxLon == 64
Wide == [across |-> 3, down |-> 2, cw |-> 4, ch |-> 4]
Tall == [across |-> 2, down |-> 2, cw |-> 2, ch |-> 4]
Corners == <<<<-6, 6>>, <<20, -2>>>>

Kept(t, chunks) == SelectSeq([i \in 1 .. 6 |-> [tile |-> t, chunk |-> i - 1]],
                             LAMBDA c : c.chunk \in chunks)

SmallMosaics ==
    {[tiles |-> <<Wide, Tall>>, layout |-> layout,
      chunk_refs |-> Kept(1, kept[1]) \o Kept(2, kept[2])] :
        layout \in {"flat", "nan", "cross"}, kept \in {<<0 .. 5, {0, 3}>>, <<{0, 5}, {}>>}}

Wrap(lon) == IF lon >= MaxLon THEN lon - 2 * MaxLon ELSE lon

\* The chunk's column and row in its tile.
ColumnOf(m, c) == c.chunk % m.tiles[c.tile].across
RowOf(m, c) == c.chunk \div m.tiles[c.tile].across

WestOf(m, c) == Corners[c.tile][1] + ColumnOf(m, c) * m.tiles[c.tile].cw
                  + (IF m.layout = "cross" /\ c.tile = 2 THEN 42 ELSE 0)
NorthOf(m, c) == Corners[c.tile][2] - RowOf(m, c) * m.tiles[c.tile].ch

ChunkBounds(m, c) ==
    IF m.layout = "nan" /\ c.tile = 2 THEN << >>
    ELSE <<Wrap(WestOf(m, c)), NorthOf(m, c) - m.tiles[c.tile].ch,
           Wrap(WestOf(m, c) + m.tiles[c.tile].cw), NorthOf(m, c)>>

\* The samples: the corners of the chunk.
Points(m, c) == {<<Wrap(WestOf(m, c) + i), NorthOf(m, c) - m.tiles[c.tile].ch + j>> :
                    i \in {0, m.tiles[c.tile].cw - 1}, j \in {0, m.tiles[c.tile].ch - 1}}

Side(res) == 2 ^ (4 - res)
CellAt(x, y, res) == [res |-> res, x |-> x \div Side(res), y |-> y \div Side(res)]
CellArea(c) == <<c.x * Side(c.res), c.y * Side(c.res),
                 (c.x + 1) * Side(c.res), (c.y + 1) * Side(c.res)>>
CellAncestors(c) == {CellAt(CellArea(c)[1], CellArea(c)[2], c.res - up) : up \in {1, 3}}
MosaicCells(m) == {CellAt(p[1], p[2], 3) : p \in UNION {Points(m, c) : c \in Range(m.chunk_refs)}}
SamplesAt(m, c, cell) == Cardinality({p \in Points(m, c) : CellAt(p[1], p[2], 3) = cell})

Scan == INSTANCE PartitionedScan WITH
    MaxLon <- MaxLon, MaxLat <- 32, PoleLat <- 31, Mosaics <- SmallMosaics, Targets <- {3, 4},
    CellsAt <- SamplesAt, Bounds <- ChunkBounds, CellsOf <- MosaicCells, Area <- CellArea,
    Ancestors <- CellAncestors, MinCount <- 2, Versions <- {1, 2},
    mosaic <- x1, plan <- x2, worker <- x3, records <- x4, partials <- x5,
    merged <- x6, status <- x7

-----------------------------------------------------------------------------
\* The variables a component of 6, 7 or 9 variables does not use.
After9 == /\ x10 = Off /\ x11 = Off /\ x12 = Off /\ x13 = Off /\ x14 = Off
          /\ x15 = Off /\ x16 = Off /\ x17 = Off /\ x18 = Off /\ x19 = Off
          /\ x20 = Off /\ x21 = Off /\ x22 = Off /\ x23 = Off /\ x24 = Off
After7 == x8 = Off /\ x9 = Off /\ After9
After6 == x7 = Off /\ After7

StorageInit ==
    /\ Init
    /\ \/ part = "all" /\ All!Init
       \/ part = "part" /\ Part!Init
       \/ part = "shards" /\ Shards!MapInit /\ After9
       \/ part = "cache" /\ Cache!Init /\ After6
       \/ part = "scan" /\ Scan!Init /\ After7
       \/ /\ part = "spill"
          /\ x1 = Off /\ x2 = Off /\ x3 = Off /\ x4 = Off /\ x5 = Off /\ x6 = Off
          /\ After6

rest9 == <<x10, x11, x12, x13, x14, x15, x16, x17, x18, x19, x20, x21, x22, x23, x24>>

StorageNext ==
    /\ UNCHANGED part
    /\ \/ part = "spill" /\ Next /\ UNCHANGED pool
       \/ part = "all" /\ All!Next /\ UNCHANGED spillVars
       \/ part = "part" /\ Part!Next /\ UNCHANGED spillVars
       \/ part = "shards" /\ Shards!MapNext /\ UNCHANGED <<spillVars, rest9>>
       \/ part = "cache" /\ Cache!Next /\ UNCHANGED <<spillVars, x7, x8, x9, rest9>>
       \/ part = "scan" /\ Scan!Next /\ UNCHANGED <<spillVars, x8, x9, rest9>>

StorageSpec == StorageInit /\ [][StorageNext]_<<part, spillVars, pool>>

-----------------------------------------------------------------------------
\* What leaves the streamer is the raster, for every small raster and for a partition:
\* each cell that passes the filter once and complete, siblings merged exactly when all
\* of them pass, boundary cells unfiltered, whatever was evicted early or spilled.
StreamsExact ==
    /\ part = "all" => All!StreamExact /\ All!CompactionExact
    /\ part = "part" => Part!StreamExact

\* Every chunk belongs to one partition, and the workers' records with the merged
\* partial cells are the records of an unpartitioned scan.
PartitionsExact == part = "scan" => Scan!EveryChunkOnce /\ Scan!SameAsWholeScan

\* The worker closes the decoder that is needed last, although other workers take jobs
\* it counted on, and opens no more decoders than any policy would.
DecodersOptimal == part = "cache" => Cache!EvictsFurthest /\ Cache!OpensOptimal

\* The bytes the budget trusts equal a recount of map, heap and output after any
\* sequence of merges, evictions, spills and drains, no active cell is missing from its
\* heap, and the run counter has the runs its pushes say.
AccountsHold == CounterShape /\ (part = "shards" => Shards!AccountsBalanced)

=============================================================================
