------------------------------- MODULE MCExports ------------------------------
(* The exporters and their formats for TLC: the PMTiles tiler, the external       *)
(* export, tiling of a Parquet file, COPY ... TO, the archive and its layers, the *)
(* Parquet pipeline, and the columnar reader with its Arrow stream.  The          *)
(* components share no state; `part' says which one a behaviour is about, and the *)
(* variables x1, x2, ... are that component's (the tiler's are its own).          *)
EXTENDS PmtilesTiler, TLC

CONSTANTS Null, NaN, Refused, Idle, t1, t2

VARIABLES part, x1, x2, x3, x4, x5, x6, x7, x8, x9, x10, x11, x12, x13, x14

pool == <<x1, x2, x3, x4, x5, x6, x7, x8, x9, x10, x11, x12, x13, x14>>

Off == "off"

-----------------------------------------------------------------------------
(* Tiles: rows of heights 32, 16, ... 2 and two resolutions of cells.            *)

TileRows == [z \in 0 .. 4 |-> <<32, 16, 8, 4, 2>>[z + 1]]
CellRadius == [r \in 1 .. 2 |-> IF r = 1 THEN 2 ELSE 1]

FourCells == 1 .. 4
FourRes == <<1, 1, 2, 2>>
FourSouth == <<20, 14, 17, 3>> @@ (11 :> 2) @@ (12 :> 12)
FourNorth == <<24, 18, 19, 5>> @@ (11 :> 27) @@ (12 :> 30)
FourParents == [c \in 1 .. 4 |-> [r \in {0} |-> IF c = 1 THEN 11 ELSE 12]]

\* Budget: two records; the interner holds one name; 99 is no cell.
External == INSTANCE ExternalExport WITH
    Cells <- 1 .. 3, Res <- <<1, 2, 1>>, South <- <<20, 3, 17>>, North <- <<24, 5, 19>>,
    Center <- <<22, 4, 18>>, Invalid <- {99}, Keys <- {"a", "b"}, MaxKeys <- 1, Budget <- 2,
    EvictEvery <- 2, MaxPushes <- 4,
    phase <- x1, pushed <- x2, total <- x3, valid <- x4, keys <- x5, buffer <- x6,
    runs <- x7, heads <- x8, acc <- x9, merged <- x10, written <- x11, summary <- x12

\* Every file of one or two row groups of one or two rows.
RowGroups == UNION {[1 .. n -> 0 .. 3] : n \in 1 .. 2}

Rows == INSTANCE ParquetTiler WITH
    Cells <- 1 .. 3, Res <- <<1, 2, 1>>, South <- <<20, 17, 3>>, North <- <<24, 19, 6>>,
    Null <- 0, Files <- UNION {[1 .. n -> RowGroups] : n \in 1 .. 2},
    phase <- x1, groups <- x2, scanned <- x3, extents <- x4, at <- x5, counts <- x6,
    acc <- x7, written <- x8, nested <- x9, drawn <- x10

-----------------------------------------------------------------------------
(* COPY statements: three column lists, with options in range, out of range and   *)
(* unknown, over chunks with null and invalid cells, by two threads.              *)

Row(c, ok, z, ps) == [cell |-> c, valid |-> ok, zoom |-> z, props |-> ps]
RowA == Row("a", TRUE, 3, <<1, Null>>)
RowB == Row("b", TRUE, 5, <<2, 7>>)
RowNull == Row(Null, FALSE, 0, <<1, 7>>)
RowBad == Row("x", FALSE, 0, <<1, 7>>)

Opt(n, v) == [name |-> n, value |-> v]
OptionLists ==
    {<<>>, <<Opt("MIN_ZOOM", 4)>>, <<Opt("MAX_ZOOM", 4), Opt("MIN_ZOOM", Null)>>,
     <<Opt("MIN_ZOOM", 5), Opt("MAX_ZOOM", 4)>>, <<Opt("MEMORY_BUDGET_MB", 0)>>,
     <<Opt("ZOOM", 3)>>, <<Opt("MAX_ZOOM", 5), Opt("MIN_ZOOM", 5), Opt("MEMORY_BUDGET_MB", 8)>>}

CopyStatements ==
    [types : {<<"ubigint", "double", "bigint">>, <<"varchar", "double", "blob">>,
              <<"double", "double", "double">>},
     options : OptionLists,
     chunks : {<<<<RowA, RowNull>>, <<RowB>>, <<RowA>>>>, <<<<RowA, RowB>>, <<RowBad>>>>,
               <<>>, <<<<RowB, RowA>>, <<RowB>>>>},
     spills : BOOLEAN]
        \cup {[types |-> <<>>, options |-> <<>>, chunks |-> <<>>, spills |-> FALSE]}

Copy == INSTANCE PmtilesCopy WITH
    Threads <- {t1, t2}, Statements <- CopyStatements, MaxBudget <- 100,
    statement <- x1, phase <- x2, failed <- x3, options <- x4, waiting <- x5,
    held <- x6, exporter <- x7, output <- x8, open <- x9

-----------------------------------------------------------------------------
(* Archives of up to four tiles with leaves of two entries, and layers of up to   *)
(* two hexagons, some of them across the antimeridian.                            *)

Typed(type, p) == [type |-> type, p |-> p]
Properties ==
    {[shape |-> "Continuous", cell |-> 26, resolution |-> 5, mean |-> 5, sum |-> 5,
      stddev |-> 0, count |-> 1, min |-> 5, max |-> 5],
     [shape |-> "Categorical", cell |-> 5, resolution |-> 5, majority |-> -3, fraction |-> 5,
      distinct |-> 5, entropy |-> 0, count |-> 1],
     [shape |-> "Generic", list |-> <<<<"count", Typed("HexStr", <<1, 10>>)>>,
        <<"sum", Typed("String", <<1, 10>>)>>, <<"max", Typed("Float", <<5>>)>>,
        <<"mean", Typed("Bool", <<1>>)>>>>]}
Hexagon(id, props, ring) == [id |-> id, props |-> props, ring |-> ring]
\* Round a pole eastward and westward, with no vertex, one at 180 and one at -180 on
\* the seam, the last at each place of the ring.
PolarXs == {<<1, 4, 6>>, <<6, 4, 1>>, <<3, 8, 5>>, <<8, 3, 6>>, <<0, 3, 6>>, <<3, 6, 0>>, <<6, 0, 3>>}

Drawn == {Hexagon(1, p, <<<<a, 1>>, <<(a + d[1]) % 8, 3>>, <<(a + d[2]) % 8, 2>>>>) :
             p \in Properties, a \in 0 .. 7, d \in {<<-3, -1>>, <<2, -1>>, <<2, 1>>}}
         \cup {Hexagon(3, [shape |-> "Generic", list |-> <<>>],
                       [i \in 1 .. 3 |-> <<xs[i], IF north THEN ys[i] ELSE 8 - ys[i]>>]) :
             xs \in PolarXs, ys \in {<<1, 3, 1>>}, north \in BOOLEAN}

\* The root holds one pointer or two.
Archive(limit) == INSTANCE PmtilesArchive WITH
    MaxZoom <- 3, Written <- {<<0, 0, 0>>, <<1, 1, 0>>, <<2, 3, 1>>, <<3, 4, 7>>, <<3, 5, 7>>},
    Lengths <- {1, 3}, LeafSize <- 2, RootLimit <- limit, MaxTiles <- 4,
    World <- 8, TileColumns <- {<<1, 0>>, <<2, 0>>, <<4, 3>>}, Hexagons <- Drawn,
    Allowed <- {"h3_index", "h3_hex", "mean", "sum", "count", "majority", "majority_fraction"},
    MaxFeatures <- 2, VarintBase <- 4, WordSize <- 64,
    entries <- x1, spill <- x2, archive <- x3, status <- x4,
    tile <- x1, features <- x2, seen <- x3, added <- x4, encoded <- x5

-----------------------------------------------------------------------------
(* Parquet pipeline: short, unsorted and long streams over row groups of two.    *)

Pipeline == INSTANCE ParquetPipeline WITH
    Streams <- {<<>>, <<3, 1, 2>>, <<5, 4, 3, 2, 1>>, <<1, 2, 5, 4, 3, 7, 6>>},
    Options <- {<<TRUE, FALSE, FALSE>>, <<FALSE, FALSE, FALSE>>,
                <<TRUE, TRUE, TRUE>>, <<FALSE, TRUE, TRUE>>}, RowGroupSize <- 2,
    ChannelCapacity <- 2,
    opts <- x1, stream <- x2, accepted <- x3, main <- x4, current <- x5, full <- x6,
    empty <- x7, senderGone <- x8, receiverGone <- x9, writer <- x10, held <- x11,
    groups <- x12, bbox <- x13, published <- x14

-----------------------------------------------------------------------------
(* Columnar scans: continuous, partitioned, wide and long, with projections,      *)
(* small batches, limits and a streamer that fails at the end.                    *)

Continuous(c, dev, q, st) ==
    [h3_index |-> c, resolution |-> 5, mean |-> <<"mean", c>>, stddev |-> dev,
     count |-> <<"n", c>>, min |-> <<"min", c>>, max |-> <<"max", c>>, sum |-> <<"sum", c>>,
     quantiles |-> q, state |-> st]
Tenths(a, b) == [p10 |-> a, p90 |-> b]
ContinuousCells == <<Continuous(1, 4, Tenths(11, 12), Null),
                     Continuous(2, NaN, Tenths(21, NaN), <<7>>),
                     Continuous(3, 5, Tenths(31, 32), Null)>>

Categorical(c, classes, total) ==
    [h3_index |-> c, resolution |-> 5, classes |-> classes, total_count |-> total,
     entropy |-> <<"e", c>>, histogram |-> <<c, c>>, majority |-> <<c, 10 * c, 100 * c>>]
CategoricalCells == <<Categorical(1, <<<<5, 1>>, <<2, 3>>, <<3, 1>>>>, 5), Categorical(2, <<>>, 0),
                      Categorical(3, <<<<1, 1>>>>, 1)>>

ScanJob(k, recs, f, q, p, b, l) ==
    [kind |-> k, records |-> recs, fate |-> f, quantiles |-> q, projection |-> p, batch |-> b,
     limit |-> l]
ScanJobs ==
    {ScanJob("continuous", ContinuousCells, f, <<"p10", "p90">>, p, b, l) :
        f \in {"end", "error"}, p \in {Null, <<11, 0>>, <<11, 3, 10>>, <<0, 2>>, <<12>>},
        b \in {0, 2}, l \in {Null, 0, 2}}
    \cup {ScanJob("partitioned", ContinuousCells, f, <<"p10", "p90">>, p, b, Null) :
        f \in {"end", "error"}, p \in {Null, <<0, 8>>, <<8, 11, 0>>, <<0, 2>>}, b \in {0, 2}}
    \cup {ScanJob(k, CategoricalCells, f, <<>>, p, b, l) :
        k \in {"wide", "long"}, f \in {"end", "error"}, p \in {Null, <<2, 0>>, <<8, 9>>},
        b \in {1, 2}, l \in {Null, 2}}

Batches == INSTANCE BatchReader WITH
    Jobs <- ScanJobs,
    job <- x1, left <- x2, finished <- x3, remaining <- x4, cursor <- x5, rows <- x6,
    pending <- x7, calling <- x8, got <- x9, pc <- x10

Arrow == INSTANCE ArrowArrayStream WITH
    Columns <- 2, MaxStructs <- 2,
    stream <- x1, lastError <- x2, out <- x3, frees <- x4, held <- x5

\* What the proof about the Arrow structs assumes of an instance.
ASSUME StructsAssumption == Arrow!ArrowAssumption

-----------------------------------------------------------------------------
\* The variables a component with fewer than 14 does not use.
After12 == x13 = Off /\ x14 = Off
After10 == x11 = Off /\ x12 = Off /\ After12
After9 == x10 = Off /\ After10
After5 == x6 = Off /\ x7 = Off /\ x8 = Off /\ x9 = Off /\ After9
After4 == x5 = Off /\ After5
After0 == x1 = Off /\ x2 = Off /\ x3 = Off /\ x4 = Off /\ After4
rest12 == <<x13, x14>>
rest10 == <<x11, x12, rest12>>
rest9 == <<x10, rest10>>
rest5 == <<x6, x7, x8, x9, rest9>>
rest4 == <<x5, rest5>>
rest0 == <<x1, x2, x3, x4, rest4>>

ExportsInit ==
    /\ Init
    /\ \/ part = "tiler" /\ After0
       \/ part = "external" /\ External!Init /\ After12
       \/ part = "rows" /\ Rows!Init /\ After10
       \/ part = "copy" /\ Copy!Init /\ After9
       \/ part = "archive" /\ Archive(6)!Init /\ After4
       \/ part = "leaves" /\ Archive(9)!Init /\ After4
       \/ part = "layer" /\ Archive(6)!LayerInit /\ After5
       \/ part = "pipeline" /\ Pipeline!Init
       \/ part = "batches" /\ Batches!Init /\ After10
       \/ part = "arrow" /\ Arrow!ArrowInit /\ After5

ExportsNext ==
    /\ UNCHANGED part
    /\ \/ part = "tiler" /\ Next /\ UNCHANGED pool
       \/ part = "external" /\ External!Next /\ UNCHANGED <<vars, rest12>>
       \/ part = "rows" /\ Rows!Next /\ UNCHANGED <<vars, rest10>>
       \/ part = "copy" /\ Copy!Next /\ UNCHANGED <<vars, rest9>>
       \/ part = "archive" /\ Archive(6)!Next /\ UNCHANGED <<vars, rest4>>
       \/ part = "leaves" /\ Archive(9)!Next /\ UNCHANGED <<vars, rest4>>
       \/ part = "layer" /\ Archive(6)!LayerNext /\ UNCHANGED <<vars, rest5>>
       \/ part = "pipeline" /\ Pipeline!Next /\ UNCHANGED vars
       \/ part = "batches" /\ Batches!Next /\ UNCHANGED <<vars, rest10>>
       \/ part = "arrow" /\ Arrow!ArrowNext /\ UNCHANGED <<vars, rest5>>

\* The two threads of the tiler and those of the Parquet pipeline are scheduled by the
\* operating system.
Fairness ==
    /\ WF_vars(part = "tiler" /\ Produce) /\ WF_vars(part = "tiler" /\ Consume)
    /\ WF_pool(part = "pipeline" /\ Pipeline!Main) /\ WF_pool(part = "pipeline" /\ Pipeline!Writer)

ExportsSpec == ExportsInit /\ [][ExportsNext]_<<part, vars, pool>> /\ Fairness

-----------------------------------------------------------------------------
\* An export always ends and leaves no thread behind: an error of the producer, of the
\* consumer or of the writer never leaves the other side blocked on a full or empty
\* channel (the tiler's producer thread, the Parquet writer thread).
ExportsEnd ==
    <>(/\ part = "tiler" => pc \in {"done", "failed"} /\ producer \in {"none", "ok", "failed"}
       /\ part = "pipeline" => x4 \in {"done", "failed"} /\ Pipeline!WriterDead)

\* What the other exporters write when they succeed is what they were given, and the
\* summary accounts for what is missing: the spilled and merged features of the external
\* export, the rows of a Parquet file that decode, read in the scheduled order, and the
\* rows the COPY threads pushed.
FilesExact ==
    /\ part = "external" => External!ExportExact
    /\ part = "rows" => Rows!GroupsExact
    /\ part = "copy" => Copy!CopyExact

\* A reader of the format gets back each tile and each feature that was written, through
\* leaf directories and through shared keys and values.
ArchiveReadable ==
    /\ part = "archive" => Archive(6)!ArchiveReads
    /\ part = "leaves" => Archive(9)!ArchiveReads
    /\ part = "layer" => Archive(6)!LayerReads

\* A Parquet file appears at its destination only with every record in a row group of
\* its own order, and only when both threads succeeded.
ParquetExact == part = "pipeline" => Pipeline!PublishedExact

\* The consumer of a columnar scan gets every record's values under the right column
\* names, up to the limit, or the error; and every block of the Arrow structures is freed
\* exactly once, whatever order they are released in.
ColumnsExact ==
    /\ part = "batches" => Batches!BatchesExact
    /\ part = "arrow" => Arrow!OwnershipExact

=============================================================================
