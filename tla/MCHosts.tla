------------------------------- MODULE MCHosts --------------------------------
(* The program inside its hosts for TLC: the record queue and the table           *)
(* functions DuckDB's threads call, the aggregate that merges partial states, the *)
(* two transports that read byte ranges, and COPY in SedonaDB.  They share no     *)
(* state; `part' says which one a behaviour is about, and x1, x2, ... are that    *)
(* component's variables (the record queue's are its own).                        *)
EXTENDS RecordQueue, TLC

CONSTANTS Null, NaN, Unwritten, NoCall, NoBox, NoLimit, t1, t2, opener

VARIABLES part, x1, x2, x3, x4, x5, x6, x7, x8, x9, x10, x11, x12

pool == <<x1, x2, x3, x4, x5, x6, x7, x8, x9, x10, x11, x12>>

Off == "off"

-----------------------------------------------------------------------------
(* Statements over three cells of three, no and one class.                       *)

Cell(c, classes, valid, partial) ==
    [cell |-> c, classes |-> classes, valid |-> valid, partial |-> partial]
ThreeCells ==
    <<Cell(1, <<5, 2, 9>>, TRUE, FALSE), Cell(2, <<>>, TRUE, FALSE), Cell(3, <<4>>, FALSE, TRUE)>>

Plain ==
    [resolutions |-> <<>>, min |-> Null, max |-> Null, resolution |-> Null, position |-> 7,
     box |-> <<Null, "malformed", "box", Null>>,
     limits |-> [decode_workers |-> Null, fetch_workers |-> 2],
     session |-> [decode_workers |-> 0, fetch_workers |-> 3],
     environment |-> [decode_workers |-> 4, fetch_workers |-> Null],
     sampling |-> <<[dx |-> 25, dy |-> 75, weight |-> 1]>>, compact |-> FALSE, context |-> TRUE,
     useDuckDbFs |-> [session |-> Null, environment |-> TRUE], hasFileSystem |-> TRUE]
OffPixel == [Plain EXCEPT !.sampling = <<[dx |-> 25, dy |-> 101, weight |-> 1]>>]
\* Compaction: one resolution, two that would collide, two that do not.
Compacting ==
    {[Plain EXCEPT !.compact = TRUE, !.resolutions = rs] : rs \in {<<>>, <<6, 5>>, <<5, 3>>}}
Parameters ==
    {Plain, OffPixel, [Plain EXCEPT !.resolutions = <<16, 5, 3>>], [Plain EXCEPT !.min = 4, !.max = 6],
     [Plain EXCEPT !.limits.decode_workers = 0]}

Statement(fn, geom, quantiles, partition, fate, opens, ok, parameters) ==
    [fn |-> fn, geom |-> geom, quantiles |-> quantiles, partition |-> partition, fate |-> fate,
     opens |-> opens, wellFormed |-> ok, parameters |-> parameters, cells |-> ThreeCells]
Fates == {"end", "error"}
Scans ==
    {Statement(fn, g, q, p, f, TRUE, TRUE, Plain) :
        fn \in {"continuous", "wide", "long"}, g \in BOOLEAN, q \in {0, 2}, p \in BOOLEAN, f \in Fates}
OtherStatements ==
    {Statement(fn, FALSE, 0, FALSE, f, TRUE, TRUE, ps) :
        fn \in {"plan", "pmtiles", "tiles", "parquet"}, f \in Fates, ps \in Parameters}
      \cup {Statement("wide", TRUE, 0, FALSE, "end", FALSE, ok, Plain) : ok \in BOOLEAN}
      \cup {Statement("wide", FALSE, 0, p, "end", TRUE, TRUE, ps) :
                p \in BOOLEAN, ps \in Compacting}

Duck == INSTANCE DuckDbScan WITH
    Statements <- Scans \cup OtherStatements, Threads <- {t1, t2}, VectorSize <- 2,
    query <- x1, phase <- x2, declared <- x3, global <- x4, stream <- x5, cursor <- x6,
    next <- x7, running <- x8, rows <- x9, ended <- x10

\* Partial states of three groups, one of them of nulls only; and an undecodable one.
State(i, group, kind) == [id |-> i, group |-> group, kind |-> kind]
PartialColumns ==
    {{State(1, "a", "state"), State(2, "a", "state"), State(3, "b", "state"), State(4, "b", "null"),
      State(5, "c", "null"), State(7, "b", "state")},
     {State(1, "a", "state"), State(2, "a", "state"), State(3, "b", "state"), State(6, "a", "bad")}}

Partials == INSTANCE MergePartials WITH
    Inputs <- PartialColumns, Groups <- {"a", "b", "c"}, Updaters <- {t1, t2}, Final <- "final",
    input <- x1, pending <- x2, slot <- x3, box <- x4, dropped <- x5, array <- x6,
    result <- x7, failed <- x8

\* A file of two blocks, the second one short; a file that has shrunk since it was opened.
Http == INSTANCE HttpRangeSource WITH
    Readers <- {t1, t2}, Opener <- opener, FileSize <- 3, BlockSize <- 2, MaxRetries <- 1,
    MaxLength <- 3,
    source <- x1, complete <- x2, totalSize <- x3, blocks <- x4, pc <- x5, call <- x6,
    attempt <- x7, buffer <- x8

DuckFile == INSTANCE DuckDbFileTransport WITH
    Readers <- {t1, t2}, MaxHandles <- 3, TotalSize <- 3, Length <- 2, None <- Null,
    pool <- x1, opened <- x2, position <- x3, request <- x4, handle <- x5, at <- x6,
    buf <- x7, answer <- x8

\* What the proofs about the aggregate and the two transports assume of an instance.
ASSUME HostsAssumption ==
    Partials!MergeAssumption /\ Http!SourceAssumption /\ DuckFile!TransportAssumption

-----------------------------------------------------------------------------
(* A raster as a table of SedonaDB.                                              *)

\* Cells of resolution 2 on the antimeridian, on the equator, in the north and
\* at the pole, and their parents of resolution 1.
EarthCells ==
    [a |-> {<<-12, 0>>, <<11, 0>>}, b |-> {<<9, 0>>, <<10, 0>>}, c |-> {<<0, 0>>, <<1, 0>>},
     d |-> {<<2, 0>>, <<3, 0>>}, e |-> {<<-4, 9>>, <<5, 9>>}, f |-> {<<-2, 6>>, <<0, 6>>}]
EarthParents == [A |-> {"a", "b"}, B |-> {"c", "d"}]
EarthPoints ==
    EarthCells @@ [p \in DOMAIN EarthParents |-> UNION {EarthCells[c] : c \in EarthParents[p]}]
Earth == UNION {EarthCells[c] : c \in DOMAIN EarthCells}

Scanned(resolutions, box, compact, pts) ==
    [resolutions |-> resolutions, box |-> box, minCount |-> 0, minStat |-> 0, maxStat |-> 9,
     compact |-> compact, part |-> pts]
Copy(kind, config, filters, limit) ==
    [kind |-> kind, untagged |-> "LngLat", config |-> config, filters |-> filters,
     limit |-> limit, batch |-> 8, minZoom |-> 0, maxZoom |-> 15, output |-> "file",
     type |-> "UInt64", odd |-> "none", h3 |-> "cell", faults |-> FALSE]
Lit(type, v) == [type |-> type, v |-> v]
Where(col, op, v) ==
    [form |-> "compare", col |-> col, op |-> op, lit |-> Lit("int", v), flipped |-> FALSE]
Near(box, tag, means, distance) ==
    [form |-> "spatial", geometry |-> [box |-> box, tag |-> tag, means |-> means],
     distance |-> distance]
At(box, distance) == Near(box, "lnglat", box, distance)

Envelopes ==
    {<<11, 0, 11, 0>>, <<-12, 0, -12, 0>>, <<12, -1, 12, 1>>, <<7, 0, 8, 0>>, <<0, 0, 0, 0>>,
     <<1, -1, 2, 1>>, <<-2, 6, -2, 6>>, <<5, 9, 5, 9>>, <<-12, -10, 12, 10>>, <<13, 0, 14, 0>>,
     <<0, -9, 1, -9>>}
Spatials ==
    {At(box, 0) : box \in Envelopes} \cup {At(box, 1) : box \in {<<11, 0, 11, 0>>, <<7, 0, 8, 0>>}}
Values ==
    {Where("count", op, v) : op \in {">=", ">", "<"}, v \in {1, 2}}
      \cup {Where("resolution", op, v) : op \in {"=", "<="}, v \in {1, 3, 256}}
      \cup {[Where("resolution", "=", 2) EXCEPT !.lit = Lit("float", 2)],
            [Where("count", ">", 2) EXCEPT !.lit = Lit("null", 0)], [form |-> "other"]}
Between(low, high) == [form |-> "between", col |-> "mean", low |-> low, high |-> high]
Means ==
    {Where("mean", op, 2) : op \in {">=", ">", "<=", "<", "="}}
      \cup {[Where("mean", ">", 2) EXCEPT !.flipped = TRUE],
            [Where("mean", ">", 2) EXCEPT !.lit = Lit("nan", 0)],
            Between(Lit("int", 2), Lit("int", 3)), Between(Lit("int", 2), Lit("null", 0))}
Fractions == {Where("fraction", op, 2) : op \in {">=", ">", "<"}}
Pairs ==
    {<<f, g>> : f \in {At(<<11, 0, 11, 0>>, 0), At(<<1, -1, 2, 1>>, 0)},
                g \in {Where("resolution", "=", 1), Where("count", ">", 1), At(<<0, 0, 1, 0>>, 0)}}

WholeTable == Scanned({2}, NoBox, FALSE, Earth)
West == {p \in Earth : p[1] < 2}
Tables ==
    {Scanned(rs, box, FALSE, Earth) :
        rs \in {{2}, {1, 2}}, box \in {NoBox, <<0, 0, 2, 0>>, <<10, 0, -12, 0>>, <<5, 3, 6, 4>>,
                                 <<5, -9, 6, -8>>}}
      \cup {Scanned({2}, box, TRUE, Earth) : box \in {NoBox, <<0, 0, 2, 0>>}}
      \cup {Scanned({1, 2}, NoBox, c, West) : c \in BOOLEAN}
SpatialCopies ==
    {Copy("continuous", t, q, l) : t \in Tables, l \in {NoLimit, 1},
        q \in {<<>>} \cup {<<f>> : f \in Spatials} \cup Pairs}
      \cup {[Copy("continuous", WholeTable, <<Near(<<0, 0, 1, 1>>, tag, <<2, 0, 3, 1>>, 0)>>, 1)
               EXCEPT !.untagged = "Reject"] : tag \in {"other", "none"}}
ValueCopies ==
    LET tables == {t \in Tables : t.box \in {NoBox, <<0, 0, 2, 0>>}}
    IN  {Copy("continuous", t, <<f>>, l) :
            t \in tables, f \in Values \cup Means, l \in {NoLimit, 2}}
          \cup {Copy("categorical", t, <<f>>, l) :
                   t \in tables, f \in Fractions \cup {Where("count", ">", 1)}, l \in {NoLimit, 1}}
\* Three rows through channels of one batch, anything failing at any time.
FaultyCopies ==
    {[Copy("continuous", Scanned({2}, <<0, 0, 10, 0>>, FALSE, Earth), q, l)
        EXCEPT !.odd = "c", !.h3 = odd[1], !.maxZoom = odd[2], !.batch = 1, !.faults = TRUE] :
        q \in {<<>>, <<Where("mean", ">", 1)>>}, l \in {NoLimit, 2},
        odd \in {<<"cell", 15>>, <<"cell", 0>>, <<"bad", 15>>, <<"null", 15>>}}

\* Statements that are refused.
RefusedCopies ==
    LET copy == Copy("continuous", WholeTable, <<>>, NoLimit)
    IN  {[copy EXCEPT !.minZoom = 16], [copy EXCEPT !.maxZoom = 31],
         [copy EXCEPT !.output = "directory"], [copy EXCEPT !.output = "partitioned"],
         [copy EXCEPT !.type = "Float64"]}

Sedona == INSTANCE SedonaAdapter WITH
    HalfTurn <- 12, Pole <- 10, PolarLat <- 9, Points <- EarthPoints,
    Res <- [c \in DOMAIN EarthPoints |-> IF c \in DOMAIN EarthParents THEN 1 ELSE 2],
    Children <- EarthParents, Margin <- <<3, 1>>,
    Stretch <- [l \in 0 .. 10 |-> CASE l < 5 -> 1 [] l \in 5 .. 6 -> 2 [] OTHER -> 3],
    Raster <- Earth, Tiles <- {<<-12, -1, 0, 10>>, <<0, -1, 12, 10>>},
    Stat <- [p \in Earth |-> (p[1] * p[1] + p[2]) % 5],
    Jobs <- SpatialCopies \cup ValueCopies \cup FaultyCopies \cup RefusedCopies,
    ChannelCapacity <- 1,
    job <- x1, left <- x2, scan <- x3, batches <- x4, reading <- x5, taken <- x6, sink <- x7,
    outgoing <- x8, handed <- x9, worker <- x10, features <- x11, object <- x12

-----------------------------------------------------------------------------
Spare == x11 = Off /\ x12 = Off
Rest == x9 = Off /\ x10 = Off /\ Spare
spare == <<x11, x12>>
rest == <<x9, x10, spare>>

HostsInit ==
    /\ Init
    /\ \/ /\ part = "records"
          /\ x1 = Off /\ x2 = Off /\ x3 = Off /\ x4 = Off /\ x5 = Off /\ x6 = Off
          /\ x7 = Off /\ x8 = Off /\ Rest
       \/ part = "duckdb" /\ Duck!Init /\ Spare
       \/ part = "partials" /\ Partials!MergeInit /\ Rest
       \/ part = "http" /\ Http!Init /\ Rest
       \/ part = "file" /\ DuckFile!TransportInit /\ Rest
       \/ part = "sedona" /\ Sedona!Init

HostsNext ==
    /\ UNCHANGED part
    /\ \/ part = "records" /\ Next /\ UNCHANGED pool
       \/ /\ UNCHANGED vars
          /\ \/ part = "duckdb" /\ Duck!Next /\ UNCHANGED spare
             \/ part = "partials" /\ Partials!MergeNext /\ UNCHANGED rest
             \/ part = "http" /\ Http!Next /\ UNCHANGED rest
             \/ part = "file" /\ DuckFile!TransportNext /\ UNCHANGED rest
             \/ part = "sedona" /\ Sedona!Next

\* DuckDB's threads keep calling the scan and get its mutex in the end; a request ends
\* by its time-outs, and a thread in a call runs on; so do the threads and the task of COPY.
HostsFairness ==
    /\ \A t \in Threads :
         /\ WF_vars(part = "records" /\ (FastPath(t) \/ SlowPath(t)))
         /\ SF_vars(part = "records" /\ LockStreamer(t))
    /\ WF_pool(part = "http" /\ Http!Probe /\ UNCHANGED rest)
    /\ \A t \in {t1, t2, opener} : WF_pool(part = "http" /\ Http!Step(t) /\ UNCHANGED rest)
    /\ WF_pool(part = "sedona" /\ Sedona!Scanner)
    /\ WF_pool(part = "sedona" /\ Sedona!Copier)
    /\ WF_pool(part = "sedona" /\ Sedona!Builder)

HostsSpec == HostsInit /\ [][HostsNext]_<<part, vars, pool>> /\ HostsFairness

-----------------------------------------------------------------------------
(* Properties.                                                                   *)

\* Whichever of DuckDB's threads calls next, the rows it is handed are the promised ones,
\* under the columns that bind declared, and the scan ends only when all are handed out
\* (bind, init and scan of the table functions).  Whatever a SedonaDB scan takes over of a
\* query's filters and limit, the rows are those of the query over the whole table, and an
\* object appears at the path of COPY only with all of them (apply_shared_filter,
\* reader_limit, translate, and write_all of the sink).
ScanExact ==
    /\ part = "duckdb" => Duck!ScanExact
    /\ part = "sedona" => Sedona!CopyExact

\* A merged group is the merge of its own states, whatever threads met them, and every
\* boxed state is freed once (update, combine, finalize and destroy of the aggregate).
MergeExact == part = "partials" => Partials!MergeExact

\* A read answers with the bytes of its own range or an error, whoever filled the block
\* cache, whatever the server sent and whoever used the file handle before
\* (RemoteHttpSource and the DuckDB file transport).
RemoteReads ==
    /\ part = "http" => Http!ReadsExact
    /\ part = "file" => DuckFile!FetchExact

\* Every scan thread gets the end of the stream or its error, and every call on the
\* remote source returns, however often the server fails; COPY ends, and so do its threads.
CallsEnd ==
    /\ <>(/\ part = "records" => \A t \in Threads : pc[t] \in {"eof", "error"}
          /\ part = "sedona" => Sedona!AllEnded)
    /\ \A t \in {t1, t2, opener} :
         (part = "http" /\ x5[t] \in {"request", "insert"})
           ~> (part = "http" => x5[t] \in {"idle", "ok", "error"})

=============================================================================
