------------------------------ MODULE DuckDbScan ------------------------------
(***************************************************************************)
(* A query over one of the DuckDB table functions, from bind to the last   *)
(* scan call of the last thread.                                           *)
(*                                                                         *)
(*   continuous, wide, long   raster aggregates (table_function.rs,        *)
(*                            categorical_table_function.rs)               *)
(*   plan                     h3_raster_plan_partitions                    *)
(*   pmtiles, tiles, parquet  the exports that answer one summary row      *)
(*                            (tiles: Parquet file to PMTiles)             *)
(*                                                                         *)
(* Bind declares the columns by name and in order; DuckDB then asks for a  *)
(* projection, a list of positions among them; every scan call fills the   *)
(* projected vectors by those positions.  The two agree only by arithmetic *)
(* on the optional columns (geom, quantiles, partial_state), which is what *)
(* ScanExact checks, with every thread's calls interleaved.                *)
(*                                                                         *)
(* The value of a field of a record is the pair <<field, cell>>.  A batch  *)
(* of the aggregates is taken from the record queue (RecordQueue.tla) in   *)
(* one step; the long format expands cells under its own lock.             *)
(***************************************************************************)
EXTENDS Integers, FiniteSets, SequencesExt, Bags

CONSTANTS
  Statements,  \* the queries: function, parameters, and what the raster yields
  Threads,     \* DuckDB's scan threads
  VectorSize,  \* rows of one output chunk
  Null, NaN,   \* SQL NULL, a quantile or entropy nobody computed
  Unwritten    \* a vector slot no writer touched

VARIABLES
  query,     \* the statement
  phase,     \* "bind", "init", "scan" or "failed"
  declared,  \* column names added by bind, in order
  global,    \* the global data of init
  stream,    \* what the streamer has still to give
  cursor,    \* rows of the loaded cell the long format has still to emit
  next,      \* plan: the next partition; exports: 1 once executed
  running,   \* the thread inside the export, or Null
  rows,      \* bag of the rows handed to DuckDB
  ended      \* threads that were answered an empty chunk

scanVars == <<query, phase, declared, global, stream, cursor, next, running, rows, ended>>

Pyramid == INSTANCE TilePyramid WITH RowHeight <- <<>>, MaxRadius <- <<>>

-----------------------------------------------------------------------------
(* Parameters: the first of several spellings that is given and valid.     *)

FirstGiven(choices) ==
  choices[CHOOSE i \in DOMAIN choices :
            /\ choices[i] # {} \/ i = Len(choices)
            /\ \A j \in 1 .. (i - 1) : choices[j] = {}]

Given(value, Valid(_)) == IF value = Null THEN {} ELSE {v \in {value} : Valid(v)}

IsResolution(r) == r \in 0 .. 15
IsPositive(n) == n > 0

\* Only the aggregates and the plan take a resolution by position.
ParseResolutions(p, position) ==
  FirstGiven(<<{r \in ToSet(p.resolutions) : IsResolution(r)},
               IF Given(p.min, IsResolution) # {} /\ Given(p.max, IsResolution) # {}
                 THEN p.min .. p.max ELSE {},
               Given(p.resolution, IsResolution),
               Given(position, IsResolution),
               {8}>>)

\* Four coordinates, a box written out, or the box of a cell given as a
\* number or as text; a spelling that does not parse is passed over.
ParseBbox(p) ==
  LET Parses(b) == b # "malformed"
  IN  FirstGiven([i \in DOMAIN p.box |-> Given(p.box[i], Parses)] \o <<{}>>)

\* An explicit limit must be positive; a limit left out is taken from the
\* session's option, then from the environment.
LimitsRefused(p) == \E n \in DOMAIN p.limits : Given(p.limits[n], IsPositive) = {} /\ p.limits[n] # Null

ParseExecution(p) ==
  [n \in DOMAIN p.limits |->
     FirstGiven(<<Given(p.limits[n], IsPositive), Given(p.session[n], IsPositive),
                  Given(p.environment[n], IsPositive)>>)]

\* DuckDB's own file system is used where the session or the environment asks
\* for it and the bind has a client context with one.
raster_source_factory(p) ==
  IF p.context /\ (p.useDuckDbFs.session = TRUE \/ p.useDuckDbFs.environment) /\ p.hasFileSystem
    THEN "duckdb" ELSE "builtin"

-----------------------------------------------------------------------------
(* The streamer's configuration: budgets in units of 64 KiB, sampling      *)
(* points in hundredths of a pixel, NaN for what is not finite.            *)

MultiResolutionConfig(resolutions) ==
  [aggregation_budget |-> 1024, prefetch_chunks |-> 16, decode_budget |-> 4096,
   compaction_budget |-> Null, decode_workers |-> 4, aggregation_workers |-> Null,
   fetch_workers |-> 8, resolutions |-> resolutions,
   sampling |-> <<[dx |-> 50, dy |-> 50, weight |-> 1]>>, bbox |-> {}, compact |-> FALSE,
   partition |-> FALSE, factory |-> "builtin"]

\* ExecutionParams::apply; the two budgets come in MiB.
ApplyExecution(limits, config) ==
  [n \in DOMAIN config |->
     IF n \in DOMAIN limits /\ limits[n] # {}
       THEN LET v == CHOOSE v \in limits[n] : TRUE
            IN  IF n \in {"decode_budget", "compaction_budget"} THEN 16 * v ELSE v
       ELSE config[n]]

InPixel(x) == x # NaN /\ x \in 0 .. 100

validate(c) ==
  /\ c.aggregation_budget >= Max({Cardinality(c.resolutions), 1})
  /\ c.prefetch_chunks >= 16 /\ c.decode_workers # 0
  /\ c.decode_budget # 0 /\ c.compaction_budget # 0
  /\ c.aggregation_workers # 0 /\ c.fetch_workers # 0
  /\ c.sampling # <<>>
  /\ \A i \in DOMAIN c.sampling :
       LET point == c.sampling[i]
       IN  InPixel(point.dx) /\ InPixel(point.dy) /\ point.weight # NaN /\ point.weight > 0
  /\ c.resolutions # {} /\ \A r \in c.resolutions : r <= 15
  /\ ~(c.partition /\ c.compact)
  /\ c.compact => \A r \in c.resolutions : r = 0 \/ r - 1 \notin c.resolutions

\* What the aggregates configure; the exports neither compact nor split.
ScanConfig(q) ==
  LET p == q.parameters
  IN  ApplyExecution(ParseExecution(p),
        [MultiResolutionConfig(ParseResolutions(p, p.position)) EXCEPT
           !.bbox = ParseBbox(p), !.sampling = p.sampling, !.compact = p.compact,
           !.partition = q.partition, !.factory = raster_source_factory(p)])

ExportConfig(q) ==
  LET p == q.parameters
  IN  ApplyExecution(ParseExecution(p),
        [MultiResolutionConfig(ParseResolutions(p, Null)) EXCEPT
           !.bbox = ParseBbox(p), !.sampling = p.sampling, !.factory = raster_source_factory(p)])

-----------------------------------------------------------------------------
(* Bind                                                                    *)

ContinuousColumns ==
  <<"h3_index", "h3_hex", "mean", "stddev", "count", "min", "max", "sum",
    "resolution", "wkb">>

WideColumns ==
  <<"h3_index", "h3_hex", "majority_class", "majority_fraction", "majority_count",
    "unique_classes", "total_count", "histogram", "resolution", "shannon_entropy",
    "entropy", "distinct_classes", "wkb">>

LongColumns ==
  <<"h3_index", "h3_hex", "category", "count", "fraction", "total_count",
    "resolution", "shannon_entropy", "entropy", "distinct_classes",
    "unique_classes", "wkb">>

PlanColumns == <<"partition_index", "partition_count", "spec">>

PmtilesColumns ==
  <<"total_hexagons", "pmtiles_size_bytes", "min_zoom", "max_zoom", "elapsed_ms",
    "output_path", "status", "transform_failures">>

ParquetColumns ==
  <<"total_hexagons", "parquet_size_bytes", "elapsed_ms", "hexagons_per_sec",
    "output_path", "status", "transform_failures">>

Optional(condition, names) == IF condition THEN names ELSE <<>>

Quantiles(q) == [i \in 1 .. q.quantiles |-> "q" \o ToString(i)]

Columns(q) ==
  CASE q.fn = "continuous" -> ContinuousColumns \o Optional(q.geom, <<"geom">>)
                                \o Quantiles(q) \o Optional(q.partition, <<"partial_state">>)
    [] q.fn = "wide" -> WideColumns \o Optional(q.geom, <<"geom">>)
                          \o Optional(q.partition, <<"partial_state">>)
    [] q.fn = "long" -> LongColumns \o Optional(q.geom, <<"geom">>)
    [] q.fn = "plan" -> PlanColumns
    [] q.fn \in {"pmtiles", "tiles"} -> PmtilesColumns
    [] q.fn = "parquet" -> ParquetColumns

\* A bad path, a limit that is not positive, an invalid list of quantiles, remap or
\* partition; a partition together with quantiles or with the long format.
BindRefused(q) ==
  \/ ~q.wellFormed
  \/ q.fn # "tiles" /\ LimitsRefused(q.parameters)
  \/ q.fn = "continuous" /\ q.partition /\ q.quantiles > 0
  \/ q.fn = "long" /\ q.partition

Init ==
  /\ query \in Statements /\ phase = "bind" /\ declared = <<>> /\ global = Null
  /\ stream = query.cells /\ cursor = <<>> /\ next = 0 /\ running = Null
  /\ rows = EmptyBag /\ ended = {}

Fails == phase' = "failed"

Bind ==
  /\ phase = "bind"
  /\ IF BindRefused(query) THEN Fails /\ UNCHANGED declared
     ELSE phase' = "init" /\ declared' = Columns(query)
  /\ UNCHANGED <<query, global, stream, cursor, next, running, rows, ended>>

-----------------------------------------------------------------------------
(* Global init: DuckDB gives the projected positions (counted from 0).     *)

\* DuckDB's choice: columns of the statement in the order it wants them, none repeated.
Projections(n) ==
  {<<>>, [i \in 1 .. n |-> n - i]}
    \cup {<<i>> : i \in 0 .. (n - 1)}
    \cup {p \in ((n - 4) .. (n - 1)) \X (0 .. (n - 1)) : p[1] # p[2]}

\* Wrong: the geometry column is forgotten.
QStartFixed(geom) == 10

QStart(geom) == IF geom THEN 11 ELSE 10

ContinuousInit(q, projection) ==
  LET start == QStart(q.geom)
      end == start + q.quantiles
  IN  [projected |-> projection, geom |-> q.geom, config |-> ScanConfig(q),
       sketches |-> \E i \in DOMAIN projection : projection[i] \in start .. (end - 1),
       entropy |-> FALSE, state |-> IF q.partition THEN end ELSE Null]

CategoricalInit(q, projection) ==
  [projected |-> projection, geom |-> q.geom, config |-> ScanConfig(q),
   sketches |-> FALSE,
   entropy |-> \E i \in DOMAIN projection : projection[i] \in {7, 8},
   state |-> IF q.partition THEN 13 + (IF q.geom THEN 1 ELSE 0) ELSE Null]

\* The exports and the plan declare no projection pushdown: all columns, in order.
SummaryInit(n) ==
  [projected |-> [i \in 1 .. n |-> i - 1], geom |-> FALSE,
   config |-> ExportConfig(query), sketches |-> FALSE,
   entropy |-> FALSE, state |-> Null]

\* The mosaic opens and the streamer accepts its configuration.
StreamerOpens == query.opens /\ validate(ScanConfig(query))

GlobalInit ==
  /\ phase = "init"
  /\ \/ query.fn = "continuous" /\ StreamerOpens
        /\ \E p \in Projections(Len(declared)) : global' = ContinuousInit(query, p)
     \/ query.fn \in {"wide", "long"} /\ StreamerOpens
        /\ \E p \in Projections(Len(declared)) : global' = CategoricalInit(query, p)
     \/ query.fn \in {"plan", "pmtiles", "tiles", "parquet"}
        /\ global' = SummaryInit(Len(declared))
  /\ phase' = "scan"
  /\ UNCHANGED <<query, declared, stream, cursor, next, running, rows, ended>>

InitFails ==
  /\ phase = "init" /\ query.fn \in {"continuous", "wide", "long"} /\ ~StreamerOpens
  /\ Fails
  /\ UNCHANGED <<query, declared, global, stream, cursor, next, running, rows, ended>>

-----------------------------------------------------------------------------
(* Scan                                                                    *)

Wkb(r) == IF r.valid THEN <<"wkb", r.cell>> ELSE Null
State(r) == IF r.partial THEN <<"state", r.cell>> ELSE Null

\* The projected quantiles, by their place among the declared ones.
QTargets(g, q) ==
  LET places == {c - QStart(g.geom) : c \in ToSet(g.projected)} \cap 0 .. (q.quantiles - 1)
  IN  SortSeq(SetToSeq(places), LAMBDA a, b : a < b)

QuantileColumn(g, q, col, r) ==
  LET targets == QTargets(g, q)
      slot == {s \in DOMAIN targets : targets[s] = col - QStart(g.geom)}
  IN  IF slot = {} THEN Unwritten
      ELSE IF g.sketches THEN <<Quantiles(q)[targets[CHOOSE s \in slot : TRUE] + 1], r.cell>>
      ELSE NaN

ContinuousCell(g, q, col, r) ==
  CASE col \in 0 .. 8 -> <<<<"h3_index", "h3_hex", "mean", "stddev", "count", "min", "max",
                             "sum", "resolution">>[col + 1], r.cell>>
    [] col = 9 \/ (col = 10 /\ g.geom) -> Wkb(r)
    [] col = g.state -> State(r)
    [] OTHER -> IF col >= QStart(g.geom) THEN QuantileColumn(g, q, col, r) ELSE Unwritten

WideCell(g, col, r) ==
  CASE col \in 0 .. 11 -> <<<<"h3_index", "h3_hex", "majority_class", "majority_fraction",
                              "majority_count", "distinct", "total_count", "histogram",
                              "resolution", "entropy", "entropy", "distinct">>[col + 1], r.cell>>
    [] col = 12 -> Wkb(r)
    [] col = g.state -> State(r)
    [] OTHER -> IF col = 13 /\ g.geom THEN Wkb(r) ELSE Unwritten

\* r is one (cell, category) row of the cursor.
LongCell(g, col, r) ==
  CASE col \in {0, 1, 5, 6} -> <<<<"h3_index", "h3_hex", "", "", "", "total_count",
                                   "resolution">>[col + 1], r.cell>>
    [] col \in 2 .. 4 -> <<<<"category", "count", "fraction">>[col - 1], r.cell, r.category>>
    [] col \in {7, 8} -> IF g.entropy THEN <<"entropy", r.cell>> ELSE NaN
    [] col \in {9, 10} -> <<"distinct", r.cell>>
    [] col = 11 -> Wkb(r)
    [] OTHER -> IF col = 12 /\ g.geom THEN Wkb(r) ELSE Unwritten

First(s, n) == SubSeq(s, 1, Min({n, Len(s)}))

\* What the scan function writes at position col for record r.
Cell(col, r) ==
  CASE query.fn = "continuous" -> ContinuousCell(global, query, col, r)
    [] query.fn = "wide" -> WideCell(global, col, r)
    [] query.fn = "long" -> LongCell(global, col, r)

\* Rows of a batch past the vector size are dropped by the chunk writer.
Handed(batch) ==
  LET Row(r) == [i \in DOMAIN global.projected |-> Cell(global.projected[i], r)]
  IN  FoldSeq(LAMBDA r, b : b (+) SetToBag({Row(r)}), EmptyBag, First(batch, VectorSize))

Ends(t) == ended' = ended \cup {t} /\ UNCHANGED <<stream, cursor, next, running, rows, phase>>

Scanning(t, fns) == phase = "scan" /\ query.fn \in fns /\ t \notin ended

\* pop_or_refill gives a batch of completed records: the cells of a partitioned
\* scan are interior records followed by partial ones.
ScanBatch(t) ==
  /\ Scanning(t, {"continuous", "wide"})
  /\ \E n \in 1 .. VectorSize :
       /\ n <= Len(stream)
       /\ rows' = rows (+) Handed(SubSeq(stream, 1, n))
       /\ stream' = SubSeq(stream, n + 1, Len(stream))
  /\ UNCHANGED <<query, phase, declared, global, cursor, next, running, ended>>

ScanBatchEnds(t) ==
  /\ Scanning(t, {"continuous", "wide"}) /\ stream = <<>> /\ query.fate = "end"
  /\ Ends(t)
  /\ UNCHANGED <<query, declared, global>>

ScanBatchFails(t) ==
  /\ Scanning(t, {"continuous", "wide"}) /\ stream = <<>> /\ query.fate = "error"
  /\ Fails
  /\ UNCHANGED <<query, declared, global, stream, cursor, next, running, rows, ended>>

\* CategoricalLongCursor::load: the rows of one cell, by category.
Load(r) ==
  LET classes == SortSeq(r.classes, LAMBDA a, b : a < b)
  IN  [i \in DOMAIN classes |-> [cell |-> r.cell, valid |-> r.valid, category |-> classes[i]]]

Expanded(n) == cursor \o FlattenSeq([i \in 1 .. n |-> Load(stream[i])])

\* One scan call of the long format: cells are loaded one at a time, and only
\* while the chunk has room; the cursor's lock is held throughout.
LoadedFor == CHOOSE n \in 0 .. Len(stream) :
               /\ Len(Expanded(n)) >= VectorSize \/ n = Len(stream)
               /\ \A k \in 0 .. (n - 1) : Len(Expanded(k)) < VectorSize

ScanLong(t) ==
  LET taken == First(Expanded(LoadedFor), VectorSize)
  IN  /\ Scanning(t, {"long"})
      /\ Len(taken) = VectorSize \/ (taken # <<>> /\ query.fate = "end")
      /\ rows' = rows (+) Handed(taken)
      /\ cursor' = SubSeq(Expanded(LoadedFor), VectorSize + 1, Len(Expanded(LoadedFor)))
      /\ stream' = SubSeq(stream, LoadedFor + 1, Len(stream))
      /\ UNCHANGED <<query, phase, declared, global, next, running, ended>>

ScanLongEnds(t) ==
  /\ Scanning(t, {"long"}) /\ Expanded(LoadedFor) = <<>> /\ query.fate = "end"
  /\ Ends(t)
  /\ UNCHANGED <<query, declared, global>>

\* An error while the chunk has room: the rows already taken are dropped with it.
ScanLongFails(t) ==
  /\ Scanning(t, {"long"}) /\ Len(Expanded(LoadedFor)) < VectorSize /\ query.fate = "error"
  /\ Fails
  /\ UNCHANGED <<query, declared, global, stream, cursor, next, running, rows, ended>>

\* Every call claims VectorSize partitions with one fetch_add.
PlanScan(t) ==
  LET specs == Len(query.cells)
      start == IF next < specs THEN next ELSE specs
      end == IF start + VectorSize < specs THEN start + VectorSize ELSE specs
  IN  /\ Scanning(t, {"plan"})
      /\ next' = next + VectorSize
      /\ rows' = rows (+) SetToBag({<<i, specs, query.cells[i + 1].cell>> : i \in start .. (end - 1)})
      /\ ended' = IF end = start THEN ended \cup {t} ELSE ended
      /\ UNCHANGED <<query, phase, declared, global, stream, cursor, running>>

Zooms == {Pyramid!h3_res_to_zoom(r) : r \in global.config.resolutions}

\* What the export came to: the summary row, its error as a status.
Summary ==
  LET ok == query.fate = "end" /\ (query.fn = "tiles" \/ validate(global.config))
      count == IF ok THEN Len(query.cells) ELSE 0
      size == IF ok THEN "size" ELSE 0
      status == IF ok THEN "SUCCESS" ELSE "ERROR"
  IN  CASE query.fn = "pmtiles" -> <<count, size, Min(Zooms), Max(Zooms), "ms",
                                     "path", status, "failures">>
        [] query.fn = "tiles" -> <<count, size, IF ok THEN "min_zoom" ELSE 0,
                                   IF ok THEN "max_zoom" ELSE 0, "ms", "path", status, 0>>
        [] query.fn = "parquet" -> <<count, size, "ms", IF ok THEN "rate" ELSE 0, "path", status, "failures">>

\* The first caller takes the flag and runs the export, for as long as it
\* takes; the others are answered an empty chunk at once.
ExportStarts(t) ==
  /\ Scanning(t, {"pmtiles", "tiles", "parquet"}) /\ next = 0
  /\ next' = 1 /\ running' = t
  /\ UNCHANGED <<query, phase, declared, global, stream, cursor, rows, ended>>

ExportAnswers(t) ==
  /\ running = t /\ running' = Null
  /\ rows' = rows (+) SetToBag({Summary})
  /\ UNCHANGED <<query, phase, declared, global, stream, cursor, next, ended>>

ExportScanEnds(t) ==
  /\ Scanning(t, {"pmtiles", "tiles", "parquet"}) /\ next = 1 /\ running # t
  /\ Ends(t)
  /\ UNCHANGED <<query, declared, global>>

Next ==
  \/ Bind \/ GlobalInit \/ InitFails
  \/ \E t \in Threads :
       \/ ScanBatch(t) \/ ScanBatchEnds(t) \/ ScanBatchFails(t)
       \/ ScanLong(t) \/ ScanLongEnds(t) \/ ScanLongFails(t)
       \/ PlanScan(t) \/ ExportStarts(t) \/ ExportAnswers(t) \/ ExportScanEnds(t)

Spec == Init /\ [][Next]_scanVars

-----------------------------------------------------------------------------
(* What the columns mean, by name.                                         *)

Meaning(name, r) ==
  CASE name \in {"wkb", "geom"} -> Wkb(r)
    [] name = "partial_state" -> State(r)
    [] name \in {"entropy", "shannon_entropy"} -> <<"entropy", r.cell>>
    [] name \in {"distinct_classes", "unique_classes"} -> <<"distinct", r.cell>>
    [] OTHER -> IF query.fn = "long" /\ name \in {"category", "count", "fraction"}
                THEN <<name, r.cell, r.category>> ELSE <<name, r.cell>>

Promised ==
  LET records == IF query.fn = "long"
                   THEN FlattenSeq([i \in DOMAIN query.cells |-> Load(query.cells[i])])
                   ELSE query.cells
      Row(r) == [i \in DOMAIN global.projected |-> Meaning(declared[global.projected[i] + 1], r)]
  IN  CASE query.fn = "plan" ->
             SetToBag({<<i - 1, Len(query.cells), query.cells[i].cell>> : i \in DOMAIN query.cells})
        [] query.fn \in {"continuous", "wide", "long"} ->
             FoldSeq(LAMBDA r, b : b (+) SetToBag({Row(r)}), EmptyBag, records)
        [] OTHER -> SetToBag({Summary})

\* Whatever the optional columns, the projection and the interleaving of the
\* threads' scan calls, DuckDB is handed no row but the promised ones, each
\* projected column holding the values of the column bind declared at that
\* position, and once every thread has been answered an empty chunk each
\* promised row was handed over exactly once (raster_h3_scan,
\* raster_h3_categorical_scan, plan_scan, pmtiles_scan, parquet_scan).
ScanExact ==
  global # Null =>
    /\ rows \sqsubseteq Promised
    /\ ended = Threads => rows = Promised

=============================================================================
