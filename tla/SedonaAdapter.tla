---------------------------- MODULE SedonaAdapter -----------------------------
(***************************************************************************)
(* A raster as a table of DataFusion and SedonaDB, and COPY of a query over *)
(* it into one PMTiles object: the filters and the limit a scan takes over  *)
(* (raster-h3-datafusion/table_provider.rs, raster-h3-sedona/filters.rs,    *)
(* spatial.rs, table.rs), the blocking thread that runs the scan, and the   *)
(* sink with its worker and its upload (raster-h3-sedona/pmtiles.rs).       *)
(*                                                                         *)
(* A point is <<longitude, latitude>>, the longitude in                    *)
(* -HalfTurn .. HalfTurn - 1 as wrap_lon leaves it; a box is               *)
(* <<west, south, east, north>> and crosses the antimeridian when west is  *)
(* the larger one.  A cell is the set of points it owns; a row is the cell *)
(* with the samples aggregated into it, so a clipped aggregate shows.      *)
(***************************************************************************)
EXTENDS Integers, Sequences, FiniteSets, FiniteSetsExt, SequencesExt, Functions

CONSTANTS HalfTurn, Pole, PolarLat,
          Points,        \* Points[c]: the points of cell c, parents included
          Res,           \* Res[c]: its resolution
          Children,      \* Children[p]: the cells compaction merges into p
          Margin,        \* Margin[r]: cell_margin_km, in latitudes
          Stretch,       \* Stretch[l]: longitudes per latitude at latitude l
          Raster,        \* the points with a sample
          Tiles,         \* the rectangles of its tiles
          Stat,          \* Stat[p]: what the mean (or fraction) of a row counts
          Jobs,          \* the statements, see below
          NoBox, NoLimit,
          ChannelCapacity   \* 2 in the code, for both channels

-----------------------------------------------------------------------------
(* Boxes.                                                                  *)

Crosses(box) == box[1] > box[3]

\* is_point_in_bbox, the clip every sample passes.
InBox(p, box) ==
    \/ box = NoBox
    \/ /\ box[2] <= p[2] /\ p[2] <= box[4]
       /\ IF Crosses(box) THEN box[1] <= p[1] \/ p[1] <= box[3]
          ELSE \/ box[1] <= p[1] /\ p[1] <= box[3]
               \/ p[1] = -HalfTurn /\ box[3] >= HalfTurn

\* rect_intersects_bbox, the test every tile passes first.
RectMeets(rect, box) ==
    \/ box = NoBox
    \/ /\ rect[2] <= box[4] /\ box[2] <= rect[4]
       /\ IF Crosses(box) THEN rect[3] >= box[1] \/ rect[1] <= box[3]
          ELSE rect[1] <= box[3] /\ rect[3] >= box[1]

InRange(box) ==
    /\ {box[1], box[3]} \subseteq -HalfTurn .. HalfTurn
    /\ {box[2], box[4]} \subseteq -Pole .. Pole

Abs(x) == IF x < 0 THEN -x ELSE x

\* expand_bbox: at most one box, none for a box that cannot be pushed.
ExpandBbox(box, margin) ==
    LET south  == Max({box[2] - margin, -Pole})
        north  == Min({box[4] + margin, Pole})
        widest == Max({Abs(south), Abs(north)})
        by     == margin * Stretch[widest]
        span   == box[3] - box[1] + (IF Crosses(box) THEN 2 * HalfTurn ELSE 0)
        west   == box[1] - by
        east   == box[3] + by
    IN  IF ~InRange(box) \/ box[2] > box[4] THEN {}
        ELSE IF widest >= PolarLat \/ span + 2 * by >= 2 * HalfTurn
        THEN {<<-HalfTurn, south, HalfTurn, north>>}
        ELSE {<<IF west < -HalfTurn THEN west + 2 * HalfTurn ELSE west, south,
                IF east > HalfTurn THEN east - 2 * HalfTurn ELSE east, north>>}

\* intersect_bbox: none when disjoint; a crossing box leaves the first as it is.
IntersectBbox(current, other) ==
    LET out == <<Max({current[1], other[1]}), Max({current[2], other[2]}),
                 Min({current[3], other[3]}), Min({current[4], other[4]})>>
    IN  IF Crosses(current) \/ Crosses(other) THEN {current}
        ELSE IF out[1] <= out[3] /\ out[2] <= out[4] THEN {out} ELSE {}

\* grow of spatial.rs: planar, clamped, none for an envelope out of range.
Grow(box, distance) ==
    IF InRange(box)
    THEN {<<Max({box[1] - distance, -HalfTurn}), Max({box[2] - distance, -Pole}),
            Min({box[3] + distance, HalfTurn}), Min({box[4] + distance, Pole})>>}
    ELSE {}

-----------------------------------------------------------------------------
(* The table.  A configuration is [resolutions, box, minCount, minStat,     *)
(* maxStat, compact, part]: part is the points of the partition scanned.    *)

RowOf(c, samples) ==
    [ cell |-> c, res |-> Res[c], samples |-> samples, count |-> Cardinality(samples),
      total |-> FoldFunction(LAMBDA v, sum : v + sum, 0, [p \in samples |-> Stat[p]]) ]

\* Comparisons with the mean, which is total / count.
MeanAtLeast(row, v) == row.total >= v * row.count
MeanAtMost(row, v) == row.total <= v * row.count

\* passes_filter: thresholds are inclusive.
PassesFilter(config, row) ==
    /\ row.count >= config.minCount
    /\ MeanAtLeast(row, config.minStat) /\ MeanAtMost(row, config.maxStat)

Samples(config, c) ==
    {p \in Points[c] \cap Raster \cap config.part :
        /\ InBox(p, config.box)
        /\ \E t \in Tiles : InBox(p, t) /\ RectMeets(t, config.box)}

\* A cell other partitions may add to is emitted as it is, for a later merge.
Partial(config, c) == ~(Points[c] \cap Raster \subseteq config.part)

CellRows(config) ==
    {row \in {RowOf(c, Samples(config, c)) :
                 c \in {d \in DOMAIN Points : Res[d] \in config.resolutions}} :
        row.samples # {} /\ (Partial(config, row.cell) \/ PassesFilter(config, row))}

\* push_cell: thresholds come first, then whole sibling groups become parents.
Table(config) ==
    LET rows == CellRows(config)
        whole == {p \in DOMAIN Children : Children[p] \subseteq {r.cell : r \in rows}}
        merged == UNION {Children[p] : p \in whole}
    IN  IF ~config.compact THEN rows
        ELSE {r \in rows : r.cell \notin merged}
               \cup {RowOf(p, UNION {r.samples : r \in {s \in rows : s.cell \in Children[p]}}) :
                       p \in whole}

-----------------------------------------------------------------------------
(* Filters of a query.  A literal is [type, v], type one of "int", "float", *)
(* "nan" and "null"; a filter is a comparison, BETWEEN, a spatial predicate *)
(* or anything else, which no row is known to fail.                         *)

Compare(row, col, op, lit) ==
    LET at(v) == CASE col = "resolution" -> row.res >= v [] col = "count" -> row.count >= v
                   [] OTHER -> MeanAtLeast(row, v)
        to(v) == CASE col = "resolution" -> row.res <= v [] col = "count" -> row.count <= v
                   [] OTHER -> MeanAtMost(row, v)
    IN  /\ lit.type \in {"int", "float"}
        /\ CASE op = ">=" -> at(lit.v) [] op = "<=" -> to(lit.v)
             [] op = ">" -> ~to(lit.v) [] op = "<" -> ~at(lit.v)
             [] op = "=" -> at(lit.v) /\ to(lit.v)

Swap(op) == CASE op = ">=" -> "<=" [] op = "<=" -> ">=" [] op = ">" -> "<"
              [] op = "<" -> ">" [] OTHER -> op

\* The polygon of a cell on the antimeridian has parts on both its sides.
Footprint(c) ==
    Points[c] \cup {<<HalfTurn, p[2]>> : p \in {q \in Points[c] : q[1] = -HalfTurn}}

\* A geometry is [box, tag, means]: the envelope of its coordinates, how its CRS
\* is declared, and the envelope it really has.  The weakest of the predicates
\* that imply meeting envelopes stands for all of them.
Meets(c, g, distance) ==
    \E p \in Footprint(c) : /\ g.means[1] - distance <= p[1] /\ p[1] <= g.means[3] + distance
                            /\ g.means[2] - distance <= p[2] /\ p[2] <= g.means[4] + distance

Matches(row, f) ==
    CASE f.form = "compare" -> Compare(row, f.col, IF f.flipped THEN Swap(f.op) ELSE f.op, f.lit)
      [] f.form = "between" -> /\ Compare(row, f.col, ">=", f.low)
                               /\ Compare(row, f.col, "<=", f.high)
      [] f.form = "spatial" -> Meets(row.cell, f.geometry, f.distance)
      [] f.form = "other" -> row.count % 2 = 1

\* What the query means: its filters over the table as it was configured.
Answer(job) ==
    {row \in Table(job.config) : \A i \in DOMAIN job.filters : Matches(row, job.filters[i])}

-----------------------------------------------------------------------------
(* filters.rs and spatial.rs: a filter as predicates of the scan, at most   *)
(* one translation.                                                        *)

Pred(k, v) == [k |-> k, v |-> v]
Single(p, pushdown) == {[predicates |-> <<p>>, pushdown |-> pushdown]}

\* Wrong: a strict comparison is taken for the inclusive one the scan applies.
LowerLoose(k, op, v) == IF op \in {">=", ">"} THEN Single(Pred(k, v), "Exact") ELSE {}

\* The scan's thresholds are inclusive, so a strict one is only a superset.
Lower(k, op, v) ==
    CASE op = ">=" -> Single(Pred(k, v), "Exact")
      [] op = ">" -> Single(Pred(k, v), "Inexact")
      [] OTHER -> {}

Comparison(kind, col, op, lit) ==
    CASE lit.type = "null" -> {}
      [] lit.type # "null" /\ col = "resolution" ->
           IF op = "=" /\ lit.type = "int" /\ lit.v \in 0 .. 255
           THEN Single(Pred("Resolution", lit.v), "Exact") ELSE {}
      [] lit.type # "null" /\ col # "resolution" ->
           IF lit.type = "nan" THEN {}
           ELSE CASE col = "count" -> Lower("MinCount", op, lit.v)
                  [] col = "fraction" /\ kind = "categorical" ->
                       Lower("MinMajorityFraction", op, lit.v)
                  [] col = "mean" /\ kind = "continuous" ->
                       CASE op = "<=" -> Single(Pred("MaxMean", lit.v), "Exact")
                         [] op = "<" -> Single(Pred("MaxMean", lit.v), "Inexact")
                         [] OTHER -> Lower("MinMean", op, lit.v)
                  [] OTHER -> {}

Between(kind, f) ==
    LET lower == Comparison(kind, f.col, ">=", f.low)
        upper == Comparison(kind, f.col, "<=", f.high)
        exact == lower # {} /\ upper # {} /\ \A t \in lower \cup upper : t.pushdown = "Exact"
        both  == (IF lower = {} THEN <<>> ELSE (CHOOSE t \in lower : TRUE).predicates)
                   \o (IF upper = {} THEN <<>> ELSE (CHOOSE t \in upper : TRUE).predicates)
    IN  IF both = <<>> THEN {}
        ELSE {[predicates |-> both, pushdown |-> IF exact THEN "Exact" ELSE "Inexact"]}

\* constant_envelope: only a geometry known to be in the cells' CRS.
ConstantEnvelope(g, untagged) ==
    IF g.tag = "lnglat" \/ (g.tag = "none" /\ untagged = "LngLat") THEN {g.box} ELSE {}

Spatial(f, untagged) ==
    UNION {UNION {Single(Pred("Bbox", b), "Inexact") : b \in Grow(e, f.distance)} :
             e \in ConstantEnvelope(f.geometry, untagged)}

TranslateFilter(job, f) ==
    CASE f.form = "compare" ->
           Comparison(job.kind, f.col, IF f.flipped THEN Swap(f.op) ELSE f.op, f.lit)
      [] f.form = "between" -> Between(job.kind, f)
      [] f.form = "spatial" -> Spatial(f, job.untagged)
      [] f.form = "other" -> {}

-----------------------------------------------------------------------------
(* table_provider.rs: what a scan accepts, and its plan.                    *)

\* with_partition: the scan is one part of the raster.
Partitioned(job) == ~(Raster \subseteq job.config.part)

\* partitioned_pushdown: partial rows must reach the merge.
PartitionedPushdown(p) == IF p.k = "Resolution" THEN "Exact" ELSE "Unsupported"

SupportsContinuous(p) ==
    CASE p.k \in {"MinCount", "MinMean", "MaxMean", "Resolution"} -> "Exact"
      [] p.k = "Bbox" -> "Inexact"
      [] OTHER -> "Unsupported"

SupportsCategorical(p) ==
    CASE p.k \in {"MinCount", "MinMajorityFraction", "Resolution"} -> "Exact"
      [] p.k = "Bbox" -> "Inexact"
      [] OTHER -> "Unsupported"

\* supports_filters_pushdown; the rows of a compacted scan depend on all children.
Supports(job, p) ==
    IF job.config.compact THEN "Unsupported"
    ELSE IF Partitioned(job) THEN PartitionedPushdown(p)
    ELSE IF job.kind = "continuous" THEN SupportsContinuous(p)
    ELSE SupportsCategorical(p)

\* RasterH3Table::translate: capped by what the provider accepts.
Translated(job, f) ==
    LET status(t) == {Supports(job, t.predicates[i]) : i \in DOMAIN t.predicates}
    IN  {[t EXCEPT !.pushdown = IF "Inexact" \in status(t) THEN "Inexact" ELSE @] :
           t \in {s \in TranslateFilter(job, f) : "Unsupported" \notin status(s)}}

\* Wrong: the box is pushed as it was asked for.
WidenNot(resolutions, box) == {box}

\* A pushed box is widened past the largest cell that is still scanned.
Widen(resolutions, box) == ExpandBbox(box, Margin[Min(resolutions)])

\* apply_shared_filter: one predicate narrows the plan [config, empty].
SharedFilter(plan, p) ==
    LET config == plan.config
        boxes == Widen(config.resolutions, p.v)
        widened == CHOOSE b \in boxes : TRUE
        met == IntersectBbox(config.box, widened)
    IN  CASE p.k = "MinCount" -> [plan EXCEPT !.config.minCount = Max({@, p.v})]
          [] p.k = "Resolution" -> IF p.v \in config.resolutions
                                   THEN [plan EXCEPT !.config.resolutions = {p.v}]
                                   ELSE [plan EXCEPT !.empty = TRUE]
          [] p.k = "Bbox" ->
               IF boxes = {} THEN plan
               ELSE IF config.box = NoBox THEN [plan EXCEPT !.config.box = widened]
               ELSE IF met = {} THEN [plan EXCEPT !.empty = TRUE]
               ELSE [plan EXCEPT !.config.box = CHOOSE b \in met : TRUE]

ContinuousFilter(plan, p) ==
    CASE p.k = "MinMean" -> [plan EXCEPT !.config.minStat = Max({@, p.v})]
      [] p.k = "MaxMean" -> [plan EXCEPT !.config.maxStat = Min({@, p.v})]
      [] OTHER -> SharedFilter(plan, p)

CategoricalFilter(plan, p) ==
    IF p.k = "MinMajorityFraction" THEN [plan EXCEPT !.config.minStat = Max({@, p.v})]
    ELSE SharedFilter(plan, p)

Predicates(job) ==
    FoldLeft(LAMBDA all, f : all \o (IF Translated(job, f) = {} THEN <<>>
                                     ELSE (CHOOSE t \in Translated(job, f) : TRUE).predicates),
             <<>>, job.filters)

AllExact(job) ==
    \A i \in DOMAIN job.filters :
        \E t \in Translated(job, job.filters[i]) : t.pushdown = "Exact"

\* RasterH3Table::scan keeps the limit back while a filter is left to the query.
LimitOf(job) == IF AllExact(job) THEN job.limit ELSE NoLimit

\* Wrong: the reader stops at the limit, whatever the query still drops.
ReaderLimitAlways(job) == job.limit

\* reader_limit does so for every box and compacted scan; a partitioned scan takes none.
ReaderLimit(job) ==
    IF \/ Partitioned(job)
       \/ job.config.compact /\ Predicates(job) # <<>>
       \/ \E i \in DOMAIN Predicates(job) : Predicates(job)[i].k = "Bbox"
    THEN NoLimit ELSE LimitOf(job)

\* scan of the provider; only predicates that it accepts get here.
Plan(job) ==
    FoldLeft(LAMBDA plan, p : IF job.kind = "continuous" THEN ContinuousFilter(plan, p)
                              ELSE CategoricalFilter(plan, p),
             [config |-> job.config, empty |-> FALSE], Predicates(job))

BboxPushed(job) ==
    /\ \E i \in DOMAIN Predicates(job) : Predicates(job)[i].k = "Bbox"
    /\ Plan(job).config.box # job.config.box

\* MosaicReader::open refuses a box that misses every tile.
NoTiles(config) == \A t \in Tiles : ~RectMeets(t, config.box)

\* execute and open_or_empty: the rows to be scanned, or an error.  A partition
\* cannot be compacted.
OpenFails(job) ==
    /\ ~Plan(job).empty
    /\ \/ NoTiles(Plan(job).config) /\ ~BboxPushed(job)
       \/ job.config.compact /\ Partitioned(job)

ScanRows(job) ==
    IF Plan(job).empty \/ NoTiles(Plan(job).config) THEN {} ELSE Table(Plan(job).config)

\* What DataFusion applies to the rows it gets: all but the exact filters.
Residual(job, rows) ==
    {row \in rows :
        \A i \in DOMAIN job.filters :
            \/ \E t \in Translated(job, job.filters[i]) : t.pushdown = "Exact"
            \/ Matches(row, job.filters[i])}

-----------------------------------------------------------------------------
(* COPY (SELECT ... WHERE filters LIMIT limit) TO 'x.pmtiles'.  A job is    *)
(* [kind, untagged, config, filters, limit, batch, minZoom, maxZoom,        *)
(* output, type, odd, h3, faults]: batch is the rows of a record batch,     *)
(* output the sort of path, type that of the H3 column, h3 the value of the *)
(* cell odd in it; faults says whether anything may fail or be cancelled.   *)

\* from_options and validate: zooms up to MAX_ZOOM_OPTION, in their order.
ValidOptions(job) ==
    /\ {job.minZoom, job.maxZoom} \subseteq 0 .. 30
    /\ job.minZoom <= job.maxZoom

\* try_new: the H3 column is read as an integer or as hexadecimal text.
ReadableColumn(job) == job.type \in {"UInt64", "Int64", "Hex"}

\* create_writer_physical_plan: one archive, no partitions, no directory.  A
\* statement that is refused while it is planned never starts.
Planned(job) == job.output = "file" /\ ValidOptions(job) /\ ReadableColumn(job)

VARIABLES job,
          left,      \* rows the scan has still to send
          scan,      \* its thread: "refused", "run", "ok" or "failed"
          batches, reading,    \* its channel, and whether the query still reads it
          taken,     \* rows the query has let through
          sink,      \* "pull", "send", "join", "upload", "done" or "failed"
          outgoing,  \* the batch being sent to the worker
          handed,    \* the worker's channel
          worker,    \* "recv", "built" or "failed"
          features,  \* what the worker has pushed
          object     \* the objects at the output path: none or one

scanVars == <<left, scan>>
workerVars == <<worker, features>>
sedonaVars == <<job, scanVars, batches, reading, taken, sink, outgoing, handed,
                workerVars, object>>

Pyramid == INSTANCE TilePyramid WITH RowHeight <- <<>>, MaxRadius <- <<>>

Within(n, limit) == IF limit = NoLimit THEN n ELSE Min({n, limit})
SomeOf(rows, n) == kSubset(Within(Cardinality(rows), n), rows)

\* The reader stops at its limit; which rows come first is not defined.
Init ==
    /\ job \in {j \in Jobs : Planned(j)}
    /\ scan = IF OpenFails(job) THEN "refused" ELSE "run"
    /\ left \in SomeOf(IF OpenFails(job) THEN {} ELSE ScanRows(job), ReaderLimit(job))
    /\ batches = <<>> /\ reading = TRUE /\ taken = {}
    /\ sink = "pull" /\ outgoing = {} /\ handed = <<>>
    /\ worker = "recv" /\ features = {} /\ object = {}

\* The blocking thread of RasterH3Partition::execute.
ScanSends ==
    /\ scan = "run" /\ reading
    /\ left # {} /\ Len(batches) < ChannelCapacity
    /\ \E rows \in SomeOf(left, job.batch) :
         batches' = Append(batches, rows) /\ left' = left \ rows
    /\ UNCHANGED <<job, scan, reading, taken, sink, outgoing, handed, workerVars, object>>

\* The stream is over, or the query hung up.
ScanEnds ==
    /\ scan = "run" /\ (left = {} \/ ~reading)
    /\ scan' = "ok"
    /\ UNCHANGED <<job, left, batches, reading, taken, sink, outgoing, handed, workerVars,
                   object>>

ScanFails ==
    /\ (scan = "refused" \/ (scan = "run" /\ job.faults))
    /\ scan' = "failed"
    /\ UNCHANGED <<job, left, batches, reading, taken, sink, outgoing, handed, workerVars,
                   object>>

\* The query above the scan: the filters left to it, then the limit.
LimitReached == job.limit # NoLimit /\ Cardinality(taken) >= job.limit

Pull ==
    /\ sink = "pull" /\ batches # <<>> /\ ~LimitReached
    /\ \E rows \in SomeOf(Residual(job, Head(batches)),
                           IF job.limit = NoLimit THEN NoLimit
                           ELSE job.limit - Cardinality(taken)) :
         /\ taken' = taken \cup rows
         /\ outgoing' = rows
         /\ sink' = IF rows = {} THEN "pull" ELSE "send"
    /\ batches' = Tail(batches)
    /\ UNCHANGED <<job, scanVars, reading, handed, workerVars, object>>

\* The input is at its end: the worker's channel is closed.
PullEnds ==
    /\ sink = "pull" /\ (LimitReached \/ (batches = <<>> /\ scan = "ok"))
    /\ sink' = "join" /\ reading' = FALSE /\ batches' = <<>>
    /\ UNCHANGED <<job, scanVars, taken, outgoing, handed, workerVars, object>>

\* An error of the input returns at once; the worker is left to itself.
PullFails ==
    /\ sink = "pull" /\ ~LimitReached /\ scan = "failed"
    /\ sink' = "failed" /\ reading' = FALSE /\ batches' = <<>>
    /\ UNCHANGED <<job, scanVars, taken, outgoing, handed, workerVars, object>>

Send ==
    /\ sink = "send" /\ worker = "recv" /\ Len(handed) < ChannelCapacity
    /\ handed' = Append(handed, outgoing) /\ outgoing' = {}
    /\ sink' = "pull"
    /\ UNCHANGED <<job, scanVars, batches, reading, taken, workerVars, object>>

\* The worker stopped early; its error is met when it is joined.
SendRefused ==
    /\ sink = "send" /\ worker # "recv"
    /\ sink' = "join" /\ outgoing' = {} /\ reading' = FALSE /\ batches' = <<>>
    /\ UNCHANGED <<job, scanVars, taken, handed, workerVars, object>>

\* Wrong: a failed worker's file is uploaded too.
JoinIgnoresError ==
    /\ sink = "join" /\ worker # "recv"
    /\ sink' = "upload"
    /\ UNCHANGED <<job, scanVars, batches, reading, taken, outgoing, handed, workerVars,
                   object>>

Join ==
    /\ sink = "join" /\ worker # "recv"
    /\ sink' = IF worker = "built" THEN "upload" ELSE "failed"
    /\ UNCHANGED <<job, scanVars, batches, reading, taken, outgoing, handed, workerVars,
                   object>>

\* A multipart upload appears at its path when it is finished.
Upload ==
    /\ sink = "upload"
    /\ object' = {features} /\ sink' = "done"
    /\ UNCHANGED <<job, scanVars, batches, reading, taken, outgoing, handed, workerVars>>

\* The upload is aborted, or the query cancelled at one of its awaits.
SinkFails ==
    /\ job.faults /\ sink \in {"pull", "send", "join", "upload"}
    /\ sink' = "failed" /\ reading' = FALSE /\ batches' = <<>>
    /\ UNCHANGED <<job, scanVars, taken, outgoing, handed, workerVars, object>>

CellAt(row) == IF row.cell = job.odd THEN job.h3 ELSE "cell"

KeepsZoom(row) ==
    LET zoom == Pyramid!h3_res_to_zoom(row.res)
    IN  job.minZoom <= zoom /\ zoom <= job.maxZoom

\* encode_batch: a NULL and a cell outside the zooms are skipped.
Drawn(rows) == {row \in rows : CellAt(row) = "cell" /\ KeepsZoom(row)}

\* The worker; a value that is no cell is an error.
Receive ==
    /\ worker = "recv" /\ handed # <<>>
    /\ handed' = Tail(handed)
    /\ IF \E row \in Head(handed) : CellAt(row) = "bad"
       THEN worker' = "failed" /\ UNCHANGED features
       ELSE features' = features \cup Drawn(Head(handed)) /\ UNCHANGED worker
    /\ UNCHANGED <<job, scanVars, batches, reading, taken, sink, outgoing, object>>

\* The channel is closed and empty: the archive is built in a temporary file.
Build ==
    /\ worker = "recv" /\ handed = <<>> /\ sink \notin {"pull", "send"}
    /\ worker' = "built"
    /\ UNCHANGED <<job, scanVars, batches, reading, taken, sink, outgoing, handed, features,
                   object>>

WorkerFails ==
    /\ job.faults /\ worker = "recv"
    /\ worker' = "failed"
    /\ UNCHANGED <<job, scanVars, batches, reading, taken, sink, outgoing, handed, features,
                   object>>

Scanner == ScanSends \/ ScanEnds \/ ScanFails
Copier == \/ Pull \/ PullEnds \/ PullFails \/ Send \/ SendRefused \/ Join \/ Upload
          \/ SinkFails
Builder == Receive \/ Build \/ WorkerFails

Next == Scanner \/ Copier \/ Builder

\* Blocking threads and the runtime's tasks are scheduled.
Fairness == WF_sedonaVars(Scanner) /\ WF_sedonaVars(Copier) /\ WF_sedonaVars(Builder)

Spec == Init /\ [][Next]_sedonaVars /\ Fairness

-----------------------------------------------------------------------------
\* Whatever a scan takes over of a query's filters and limit, the rows that
\* come out are rows of the table as configured, whole, and all of them match;
\* an object at the output path holds every one of them (as many as the limit
\* asks for), and appears only when no stage failed (apply_shared_filter,
\* reader_limit, translate, and write_all of the sink).
CopyExact ==
    /\ taken \subseteq Answer(job)
    /\ \A file \in object :
         /\ Cardinality(taken) = Within(Cardinality(Answer(job)), job.limit)
         /\ \A row \in taken : CellAt(row) # "bad"
         /\ file = Drawn(taken)
         /\ scan = "failed" => LimitReached

\* What a statement and its threads come to, done or not.
AllEnded == sink \in {"done", "failed"} /\ scan \in {"ok", "failed"} /\ worker # "recv"

\* The statement ends, and with it the thread that scans and the one that builds
\* (execute's blocking thread and write_all with its worker).
CopyEnds == <>AllEnded
=============================================================================
