# raster_h3: TLA+ models and proofs

raster_h3 turns rasters (GeoTIFF mosaics, local or over HTTP) into statistics
per H3 cell. One streaming core (`crates/raster-h3-core`) reads the chunks of a
mosaic in a fixed order, decodes them on a pool of threads, merges them into
per-cell accumulators, and emits a cell as soon as no later chunk can reach it.
Records leave as columnar batches, Parquet, or PMTiles; DuckDB, DataFusion,
Sedona, PostgreSQL, Python and a command line wrap that core.

This directory models the core, its DuckDB host and the SedonaDB adapter: threads that hand work to
each other, resources at their limit, the decision *when* a cell is final, the
files the exporters write, and the rules (bounds, metadata, statistics, tiles)
that decide what every sample is worth. TLC checks the models on small instances,
and TLAPS proves, for every size, what the prefetchers deliver and how many bytes they
hold, the remote request planner and the queue it feeds, that the streamer emits each
cell once and complete with a sound horizon, that the tiles exported behind that horizon
are complete, and how DuckDB's threads share the records (section 4).

## 1. Inventory

Paths are relative to `src/crates/raster-h3-core/src/` unless they name a crate.

| Part | State | Operations | Hard behaviour | What makes it correct |
|---|---|---|---|---|
| Ordered prefetch queue (`raster/prefetch.rs`) | ring of slots, `next_read`, `closed`, `terminal_item`, two condition variables | `push`, `close`, `fail`, `drain_into` | many producers finish out of order; the consumer sleeps twice inside one call | jobs come out in order, none overwritten; an error is never read as the end |
| Decode budget (`raster/prefetch.rs`) | `used`, `next_job`, `closed`, idle buffers | `acquire`, `settle`, `recycle`, `close` | reservation in job order; a buffer's credit is taken before it is admitted | `used` is the bytes that exist; bounded; nobody waits forever |
| Mosaic prefetcher (`raster/prefetch.rs`) | claim counter, workers | claim, decode, push, abort, `Drop` | a panic or a failed open while others wait; early drop | every stream ends and joins its workers |
| Single-file prefetcher, buffer pool (`raster/prefetch.rs`) | lock-free queue and an atomic count | pop, push, drain, `Drop` | two atomics that change one after the other | implements an ordered chunk stream; the pool is bounded |
| Decoder cache (`raster/prefetch.rs`) | open decoders with predicted next use | get, evict | predictions other workers make stale | evicts the decoder needed last |
| Chunk decoding (`raster/geotiff.rs`, `predictor.rs`) | reused buffers | four decoding paths | old contents, edges, byte order, predictors | the samples that were encoded |
| GeoTIFF metadata (`raster/metadata.rs`, `geotiff.rs`) | none | tags to transform, bands, CRS | one CRS, many encodings | the declared meaning, or none |
| Request planner (`coalesce_chunk_ranges` in `raster/remote_prefetch.rs`) | the range being built | merge or begin a range | inclusive ends, limits, chunks in any order | a slice of a response is its chunk; limits kept |
| Remote chunk queue (`raster/remote_prefetch.rs`) | `held_bytes`, `ready`, `remaining`, job states, demand, one condition variable | claim, fetch, store, evict, the two getters, `cancel` | budget held by chunks nobody can take yet; eviction under a sleeping client; shared responses | bytes accounted exactly; every request answered, honestly; no deadlock |
| HTTP range source (`raster/http_range.rs`) | block cache, file size, attempts | probe and three ways of reading | transient errors, wrong answers, two threads missing one block | the bytes asked for or an error |
| Mosaic and overlap rules (`raster/mosaic.rs`) | tiles, chunk order | open, select, own | boxes across the antimeridian, rotated tiles | each sample scanned from the one file that owns it |
| Bounds and CRS (`crs/transformer.rs`, `multi_horizon/coordinates.rs`) | none | bounds of rectangles, choice of transformer | poles, antimeridian, dropped parameters | pruning and eviction bounds are conservative |
| Scanline walker (`aggregator/multi_horizon/walker.rs`) | runs of a cell | rows to samples to cells | interleaved kernels and cached runs | each valid sample counted once |
| Cell statistics, class counts (`aggregator/accumulator.rs`, `simd.rs`, `quantiles.rs`, `categorical.rs`, `remap.rs`, `nodata.rs`) | accumulators | update, span kernels, merge | inline storage that spills, merge order | equal to the pixels seen |
| Multi-horizon streamer (`aggregator/multi_horizon/controller.rs`, `lifecycle.rs`) | active cells, horizon, output buffer, lifecycle | the drain calls, all of `advance_inner` | early eviction against later chunks, spills and held sibling groups | each cell once, complete; the published horizon is sound |
| Sharded map (`aggregator/multi_horizon/sharded_map.rs`) | shards, heaps, byte counts | merge, evict, take | counts kept incrementally | counts equal a recount |
| Hierarchical compactor (`aggregator/multi_horizon/compaction.rs`) | sibling groups, two lazy heaps | `push_cell`, four flushes, `enforce_limit` | forced flushes and late siblings | a parent exactly when all children arrived |
| Spill runs (`aggregator/multi_horizon/spill.rs`) | sorted runs in levels | push, finish, read | binary-counter merging, failing files | no sample lost or doubled |
| Partitioned scans (`aggregator/multi_horizon/partition.rs`, `partial.rs`) | plan, partial cells | plan, validate, scan, merge | a cell cut by a border; a mosaic that changed | merged partials equal the whole scan |
| PMTiles (`pmtiles/`, `transcode/parquet_tiler.rs`) | open tiles, channel, spilled features | produce, evict, encode, merge | tiles closed by a horizon; a failing side of a bounded channel | each tile once and complete, readable, or an error |
| Parquet (`parquet/`) | two buffers, two channels | drain, sort, write, publish | both threads blocked, reused columns | complete file or none |
| Columnar output (`columnar/`) | readers, Arrow structures | `next`, export, release | positions of optional columns; release order | values under their names; freed once |
| DuckDB record queue (`raster-h3-duckdb`) | ready batches, finished flag, streamer mutex | `pop_or_refill` | scan threads race between two looks at the queue | each record once; no early end |
| DuckDB table functions, aggregates, COPY, files (`raster-h3-duckdb`) | bind and global data, boxed states, handles | callbacks from any thread | DuckDB picks order and threads, errors in between | promised rows, each state freed once, own bytes |
| DataFusion and Sedona adapters (`raster-h3-datafusion`, `raster-h3-sedona`) | a scan's plan; two channels, a worker and an upload | translate and push filters, limit and box; scan; `COPY` | a filter taken over by the scan changes what is aggregated; stages fail or are cancelled | the rows the query asks for; a whole object or none |
| Scalar functions, geometry, spectral formulas, front ends | none across calls | conversions, argument handling | floating point | not modelled, section 6 |

How they interact: the streamer's thread is the *consumer* of the prefetch
queue; it drains a batch, merges it, gives the buffers back to the budget, and
publishes a horizon that exporters read to close finished tiles. Decode workers
share the queue, the budget and the claim counter; for a remote tile they first
ask the remote queue, whose fetch workers call the HTTP source (or DuckDB's file
system), and fall back to it when the queue has nothing. The DuckDB queue puts the
whole streamer behind a mutex that scan threads compete for.

`PROJECT.json` lists every part with its status, and every hazard at its line.

## 2. Modules

| Module | Models | Composes |
|---|---|---|
| `OrderedPrefetchQueue` | the ring buffer, one operator per critical section; lemmas about its slots and its ready run | |
| `MosaicPrefetch` | the byte budget, its mutex explicit; workers, consumer, failures, `Drop` | the queue |
| `MosaicPrefetchProofs` | the TLAPS proofs about `MosaicPrefetch` and `ShardedResolutionMap` | |
| `ChunkReader` | the single-file prefetcher and its buffer pool | the queue |
| `ChunkReaderProofs` | the TLAPS proofs about `ChunkReader` | |
| `ChunkStream` | *abstract*: what a prefetcher promises | |
| `DecoderCache` | open decoders of one worker | |
| `ChunkDecode` | where a chunk's bytes come from; bytes to samples | |
| `Georeferencing` | tags to transform, bands and CRS; which transformer a PROJ definition gets | |
| `CoalesceRanges` | `coalesce_chunk_ranges`, a step per turn of its loop | |
| `RemoteChunkQueue` | fetch workers and clients of the remote queue | external transport |
| `RemoteChunkQueueProofs` | the TLAPS proofs about `RemoteChunkQueue` and `CoalesceRanges` | |
| `HttpRangeSource` | probe, retries, validation, block cache; at its end the TLAPS proofs about it | external server |
| `MosaicLayout` | bounds of pixel rectangles and their certificates; files of a mosaic, chunk order, ownership | |
| `ScanlineWalker` | rows of pixels to samples of cells | |
| `CellStatistics`, `CategoryCounts` | what a cell accumulates | |
| `HorizonStreamer` | the compactor as a value and the operators on it; `advance_inner` and the drain calls | |
| `HorizonStreamerProofs` | the TLAPS proofs about `HorizonStreamer` | |
| `ShardedResolutionMap` | active map, heaps, byte accounts | |
| `SpillRuns` | runs in levels | |
| `SpilledBag` | *abstract*: what spill storage promises | |
| `PartitionedScan` | the plan and the classification of cells; driver, workers and merger | |
| `TilePyramid` | the tile grid and bounds; open tiles | |
| `PmtilesTiler` | streaming export with its producer thread | tiles, external streamer |
| `TilerProofs` | the TLAPS proofs about `PmtilesTiler` | |
| `ExternalExport`, `ParquetTiler` | export by sorted runs; tiling of a Parquet file | `TilePyramid` |
| `PmtilesArchive` | the archive's directories; one layer of a tile | |
| `ParquetPipeline` | the caller, the writer thread and their channels | |
| `BatchReader` | columns by position; the batch iterators | external streamer |
| `ArrowArrayStream` | ownership across the Arrow C interfaces | |
| `RecordQueue` | DuckDB's shared queue | external streamer |
| `DuckDbScan` | bind, init and scan of the table functions | `TilePyramid` |
| `MergePartials` | the merge aggregates' boxed states | |
| `PmtilesCopy` | `COPY ... TO` callbacks on several threads | external exporter |
| `DuckDbFileTransport` | ranges through pooled file handles | external file system |
| `HostProofs` | the TLAPS proofs about `RecordQueue`, `ArrowArrayStream`, `MergePartials` and `DuckDbFileTransport` | |
| `SedonaAdapter` | filters, limit and box a scan takes over from a query; the scan thread, the sink and its worker of `COPY` | `TilePyramid`, external query engine |
| `MC*` | instances for TLC | |

Operators whose comment starts with `Wrong:` are deliberate faults; no
specification uses them. They document, next to each definition, the change
that one of the properties detects.

### Prefetching

`slots`, `nextRead`, `qClosed` and `terminalItem` are the fields of the queue's
state. A condition variable is the set of threads asleep on it (`notFull`,
`changed`), or a flag where only the consumer can sleep (`notEmpty`);
`notify_all` empties it. Each critical section of a mutex is one step, except
`acquire`: it keeps the budget's mutex while it frees idle buffers in a loop, so
`budgetLock` makes the holder visible. Spurious wake-ups are left out: every
wait of the code tests its condition in a loop.

A worker is a program counter `wpc[w]` with its job and the bytes it answers
for:

| `wpc` | Code | Action |
|---|---|---|
| `poll` | `is_closed`, `fetch_add` on the claim counter | `Claim` |
| `turn` | first loop of `acquire` | `AwaitTurn` |
| `fit` | admission loop of `acquire` | `Admit` |
| `decode` | open, fetch payload, decode, `settle` | `Decode` |
| `push` | `push` | `Push` |
| `refund` | `settle(.., 0)` after a refused push | `Refund` |
| `abort`, `report` | close the budget, then `fail` the queue | `Abort`, `Report` |

The consumer runs `Drain` and `DrainMore` (the two waits of `drain_into`),
`Process`, `RecycleOne`, and `DropQueue`, `DropBudget`, `Join` for `Drop`;
`Cancel` drops the stream between two reads. `outcome = "eof"` is what an empty
drain reports; the streamer's own count of its chunks is `FetchFails` of
`HorizonStreamer`.

Sizes are small numbers. `Need[j]` is what `decoded_chunk_bytes` reserves,
`Size[j]` what the chunk has (edge chunks are smaller), and `Grown` is
`Vec::resize`: at least doubling when the recycled buffer is too small. All
chunks of a mosaic have samples of one width; a mosaic mixing sample types, in
which a sparse chunk keeps a recycled buffer of a wider type, is outside the
model. Decoder cache and remote payload wait are part of the `Decode` step and have
modules of their own.

`ChunkReader` shares the queue and takes its buffers from a pool whose length
lives in an atomic beside a lock-free queue; each step of a worker or of the
consumer is one atomic operation (load, exchange, inject, steal, decrement).
`DecoderCache` follows one worker through every job list while other workers take
any of the jobs it counted on.

### Remote reads

`CoalesceRanges` keeps offsets and lengths as numbers, because they are what it
computes. Chunks are assumed to lie inside their file, so that no offset
overflows `u64`.

`RemoteChunkQueue` has one mutex, so a critical section is one step, and one
condition variable, whose sleepers are `sleeping`. The notification that follows
a critical section is part of it, except after a download, where the chunks
nobody wants are dropped first (`DropUnused`, then `Announce`). `next_job` only
ever skips ranges that are no longer pending, so it is derived: the first pending
range. A response is shared by the chunks sliced from it; it is named by its
range and a number, and it is alive while a worker, a client, the ready map or a
list of chunks being dropped refers to it. Dropping the last share and releasing
its bytes is one step (`DropShare`). A worker goes through `claim`, `fetch`,
`store`, `unused`, or `evict` on the way; `failing` is an error or a panic between
the drop of its charge and `publish_error`. A client is a decode worker: it holds
at most one chunk and drops it before it asks again, as `prefetch.rs` does and the
documentation of `get_chunk_payload` requires. It may ask for any chunk in any
order. The branch for a range without a source cannot be reached: both `spawn`
functions plan only ranges that have one. The peak statistic is left out, and the
floor of 16 on `queue_capacity` is scaled down with everything else.

`HttpRangeSource` tells bytes apart by their place in the file: a buffer is the
position of its first byte and a length. The server's replies are right, or have
one fault (another start, end, total or length), or carry the whole file because
the range is ignored. A failed attempt is transient or final; back-off and jitter
are time and left out. URL normalization, headers and the `Read`/`Seek` adapter
are not modelled.

### Streaming

`HorizonStreamer` runs on one thread, so an action is one turn of a loop and
`phase` says which. Latitudes are integers (south is smaller), a chunk adds one
sample to each cell it touches, an accumulator is its number of samples, and
byte budgets are counts of cells or records. A raster is the set of cells each
chunk touches with the bound `eviction_north_bound` gives for the chunk, `PosInf`
where the projection has none. The parallel waves of a batch, which merge
thread-local maps in window order, are one `MergeCell` per chunk and cell in
that order. A resolution's runs on disk are one count per cell. Whether
`enforce_limit` still exceeds its budget depends on table and heap capacities,
so each of its turns may go either way. The lazily invalidated heaps of the
compactor are the maxima they compute. `raster` is chosen in the initial state
and never changes: one run covers every raster of a family.

`flush_completed` also refuses a group while a child can still be on disk
(`Completed`, its third argument). In the model that test never decides: the
horizon is frozen from the first spill on, and everything north of it has left
memory before the next chunk is fetched.

`PartitionedScan` has the planner (blocks of chunks per tile, boxes of what other
partitions may touch) as operators on a mosaic's layout, and the driver, workers
and merger as actions; a worker validates the plan against the mosaic it opens, and
encodes its partial cells in a version the merger may refuse. `SpillRuns` keeps runs
as sequences, so that merging, carrying and reading are what the code does to files,
any of which may fail; an accumulator is its samples and its set of classes.
`ShardedResolutionMap` has the table and heap capacities the byte counts depend on,
table growth and tombstones included.

### Rules

`MosaicLayout`, `Georeferencing`, `ChunkDecode`, `ScanlineWalker` and the tile
bounds of `TilePyramid` are functions, checked against a reference definition over bounded
inputs. `CellStatistics` and `CategoryCounts` build accumulators step by step, by
single samples, spans and merges in every order, next to the bag of samples seen.

Coordinates are integers. Latitudes matter by their order only, and longitudes by
their order around the circle and by half turns, so a conic or polar projection is
measured on a diamond, which keeps both; rounding is outside the model. Cones open
to the north and to the south, the windows on them are also turned, and their bounds
take the foot of the apex on each transformed edge, as `transform_rect_bounds` does.
The walker's rows cross the antimeridian, where `columns` does not prune and
`is_point_in_bbox` wraps. It leaves out the seven-point hexagon pattern and the row
caches of projected rasters.

A sample's bytes have a small base. A chunk is decoded into a recycled buffer that is
missing, longer, shorter or of another file's type, all of its samples stale, and
through a stale scratch space; a sparse chunk keeps the type of the buffer it is given,
which does no harm since the streamer skips sparse chunks (`is_sparse_chunk`). A PROJ
definition is a sequence of tokens whose values are the one a fast path assumes,
another, or unparsable. Of a parameter given twice the fast paths read the last one,
in any case, and proj4rs the first one, in lower case: `FastPathMeans` reads a
definition as the fast paths do, `CertificateMeans` as proj4rs does.

The variance is exact: sums are scaled so that every division comes out even. The
quantile sketch has gamma 2. Two class counts are tied when they differ by at most a
sixth of the total (the code has a billionth), so that small counts make chains of
ties. Bounds of the tile pyramid are the accumulator's own fields, merged in both orders.

### Exports

`PmtilesTiler` has the producer thread, the bounded channel and the caller's thread;
its streamer hands out cells in any batches with any horizon `DeferredOutputKept`
allows, which the real one keeps to on rasters with a bound (see the fourth finding).
A tile is a zoom and a row, because only latitudes decide when it is written. `written`
is the sequence of writes, each a function from the tiles of one eviction to their
features; the order of the tiles inside one write is the archive's business.
`ExternalExport` and `ParquetTiler` fill the same open tiles (`TilePyramid`) from
spilled features and from row groups; any row of a group may fail to decode in the
second pass, and `drawn` remembers the rows that gave a cell. `PmtilesArchive` writes
archives and layers as sequences of values and reads them back the way the format
prescribes. A cell round a pole is cut at the seam and closed along the northern or
southern edge of the map, on whichever vertices the seam falls.
`ParquetPipeline` keeps a row group as one sequence per column, so that a column
that is not reordered or cleared with the others shows. `BatchReader` builds columns
by position, next to the schema's names; `ArrowArrayStream` counts how often each
heap block is freed.

### DuckDB

`RecordQueue`: `FastPath` is the first look at the queue, `LockStreamer` the mutex,
`SlowPath` the second look and the refill. `DuckDbScan` declares columns in bind, lets
DuckDB choose a projection, and fills vectors by position on several threads.
`MergePartials` and `PmtilesCopy` are called back in any order the C API allows, after
errors too. `DuckDbFileTransport` reads ranges with seek and read on pooled handles
of a file that may have shrunk.

### Sedona

`SedonaAdapter` has the translation of a query's filters into predicates of the scan
(`TranslateFilter`), what each provider accepts (`Supports`), and the plan that results
(`Plan`, `ReaderLimit`) as operators on a statement, and `COPY` of that query as three
threads with two bounded channels. A row carries the samples aggregated into it, so that
a box pushed too narrow shows as a clipped aggregate and not only as a missing row. What
the query means is `Answer`: its filters over the table as it was configured. The engine
between scan and sink is external: it applies the filters that are not exact, then the
limit, and may be cancelled at any of its waits.

### Abstract specifications

- `ChunkStream`: chunks in order, each once, a decode error in a chunk's place, an end
  only after the last chunk, or one fatal error. `ChunkReader` implements it
  (`ImplementsStream`), with what the consumer has received and how the stream ended
  as the mapping.
- `SpilledBag`: batches go in, each cell comes back once, in order, with all its
  samples. `SpillRuns` implements it (`ImplementsBag`): the bag is the sum over the
  levels, the run in hand and what is still to be read. `HorizonStreamer` uses such
  a bag for its disk.

## 3. Runs

| Run | Instance | Shows |
|---|---|---|
| `prefetch_budget` | 2 workers, 4 jobs, 2 slots, limit below the largest chunk, all failures; the same with a minimum batch of 3, chunks of one size and no budget; a remote queue of 2 ranges that do not fit together | `DeliveredInOrder`, `NoOverwrite`, `NoSilentTruncation`, `BudgetSound` (every byte charged is held somewhere; a bound), `PrefetchEnds`, `QueueServes` |
| `prefetch_documented_bound` | chunks of different sizes, no failure | **violation** of `DocumentedBudgetBound`, see below |
| `chunk_reader` | 2 workers, 4 jobs, 2 slots, a pool of 2 | `ImplementsStream`, `PoolCounted` |
| `remote_queue` | 2 fetch workers, 2 clients, a shared response, a chunk planned twice, a range larger than the budget, failing and short downloads | `HeldSound` (bytes, bound, one fetcher), `HonestAnswers`, `WaitedForStays` |
| `remote_short` | a transport that may return fewer bytes | **violation** of `ShortIsError`, see below |
| `stream_compact` | 2 resolutions, 5 cells, forced flushes, spills, failures, 4 chosen rasters, one of them without bounds | `StreamExact` (each cell once, complete), `HorizonSound`, `Ends` |
| `stream_unbounded` | the raster without bounds alone | **violation** of `DeferredOutputKept`, see below |
| `storage` | every raster of 3 chunks over 3 cells; one partition; partition plans of small mosaics; 4 pushes into 3 levels; a map of 3 cells in 2 shards; every list of 6 jobs on 3 tiles | `StreamsExact`, `PartitionsExact`, `ImplementsBag`, `AccountsHold`, `DecodersOptimal` |
| `exports` | 4 cells of 2 resolutions; features, row groups, COPY statements, archives, layers, Parquet streams and columnar scans of a few rows | `TilerExact`, `FilesExact`, `ArchiveReadable`, `ParquetExact`, `ColumnsExact`, `ExportsEnd` |
| `rules` | every input of a bounded family per rule; for the byte ranges, every list of 3 chunks of 2 files, offsets 0..5, lengths 0..2, gap 1, range 4 | `PlacementRules`, `MetadataRules`, `WalkExact`, `Statistics`, `TileRules`, `SlicesExact`, `RangesTight`, `PlanExact` (nothing forgotten, nothing left unmerged) |
| `hosts` | 3 scan threads and 9 records; 2 threads in table functions, aggregates, ranges of a 3-byte file; `COPY` of some 1000 queries over 6 cells, and of 3 rows with anything failing | `RecordsOnce`, `ScanExact`, `MergeExact`, `RemoteReads`, `CallsEnd` |
| `crs_override` | Albers definitions with up to two more tokens | **violation** of `EveryParameterUnderstood`, see below |

Several runs hold more than one component. The variable `part`, chosen in the
initial state and never changed, says which component a behaviour is about; the
numbered variables are that component's. Parts share no state, so such a run is the
union of its parts, each explored completely, and a property reads `part = p =>`
the component's own property.

Why the bounds suffice. Four jobs on two slots wrap the ring twice, so a job can
meet the one two laps behind it. Two workers and a limit below the largest chunk
make admission depend on order, eviction and the lone-chunk rule; a minimum batch
above the ring makes the consumer sleep with items in hand while workers wait for
its slots. (The code never combines a minimum batch with a budget.) Three chunks are
the fewest in which a cell is passed by the horizon, missed by one chunk and touched
by the next; the pair of siblings is completed, flushed early, or left incomplete.
In the remote queue a budget of 3 against ranges of 1, 2 and 4 makes both the lone
oversized range and eviction by a demand happen, with a response shared by two
chunks of which one is taken and one evicted. Limits of 1 and 4 with lengths up to 2
put gaps and merged lengths on both sides of each limit, and exactly on it. Four
pushes carry through two levels and finish with runs left in another. Six jobs on
three tiles with a cache of two force evictions whose best choice depends on jobs that
others take. A pool of two between two workers and the consumer has every order of
its atomics. The exporters' channels and batches hold two, so that both sides block;
four tiles with leaves of two entries pass the root's limit, once with room for the
pointers to their leaves and once without. A refill is four batches
of two, so nine records take two refills with a short last batch. Two blocks, the
second one short, are enough for a read inside a block, across blocks and past the
end. The queries of the Sedona part meet cells on the antimeridian, at the pole and
between two boxes, tables with and without a box, compaction or partitions, strict and
inclusive thresholds, and limits below the number of rows; its channels hold one batch,
so that both of its sides block. The families of the rules have boxes, rasters and cells on both sides of, on,
and across the antimeridian, and all orders of two accumulators up to a total
weight. Bounds are constants of the modules; nothing is cut off by a state
constraint. Symmetry (threads) is used only in the two remote runs, which check no
liveness.

**Findings.** First, `docs/engineering.md` line 92 gives max(budget, largest chunk) as
the bound of decoded bytes. `settle` charges the real capacity of a decoded
buffer without asking whether it fits, and a recycled buffer that is too small
is grown by `Vec::resize`, which may double it. With chunks of different sizes
the charge passes the documented bound (`DocumentedBudgetBound`, violated in
`prefetch_documented_bound`). `BudgetBound`, a part of `BudgetSound` and proved in section 4, is what the code
guarantees: each worker that has settled since the last grant may have exceeded its
reservation once, by less than the largest chunk. The test that asserts the
documented bound uses strips of one size, which never make a buffer grow.

Second, `RemoteTransport::fetch_range` promises (`http_range.rs` line 259) that a
short answer "is treated as an error by the caller". The remote queue leaves out
the chunks such an answer does not cover (`remote_prefetch.rs` line 557), marks
the range finished, and answers `Ok(None)`: the client reads the chunk by itself
and nobody hears of an error (`ShortIsError`, violated in `remote_short`). The
built-in transport refuses short bodies, so this concerns transports supplied by
a host. Nothing wrong is decoded: `HonestAnswers` holds with short answers
(`remote_queue`).

Third, `docs/crs-and-projection.md` line 37 says the closed-form projections are used
"only when every PROJ parameter is understood". The Albers path accepts a named
ellipsoid or datum and ignores an explicit `+a`, `+rf` or `+f` beside it
(`transformer.rs` line 295), so `+ellps=GRS80 +a=6378388` is computed with GRS80
(`EveryParameterUnderstood`, violated in `crs_override`). The other way in which a
parameter is lost is `+init=epsg:NNNN` (line 843): it is taken for its code, and
whatever stands beside it, `+proj` or `+towgs84` included, is ignored; only a grid shift
or NAD27 is still refused. `MetadataRules` excludes these two kinds of definitions
(`Overridden`) and holds for all others of the family it tries, with parameters given
twice or in upper case among them.

Fourth, a comment of `advance_inner` (`controller.rs` line 959) says: "Keep the published
horizon conservative until deferred output is consumed; downstream tilers must not flush
ahead of it". When no chunk has a finite northern bound (the UTM raster of
`tests/it/projected_eviction.rs` line 62 is one) nothing is evicted early, so every cell
is deferred to the end. But after the last batch `eviction_horizon` is the bound of no
chunk, -infinity (line 976), and the next turn finds the output buffer empty and
publishes it (line 934) before the first cell is emitted. A caller that needs more than
one call, which returns at most 2048 records, reads -infinity with its first batch
(`DeferredOutputKept`, violated in `stream_unbounded`). A tiler then closes all its tiles
(`pmtiles/features.rs` line 326), and cells of later batches open some of them a second
time. `HorizonSound` is the same property of the rasters that have a bound; the test that
asserts it (`tests/it/compaction_streaming.rs` line 111) uses such a raster.

Observations without a run. Those that concern a modelled definition are named
exceptions of its property, which fails without them:

- The comment of `majority` (`aggregator/categorical.rs` line 118) gives the tie epsilon
  as what makes the result independent of the merge order. Being tied is not
  transitive: with counts 1e9, 1e9 + 2 and 1e9 + 4 of classes 1, 2 and 3 the visiting
  order decides between 1 and 3. `Statistics` promises the lowest tied class where ties
  form no chain (`TiesAgree`), and otherwise a count within one tie per class of the
  largest.
- The comment at `pmtiles/writer.rs` line 344 wants the root directory within 16,257
  bytes. Leaves have 4,096 entries however many there are, and the root that points to
  them is not measured. `ArchiveReadable` promises the limit up to the number of leaves
  it has room for (`MaxLeaves`); the tiles of a larger archive are found all the same,
  by a reader that fetches the rest of the root.
- `polar_cap` (`pmtiles/mvt.rs` line 506) looks for the edge that passes the eastern seam;
  when a vertex of the ring lies at longitude -180 itself no edge does, and it takes
  the last one, which is right only if that vertex is the first. Otherwise the outline
  crosses itself (`SeamMissed`).
- `process_parquet_to_pmtiles` finds the H3 column among the leaf columns and reads the
  top-level field at that position (`transcode/parquet_tiler.rs` line 326). Behind a
  nested column these differ, and every row is dropped and counted as invalid. So is a
  row that does not decode; a group whose column cannot be read in the first pass is
  left out without being counted. `FilesExact` therefore speaks of the rows that gave a
  cell, and of the counts.
- The decoder regards a chunk at offset 0 as absent whatever its length (`geotiff.rs`
  lines 414 and 887), while the planner skips only chunks of length 0
  (`remote_prefetch.rs` line 103). Such a chunk would be requested and, since provided
  bytes are tested only for emptiness, decoded.
- A false-easting key whose index lies behind the end of the doubles array is read as
  0, where the comment of `extract_crs` says that anything incomplete yields no
  definition. The forms `MetadataRules` reads leave the array long enough for it.
- The comment of the remapper's `parse` shows a bare list of values (`101, 102: 1`);
  the code accepts lists only in brackets.

### Fairness

- `MosaicPrefetch`, `ChunkReader`: weak fairness per thread. The operating system runs
  every thread that can run; a thread asleep on a condition variable cannot.
  That two threads contend for a mutex needs no more, since a critical section
  is one step, or is left by the holder's own steps.
- `RemoteChunkQueue`: weak fairness per fetch worker and for a client inside a
  call or with a chunk to drop. A download ends, since retries are bounded and
  requests have time-outs. No client has to ask, and nobody has to cancel. After
  a cancellation a client leaves (strong fairness of `shutdown /\ Leave`): the
  decode loop tests `is_closed` at every turn, and the reader's `Drop` closes the
  decode queue before it cancels the remote one.
- `HttpRangeSource`: weak fairness per thread in a call; the server may fail
  every time.
- `HorizonStreamer`: weak fairness of `Next`, one thread whose caller keeps
  reading. Every loop of `advance_inner` has to end by itself.
- `RecordQueue`: weak fairness per thread, strong fairness for locking the
  streamer: the mutex is free again and again, and a thread asking for it
  obtains it eventually.
- `PmtilesTiler`, `ParquetPipeline`: weak fairness of each of the two threads. A
  streamer's drain and a write return, with success or an error.
- `SedonaAdapter`: weak fairness of the blocking scan thread, of the sink's task and of
  the worker thread; the runtime runs tasks and blocking threads that can run.

Deadlock is checked in the prefetch, streaming, remote and planning runs: there the
only states without a real step are those where every thread has returned, which
stutter explicitly. The other runs hold functions, which have no steps, and
components that stop for good once a file is written, a reader is gone or a statement
has failed, so they say `CHECK_DEADLOCK FALSE`; that nothing stops too early is the
business of `ExportsEnd`, `CallsEnd` and `ImplementsStream` there.

## 4. Proofs

Seven modules hold theorems about a component's specification, each for every value of
its constants; `OrderedPrefetchQueue` ends with the lemmas about the ring that both
prefetchers use. Apart from the assumptions the modules state of their constants,
which TLC also evaluates, nothing is assumed. The modules that the runs take with
`INSTANCE` define their assumption instead (`SourceAssumption`, `TransportAssumption`,
`ArrowAssumption`, `MergeAssumption`, `MapAssumption`); it is the hypothesis of their
theorems, and `MCHosts`, `MCExports` and `MCStorage` assert it of their instances.

| Module | Theorem | Statement |
|---|---|---|
| `MosaicPrefetchProofs` | `TypeCorrect` | `Spec => []TypeOK` |
| | `DeliveryOrder` | `Spec => []DeliveredInOrder` |
| | `EndIsComplete` | `Spec => []NoSilentTruncation` |
| | `PushesKeepChunks` | `Spec => NoOverwrite` |
| | `BudgetAccount`, `BudgetStaysBounded`, `BudgetIsSound` | `Spec => []BudgetBalanced`, `[]BudgetBound`, `[]BudgetSound` |
| | `MapAccounts` | `MapSpec => []AccountsBalanced` |
| `ChunkReaderProofs` | `ReaderPoolCounted` | `Spec => []PoolCounted` |
| | `ReaderStepsStream` | `Spec => Stream!Init /\ [][Stream!Next]_(Stream!streamVars)` |
| `RemoteChunkQueueProofs` | `CoalesceTypes` | `CoalesceSpec => []CoalesceTypeOK`: no slice start is negative, so no subtraction wraps |
| | `ResponseSlices`, `RequestLimits` | `CoalesceSpec => []SlicesExact`, `[]RangesTight` |
| | `RemoteHeldSound` | `Spec => []HeldSound` |
| | `RemoteHonestAnswers` | `Spec => []HonestAnswers` |
| | `RemoteWaitedForStays` | `Spec => WaitedForStays` |
| `HorizonStreamerProofs` | `StreamIsAccounted` | `Spec => []StreamInv`, the inductive invariant |
| | `StreamIsExact` | `Spec => []StreamExact` |
| | `HorizonIsSound` | `Spec => []HorizonSound` |
| `TilerProofs` | `TilerTypesHold` | `Spec => []TilerTypes` |
| | `TilesExact` | `Spec => []TilerExact` |
| `HttpRangeSource` | `SourceReadsExact` | `Spec => []ReadsExact` |
| `HostProofs` | `RecordsSharedOnce` | `Spec => []RecordsOnce` |
| | `TransportFetchExact` | `TransportSpec => []FetchExact` |
| | `ArrowOwnership` | `ArrowSpec => []OwnershipExact` |
| | `MergesExact` | `MergeSpec => []MergeExact` |

### The mosaic prefetcher

Any number of workers, jobs and slots, any chunk sizes, budget and batch limits, and
any set of failures (`QueueAssumption`, `PrefetchAssumption`: at least one slot,
finitely many workers, chunks no larger than their reservation, `MinBatch <= MaxBatch`).

`TypeInv` adds to the types that a busy worker's job exists and that the
consumer holds items while it processes or recycles. `DeliveryInv` is the
inductive strengthening for the delivery properties:

- `ClaimedOnce`: a job is claimed once, and is with one worker or in one slot;
- `Window`: as long as no terminal error was delivered, the consumer has exactly
  the jobs below `nextRead`, each item in the ring is in the slot of its job, and
  lies less than `Capacity` ahead; a busy worker's job is not behind `nextRead`;
- `ClosedByFailure`: before `Drop` only a failure closes the queue, and then its
  error waits in `terminalItem`;
- `ErrorsSeen`: a consumer that goes on has seen no error.

The core is `SlotInjective`: two jobs of one window with the same slot are equal.
With it the ready run is the next jobs in order (`RunInOrder`), and a push
finds its slot empty (`WindowSlotFree`). Delivery order alone is not inductive, because
it says nothing of what waits in the ring; and `Window` fails once the terminal error
has set `nextRead` to the end, hence its premise.

For the account, a byte is a pair of an owner and a number (`Bytes`), so that a sum of
capacities is the size of a set, and a buffer that changes hands moves a set of bytes.
The lemmas on sums (one owner, two disjoint parts, an owner changed or removed) need no
induction. `AccountInv` adds `UnreservedEmpty` (a worker without a reservation answers
for nothing) to `BudgetBalanced`: without it a worker could be admitted while it still
holds bytes. `BoundInv` adds `Reserved` (what a worker reserved covers the buffer it
reuses and the chunk it decodes) and `BuffersBounded` (no buffer, wherever it is, is
larger than a chunk grown once). `BudgetBound` alone does not say how much a settle may
add, and that depends on the buffer the worker took. The least job order needs
(`HasLeast`) comes from the library's well-founded minimum.

### The single-file prefetcher

Any number of workers, jobs, slots and pooled buffers (`ReaderAssumption`: finitely many
workers, a minimum batch of one, an empty slot is no item).

`PoolInv` bounds `count`, not only the queue's length: a push that is between its
exchange and its inject has room because the exchange compared the count it loaded with
the capacity. With `count = pool + Uncounted + ...` it makes the saturating subtraction
in `pop` exact.

`StreamInv` is the prefetcher's own form of `DeliveryInv`: `WorkersApart`, `RingApart`
(a job is with one worker or in one slot), and `ReadInOrder` (while the consumer reads,
it has the jobs below `nextRead`, the ring holds a window from there, and a closed queue
has an error waiting). `RunContinues` shows that the ready run is one of the
stream's `Continuations`; `DrainStep` then maps each branch of `next_chunk_batch` to a
step of `ChunkStream` (`Deliver`, `DeliverFatal`, `End`), `Cancel` maps to `Stop`, and
every other step is a stutter. This is the safety half of `ImplementsStream`; that the
stream goes on and `Drop` returns stays with TLC.

### The request planner

Any list of chunks, whatever their order, overlap or file, and any two limits
(`CoalesceAssumption`, the types of the arguments). `CoalesceInv` says of each finished
range and of the current one what the two properties say of their concatenation. Neither
is inductive alone: that a slice lies behind the start of its range follows from the
range being tight (`TightEnd`), and that an extended range is tight needs the end of its
last slice (`ExtendedTight`). `AllPlanned` and `GreedyMerge` compare whole sequences and
are left to TLC, which runs every list of three chunks.

### The remote queue

Any number of fetch workers and clients, any ranges and slices, any budget, failing,
short and repeated downloads, cancellation. `RemoteInv` is

- `JobsInv`: a ready chunk's range is finished, an untaken chunk of a finished range is
  ready unless no response covered it (`FinishedFound`), a busy worker owns its range
  alone, and a demand is for a range still open and listed once;
- `ClientInv`: `requested` counts the clients that wait for a range, a waiting client's
  chunk is scheduled, a chunk in a client's hands is nobody else's, and an answer
  `None` has a reason (`HonestNone`, `TakenOnce`);
- `MemoryInv`: who holds a share of a response and when, finitely many are alive,
  `held_bytes` is their bytes, and it is within the bound.

`HeldBalanced` is not inductive without the shares: whether a drop releases bytes
depends on there being no other share. `HonestNone` rests on `FinishedFound`, since
`get_chunk_payload` takes a finished range without the chunk for "not prefetched";
eviction keeps that true only because it reopens the range it takes chunks from.
`RemoteWaitedForStays` is the action property: no step takes from the ready map a chunk
some client is waiting for, except to hand it over. It rests on the count of waiting
clients (`VictimsUnwanted`), which includes those woken and not yet run.

### The HTTP source

Any file, block size, number of retries and of reading threads, and any of the modelled
answers of the server at any request (`SourceAssumption`: the file is not empty, blocks
have a size). `ReadsExact` speaks of calls that have returned. What they return is cut
from the cache or from a response, so `SourceInv` adds

- `CacheRight`: a cached block is that block of the file, and whole, whichever thread
  inserted it; a block that another thread inserted first is the same one;
- `Opening`: the probe alone decides the file's size, and nobody reads before it has;
- `CallsRight`: a thread about to insert holds exactly the block it asked for.

A response becomes a block only through `validate_range_response`. `Opening` is needed
because a block's length depends on the size: the last block would change if the size
did.

### The streamer

Any raster, hierarchy of cells and latitudes that `CompactorAssumption` and
`StreamerAssumption` allow, any map budget, output limit, batch and row sizes, with or
without a compaction budget and failures.

The compactor comes first, as lemmas about values: a sound compactor stays sound under
`flush_parent` (`FlushParentSound`) and `push_cell` (`PushCellSound`), which say which
cells move from a group to the output, and that a group as long as its parent has
children contains them all (`FullGroup`). `StreamInv` is

- `OutputSound`: the accumulators in records, partials and groups are complete, and no
  cell is in two of them;
- `Ledger`: a cell is either waiting, and then the maps, runs and the final stream hold
  as many samples as chunks were merged, or settled, and then they hold none and it was
  kept if the filter keeps it;
- `Progress`: no chunk still to be merged reaches north of `evictionHorizon`;
- `Places`: samples are on disk only for a spilled resolution, in the final stream only
  while one is open, and nowhere once their resolution was read.

`StreamExact` speaks of what has left only; that `pop_completed` takes a whole cell
needs the ledger, the horizon and the absence of runs together (`PopIsEmission`).
The proof sorts steps by what they do to the samples (`Quiet`, `EmitStep`, `MergeStep`)
and to the output, and then has one step per action for types, progress and places.

For the horizon, a cell is *live* while it waits in a group or some sample of it is in
the streamer or in a chunk to come. No step makes a cell live again, and what comes out
is a live cell or a parent all of whose children are live (`LiveStep`); a parent starts no
further north than one of its children. So a bound on what is buffered and live stays
one (`BelowKept`), and it remains to show that `FetchBatch` publishes such a bound
(`PublishedBound`). This needs `Tracking`: each map that has not spilled still has its
eviction keys, and nothing north of the horizon was left in it. Both fail without a
bounded suffix of chunks, which is the finding of `stream_unbounded`.

### The accounts of the sharded map

Any cells, shards and sizes of states, any growth and shrinking of the tables'
capacities (`MapAssumption`: finitely many cells and shards). A byte is again a pair of
an owner and a number, so the lemmas on sums that the decode budget uses apply to the
states, the shards and the records waiting for output. `MapInv` adds `Released`: a shard
without cells has no table and no heap. Without it `AccountsBalanced` would not follow
for the empty map, which counts no bytes; it holds because the eviction that empties a
shard and a spill both replace its containers.

### The streaming export

Any cells, rows and radii that `TilerAssumption` allows (rows have a height, a cell is no
taller than twice the radius of its resolution), any batch size and channel capacity, any
cutting into batches, any horizon the streamer's contract allows, and failures on both
sides. The contract, that no cell still to come starts north of the horizon it was
published with, is what `HorizonIsSound` proves of the streamer on rasters with a bound.

`TilesCompleteOnce` is not inductive: it says nothing of open tiles or of cells on their
way. `TilerInv` adds, while cells are delivered (`Delivered`, over the batches of the
channel and the one being sent),

- `Ordered`: a cell is in one batch or pending, and no cell behind a batch starts north
  of that batch's horizon;
- `Accounted`: each tile a delivered cell touches is open or written, never both, never
  written twice, and has exactly the features the delivered cells give it;
- `Merged`: the overview has exactly the parents of the delivered cells;
- each eviction entry has the latitude its tile's row and the margin give, and no
  written tile is touched by a cell that is still to come.

The last part carries the argument. `SafeMargin` shows that a row whose southern edge
is more than the margin, 2.5 radii, north of the horizon cannot be reached by a cell that
starts at or south of it, since the cell is at most two radii high; a margin below that
height breaks the proof where it breaks the run. That the
overview never writes a tile again is a fact about zooms: cells are drawn only at zooms
whose resolution is theirs or finer, parents only at coarser ones (`CellZoom`,
`OverviewZoom`). After the last batch the invariant is handed on by control state: all
tiles accounted for before the flush, the whole archive after it, and an output file
only then.

### The record queue

Any number of threads, records and rows to a batch. The first lemmas say how a drain of at
most four batches is cut (`CutShape`, `CutPlace`, `CutApart`, `CutCovers`). `QueueInv` adds
to `RecordsOnce` that at most three batches wait and that the end-of-stream flag tells
the truth (`FinishedSound`: nothing left in the streamer or in the queue). Without the
last part a thread that finds the queue empty and the flag up could end early; it holds
because the flag is raised under the streamer's mutex after the second look at the queue.

### The file handles

Any number of readers, any file, also one that has shrunk, any requests.
`TransportInv` adds to `FetchExact` that a handle has one owner (`OneOwner`: a place in
the pool or a reader inside a fetch) and that a reader's buffer is a prefix of its range
and its handle stands where the buffer ends (`Filling`). The second part holds between a
seek and the reads after it only because of the first: no other reader moves the handle.
That no more handles are opened than there are readers is a count: a handle is opened
when the pool is empty, so all others are with other readers.

### The Arrow structs

Any number of columns, any number of structs handed out, any order of releases and moves
the C interfaces allow. `ArrowInv` replaces the bounds of `OwnershipExact` by equalities
(`Counted`): how often a block was freed follows from who can still release it. A
child's data is counted by the child's own state, not its parent's, which is why a
child that was moved out survives the release of its parent and is freed all the same.

### The merge aggregates

Any threads (at least one), groups and input rows. `MergeInv` adds to `MergeExact`

- `BoxOwned`: a box is in one slot or freed, and an array that is combined or destroyed
  has no boxes;
- `RowsShared`, `RowsKept`: a row with a state is pending or in one box of its group,
  until the result is there or an update failed;
- `SomeoneLeft`: while rows are pending and no update failed, some thread still has its
  states.

With the last part nothing is pending when the states are finalized, and then the boxes
of the final array have all rows. A combine that copied a box and left its source owned
would break `BoxOwned`, one that dropped it without merging `RowsKept`.

### What stays with TLC

The inductive invariants were checked with TLC on the instances of the runs before
they were proved. Only model-checked are

- liveness (`PrefetchEnds`, `QueueServes`, `Ends`, `ExportsEnd`, `CallsEnd`, the end in
  `ImplementsStream`), which is out of the prover's reach;
- what recursive definitions compute (the rules, statistics, tiles and formats): the
  library's induction theorems take an operator as parameter, which the installed
  provers cannot instantiate. Where a least counterexample is enough, well-founded
  minima replace induction, as above;
- the refinement of `SpilledBag`, and the properties of the modules that have no proof
  module. Among the exporters these are `ExternalExport`, `ParquetTiler` and
  `ParquetPipeline`, whose order comes from sorting, and sorted sequences are folds,
  which need induction.

## 5. Plan

Done: every part of the inventory but those of section 6, and the proofs above. What
is left is to prove more:

1. `CompactionExact` of the streamer: without a byte limit a group is never decomposed
   while a sibling is live; the lemmas on live cells are the start.
2. The steps of `SpilledBag` taken by `SpillRuns`.

## 6. Not modelled

- DuckDB's scalar functions and registration, geometry and WKB encoding
  (`encoding/`, `scalar_ops.rs`), spectral formulas: stateless conversions per row, in
  floating point, without control worth exploring.
- The projections' arithmetic: real-valued. What is modelled is which projection is
  chosen and what is concluded from its bounds.
- Configuration, argument handling, profiling, the Python, PostgreSQL and command-line
  front ends: sequential checks and I/O around one call of the core.
- Of the DataFusion and Sedona adapters the projection of columns, table statistics,
  polyfill, the merge aggregate and the scalar functions; the engines' own operators are
  outside the repository.
- Rayon's pool: a batch's parallel waves merge thread-local maps in window order and
  are modelled as that order. Whether a wave started on a Rayon worker
  (`controller.rs` line 713) can wait for its own caller is a question about Rayon's
  stealing, which the model does not have.
- The limit on the number of waiting remote chunks is checked before each request, so
  downloads under way together overshoot it (`remote_prefetch.rs` line 493) by at most
  the chunks of their responses. `HeldSound` bounds the bytes instead.
- Bytes of compressed data, Parquet pages and footers, JSON and XML text: a codec or
  parser is what it promises to return.
