---------------------------- MODULE PartitionedScan ---------------------------
(* A partitioned scan: a driver plans it, workers scan one partition each and     *)
(* hand over finished cells and partial cells, a merger combines the partial      *)
(* cells (multi_horizon/partition.rs and partial.rs).  A cell's state is its      *)
(* number of samples.  Streaming one partition is a single step: HorizonStreamer  *)
(* models how it is done.                                                          *)
EXTENDS Integers, Sequences, FiniteSets, FiniteSetsExt, SequencesExt

-----------------------------------------------------------------------------
(* Planning a partitioned scan and classifying its cells                          *)
(* (multi_horizon/partition.rs), as operators on a mosaic's layout.  A mosaic is  *)
(* [tiles, chunk_refs, layout]: per tile its chunk grid, the streamed chunks in   *)
(* order, and everything else that decides where samples land.                    *)

CONSTANTS
    MaxLon, MaxLat,    \* longitudes are -MaxLon .. MaxLon, latitudes likewise
    PoleLat            \* no box is taken beyond this latitude (89 degrees)

Clamp(v, lo, hi) == Max({lo, Min({v, hi})})
DivCeil(a, b) == (a + b - 1) \div b

-----------------------------------------------------------------------------
\* Wrong: the end column is taken as included.
BlockContainsEnd(b, tile, col, row) ==
    /\ b.tile = tile
    /\ b.col_start <= col /\ col <= b.col_end
    /\ b.row_start <= row /\ row < b.row_end

\* Chunk blocks and partitions.
BlockContains(b, tile, col, row) ==
    /\ b.tile = tile
    /\ b.col_start <= col /\ col < b.col_end
    /\ b.row_start <= row /\ row < b.row_end

ChunkCol(m, c) == c.chunk % Max({m.tiles[c.tile].across, 1})
ChunkRow(m, c) == c.chunk \div Max({m.tiles[c.tile].across, 1})

ContainsChunk(p, m, c) ==
    \E b \in Range(p.blocks) : BlockContains(b, c.tile, ChunkCol(m, c), ChunkRow(m, c))

\* The hash is taken to be injective; file paths are no part of it.
Fingerprint(m) == <<m.tiles, m.layout, m.chunk_refs>>

ValidFor(p, m) ==
    /\ p.count # 0 /\ p.index < p.count
    /\ p.fingerprint = Fingerprint(m)
    /\ \A b \in Range(p.blocks) :
          /\ b.tile \in DOMAIN m.tiles
          /\ b.col_start < b.col_end /\ b.row_start < b.row_end
          /\ b.col_end <= m.tiles[b.tile].across
          /\ b.row_end <= m.tiles[b.tile].down

\* round(sqrt(n / d)) of two positive integers.
RoundedRoot(n, d) == Max({k \in 0 .. n + 1 : k = 0 \/ (2 * k - 1) * (2 * k - 1) * d <= 4 * n})

\* The rectangles of one tile, row by row, that hold a streamed chunk.
TileBlocks(m, tile, target) ==
    LET at == {<<ChunkCol(m, c), ChunkRow(m, c)>> : c \in {d \in Range(m.chunk_refs) : d.tile = tile}}
        c0 == Min({p[1] : p \in at})
        r0 == Min({p[2] : p \in at})
        cols == Max({p[1] : p \in at}) + 1 - c0
        rows == Max({p[2] : p \in at}) + 1 - r0
        bw == Clamp(RoundedRoot(target * Max({m.tiles[tile].ch, 1}), Max({m.tiles[tile].cw, 1})), 1, cols)
        bh == Clamp(DivCeil(target, bw), 1, rows)
        across == DivCeil(cols, bw)
        block(i) == LET bc == (i % across) * bw
                        br == (i \div across) * bh
                    IN  [tile |-> tile,
                         col_start |-> c0 + bc, col_end |-> c0 + Min({bc + bw, cols}),
                         row_start |-> r0 + br, row_end |-> r0 + Min({br + bh, rows})]
        size(b) == Cardinality({p \in at : BlockContains(b, tile, p[1], p[2])})
        all == [i \in 1 .. across * DivCeil(rows, bh) |-> [block |-> block(i - 1), n |-> size(block(i - 1))]]
    IN  IF at = {} THEN << >> ELSE SelectSeq(all, LAMBDA b : b.n > 0)

\* Consecutive rectangles share a partition while they fit the target.
Pack(blocks, target) ==
    LET place(packed, b) ==
            IF packed.blocks # << >> /\ packed.n + b.n > target
              THEN [done |-> Append(packed.done, packed.blocks), blocks |-> <<b.block>>, n |-> b.n]
              ELSE [packed EXCEPT !.blocks = Append(@, b.block), !.n = @ + b.n]
        packed == FoldLeft(place, [done |-> << >>, blocks |-> << >>, n |-> 0], blocks)
    IN  IF packed.blocks = << >> THEN packed.done ELSE Append(packed.done, packed.blocks)

\* plan_partitions; a target of zero chunks is refused by the caller's guard.
PlanPartitions(m, target) ==
    LET lists == [t \in DOMAIN m.tiles |-> TileBlocks(m, t, target)]
        packed == Pack(FlattenSeq(lists), target)
    IN  [i \in DOMAIN packed |-> [index |-> i - 1, count |-> Len(packed),
                                  fingerprint |-> Fingerprint(m), blocks |-> packed[i]]]

\* restrict_mosaic keeps the order of the streamed chunks.
Restricted(m, p) == SelectSeq(m.chunk_refs, LAMBDA c : ContainsChunk(p, m, c))

-----------------------------------------------------------------------------
\* Rectangles <<w, s, e, n>>.
Intersects(a, b) == a[1] <= b[3] /\ a[3] >= b[1] /\ a[2] <= b[4] /\ a[4] >= b[2]

NonFinite == << >>

\* Bounds of a foreign chunk: anything but a plain box is widened.
NormalizedForeignBounds(b) ==
    IF b = NonFinite \/ b[2] > b[4]
      THEN <<-MaxLon, -MaxLat, MaxLon, MaxLat>>
      ELSE LET s == Max({b[2], -MaxLat})
               n == Min({b[4], MaxLat})
           IN  IF b[1] > b[3] \/ b[1] < -MaxLon \/ b[3] > MaxLon
                 THEN <<-MaxLon, s, MaxLon, n>>
                 ELSE <<b[1], s, b[3], n>>

NoBox == << >>

\* The padded box of a cell whose boundary spans <<w, s, e, n>>, grown by a whole span
\* for its descendants; none near a pole or across the antimeridian.  The slack for
\* rounding has no counterpart in integers.
CellBox(area, descendants) ==
    LET pad == Max({area[3] - area[1], area[4] - area[2]}) \div 2
        span == Max({area[3] - area[1], area[4] - area[2]})
        grow == pad + (IF descendants THEN span ELSE 0)
        box == <<area[1] - grow, area[2] - grow, area[3] + grow, area[4] + grow>>
    IN  IF \/ area[3] - area[1] > MaxLon
           \/ box[1] < -MaxLon \/ box[3] > MaxLon
           \/ box[2] < -PoleLat \/ box[4] > PoleLat
          THEN NoBox ELSE box

\* The grid index over the foreign rectangles.
Extent(rects) == <<Min({r[1] : r \in rects}), Min({r[2] : r \in rects}),
                   Max({r[3] : r \in rects}), Max({r[4] : r \in rects})>>

Side(rects) == Clamp(CHOOSE k \in 0 .. Cardinality(rects) :
                        /\ k * k >= Cardinality(rects)
                        /\ \A j \in 0 .. k - 1 : j * j < Cardinality(rects), 1, 512)

Bucket(v, lo, hi, n) == LET t == IF hi > lo THEN ((v - lo) * n) \div (hi - lo) ELSE 0
                        IN  Min({Max({t, 0}), n - 1})

BucketRange(r, rects) ==
    LET x == Extent(rects)
        n == Side(rects)
    IN  (Bucket(r[1], x[1], x[3], n) .. Bucket(r[3], x[1], x[3], n))
            \X (Bucket(r[2], x[2], x[4], n) .. Bucket(r[4], x[2], x[4], n))

\* intersects looks only at the rectangles of the buckets it covers.
ForeignIntersects(r, rects) ==
    /\ rects # {}
    /\ Intersects(r, Extent(rects))
    /\ \E b \in BucketRange(r, rects), f \in rects :
          b \in BucketRange(f, rects) /\ Intersects(r, f)

Clear(box, rects) == box # NoBox /\ ~ForeignIntersects(box, rects)

\* classify.  The caches of ancestor verdicts hold what the same call would compute, so
\* they are left out; a cell of a coarse resolution has fewer ancestors.
IsInterior(cell, rects, Area(_), Ancestors(_)) ==
    \/ rects = {}
    \/ \E a \in Ancestors(cell) : Clear(CellBox(Area(a), TRUE), rects)
    \/ Clear(CellBox(Area(cell), FALSE), rects)

-----------------------------------------------------------------------------
(* The scan.                                                                      *)

CONSTANTS
    Mosaics,            \* the mosaics a driver may open
    Targets,            \* target_chunks
    CellsAt(_, _, _),   \* CellsAt(m, c, cell): samples chunk c of mosaic m has in cell
    Bounds(_, _),       \* Bounds(m, c): the chunk's bounds as the transformer gives them
    CellsOf(_),         \* CellsOf(m): the cells with samples
    Area(_),            \* extent of a cell
    Ancestors(_),       \* its ancestors at the cached levels
    MinCount,           \* the sample filter
    Versions            \* encodings the workers may use; the merger reads version 2

VARIABLES
    mosaic, plan,
    worker,     \* per partition: "waiting", "sent" or "refused"
    records,    \* sequence of finished records
    partials,   \* per partition: encoded partial cells under way
    merged,     \* PartialMerger::cells
    status      \* "merging", "done" or "failed"

scanVars == <<mosaic, plan, worker, records, partials, merged, status>>

-----------------------------------------------------------------------------
Encode(version, cell, n) == [magic |-> TRUE, version |-> version, kind |-> 1,
                             cell |-> cell, state |-> n, trailing |-> FALSE]

Decodable(bytes) == bytes.magic /\ bytes.version = 2 /\ bytes.kind = 1 /\ ~bytes.trailing

\* A set as a list, in whatever order.
Listed(S) == FoldSet(LAMBDA x, list : Append(list, x), << >>, S)

PassesFilter(n) == n >= MinCount

SamplesIn(m, chunks, cell) == MapThenSumSet(LAMBDA c : CellsAt(m, c, cell), Range(chunks))

Foreign(m, p) == {NormalizedForeignBounds(Bounds(m, c)) :
                    c \in {d \in Range(m.chunk_refs) : ~ContainsChunk(p, m, d)}}

Touched(m, p) == {cell \in CellsOf(m) : SamplesIn(m, Restricted(m, p), cell) > 0}

Interior(m, p) == LET rects == Foreign(m, p)
                  IN  {cell \in Touched(m, p) : IsInterior(cell, rects, Area, Ancestors)}

-----------------------------------------------------------------------------
Init ==
    /\ mosaic \in Mosaics
    /\ \E target \in Targets : plan = PlanPartitions(mosaic, target)
    /\ worker = [p \in DOMAIN plan |-> "waiting"]
    /\ partials = [p \in DOMAIN plan |-> << >>]
    /\ records = << >>
    /\ merged = << >>
    /\ status = "merging"

\* A worker opens its own mosaic and scans its partition of it: interior cells that
\* pass the filter are finished records, boundary cells leave unfiltered.
WorkerScans(p, m, version) ==
    /\ worker[p] = "waiting" /\ status = "merging"
    /\ ValidFor(plan[p], m)
    /\ LET chunks == Restricted(m, plan[p])
           inside == Interior(m, plan[p])
           kept == {cell \in inside : PassesFilter(SamplesIn(m, chunks, cell))}
           rest == Touched(m, plan[p]) \ inside
       IN  /\ records' = records \o
                 Listed({[cell |-> cell, n |-> SamplesIn(m, chunks, cell)] : cell \in kept})
           /\ partials' = [partials EXCEPT ![p] =
                 Listed({Encode(version, cell, SamplesIn(m, chunks, cell)) : cell \in rest})]
    /\ worker' = [worker EXCEPT ![p] = "sent"]
    /\ UNCHANGED <<mosaic, plan, merged, status>>

WorkerRefuses(p, m) ==
    /\ worker[p] = "waiting" /\ status = "merging"
    /\ ~ValidFor(plan[p], m)
    /\ worker' = [worker EXCEPT ![p] = "refused"]
    /\ status' = "failed"
    /\ UNCHANGED <<mosaic, plan, records, partials, merged>>

\* push_encoded: the states of a cell are merged in the order they arrive.
PushEncoded(p) ==
    /\ status = "merging" /\ partials[p] # << >>
    /\ LET bytes == Head(partials[p])
       IN  IF Decodable(bytes)
             THEN /\ merged' = IF bytes.cell \in DOMAIN merged
                                 THEN [merged EXCEPT ![bytes.cell] = @ + bytes.state]
                                 ELSE [cell \in DOMAIN merged \cup {bytes.cell} |->
                                          IF cell = bytes.cell THEN bytes.state ELSE merged[cell]]
                  /\ UNCHANGED status
             ELSE status' = "failed" /\ UNCHANGED merged
    /\ partials' = [partials EXCEPT ![p] = Tail(@)]
    /\ UNCHANGED <<mosaic, plan, worker, records>>

\* finish filters the merged states.
Finish ==
    /\ status = "merging"
    /\ \A p \in DOMAIN plan : worker[p] = "sent" /\ partials[p] = << >>
    /\ LET kept == {cell \in DOMAIN merged : PassesFilter(merged[cell])}
       IN  records' = records \o Listed({[cell |-> cell, n |-> merged[cell]] : cell \in kept})
    /\ status' = "done"
    /\ UNCHANGED <<mosaic, plan, worker, partials, merged>>

Next ==
    \/ \E p \in DOMAIN plan :
          \/ \E m \in Mosaics, version \in Versions : WorkerScans(p, m, version)
          \/ \E m \in Mosaics : WorkerRefuses(p, m)
          \/ PushEncoded(p)
    \/ Finish

Spec == Init /\ [][Next]_scanVars

-----------------------------------------------------------------------------
\* Every streamed chunk belongs to exactly one partition: the promise of plan_partitions.
EveryChunkOnce ==
    \A c \in Range(mosaic.chunk_refs) :
        Cardinality({p \in DOMAIN plan : ContainsChunk(plan[p], mosaic, c)}) = 1

\* A partitioned scan gives the records of an unpartitioned one: every cell that passes
\* the filter over all its samples, once and complete, whatever partition held them.
SameAsWholeScan ==
    LET total(cell) == SamplesIn(mosaic, mosaic.chunk_refs, cell)
    IN  /\ \A i \in DOMAIN records : records[i].n = total(records[i].cell)
        /\ IsInjective([i \in DOMAIN records |-> records[i].cell])
        /\ status = "done" =>
              \A cell \in CellsOf(mosaic) :
                  PassesFilter(total(cell)) => \E i \in DOMAIN records : records[i].cell = cell

=============================================================================
