----------------------------- MODULE TilePyramid -----------------------------
(***************************************************************************)
(* The rules of the vector tile pyramid (pmtiles/pyramid.rs) as operators: *)
(* which zooms show which H3 resolution, which tiles a cell falls into,    *)
(* and the bounds of a set of cells.  Longitudes are integers in           *)
(* [-HalfWorld, HalfWorld), the world is 2 * HalfWorld wide; a position on *)
(* the x axis of the tile grid is a longitude moved to 0 .. 2*HalfWorld-1. *)
(* The tiles being filled (pmtiles/features.rs) come last.                 *)
(***************************************************************************)
EXTENDS Integers, Sequences, FiniteSets, FiniteSetsExt, Functions

CONSTANTS RowHeight,   \* RowHeight[z]: latitudes per tile row at zoom z
          MaxRadius    \* MaxRadius[r]: max_hex_radius_deg of resolution r

-----------------------------------------------------------------------------
(* Zooms and resolutions.                                                  *)

MaxRes == 15

StandardZooms ==
    << {0, 1}, {2, 3}, {4}, {5}, {6, 7}, {8, 9}, {10}, {11, 12}, {13}, {14},
       {15, 16}, {17}, {18, 19}, {20}, {21, 22}, {23, 24} >>

h3_res_for_zoom(zoom) ==
    CASE zoom \in 0..1 -> 0 [] zoom \in 2..3 -> 1 [] zoom = 4 -> 2
      [] zoom = 5 -> 3 [] zoom \in 6..7 -> 4 [] zoom \in 8..9 -> 5
      [] zoom = 10 -> 6 [] zoom \in 11..12 -> 7 [] zoom = 13 -> 8
      [] zoom = 14 -> 9 [] zoom \in 15..16 -> 10 [] zoom = 17 -> 11
      [] zoom \in 18..19 -> 12 [] zoom = 20 -> 13 [] zoom \in 21..22 -> 14
      [] OTHER -> 15

h3_res_to_zoom(res) ==
    << 0, 2, 4, 5, 7, 8, 10, 11, 13, 14, 16, 17, 19, 20, 21, 23 >>[res + 1]

\* The coarsest requested resolution also covers every zoom below its own.
zooms_for_h3_res(res, min_res) ==
    LET standard == StandardZooms[res + 1]
    IN  IF res = min_res THEN 0..Max(standard) ELSE standard

\* Zooms at which a record of resolution res is drawn as it is, and the
\* coarser resolutions its parents are drawn at.
DrawnZooms(res, min_res) ==
    {z \in zooms_for_h3_res(res, min_res) : h3_res_for_zoom(z) >= res}

CoarseResolutions(min_res) ==
    {r \in {h3_res_for_zoom(z) : z \in zooms_for_h3_res(min_res, min_res)} :
        r < min_res}

\* What is drawn at a zoom: the requested resolutions and, from the overview,
\* the parents of the coarsest one.
ResolutionsAt(zoom, resolutions) ==
    LET min_res == Min(resolutions)
    IN  {r \in resolutions : zoom \in DrawnZooms(r, min_res)}
          \cup {r \in CoarseResolutions(min_res) :
                    /\ zoom \in zooms_for_h3_res(min_res, min_res)
                    /\ h3_res_for_zoom(zoom) = r}

-----------------------------------------------------------------------------
(* The tiles of a cell at a zoom.  A cell is the sequence of its vertices' *)
(* x positions and its center's; the y range plays no part in wrapping.    *)

TileX(x, world, n) == (x * n) \div world

\* Wrong: the ring is not unwrapped at the antimeridian.
UnwrappedNot(x, near, world) == x

\* A vertex brought within half a world of the previous one.
Unwrapped(x, near, world) ==
    IF 2 * (x - near) > world THEN x - world
    ELSE IF 2 * (x - near) < -world THEN x + world
    ELSE x

UnwrappedRing(vertices, world) ==
    LET ring[i \in DOMAIN vertices] ==
            IF i = 1 THEN vertices[1]
            ELSE Unwrapped(vertices[i], ring[i - 1], world)
    IN  ring

CellTilesX(center, vertices, world, n) ==
    LET raw    == {center} \cup Range(vertices)
        direct == TileX(Min(raw), world, n)..TileX(Max(raw), world, n)
        ring   == UnwrappedRing(vertices, world)
        around == Range(ring)
                    \cup {Unwrapped(center, ring[Len(vertices)], world)}
        span   == TileX(Min(around), world, n)..TileX(Max(around), world, n)
    IN  IF Cardinality(direct) = 1 THEN direct
        ELSE IF /\ 2 * (Max(raw) - Min(raw)) > world
                /\ 2 * (Max(around) - Min(around)) < world
                /\ Cardinality(span) <= n
             THEN {t % n : t \in span}
             ELSE direct

-----------------------------------------------------------------------------
(* Wgs84BoundsAccumulator.  The world is 2 * half wide and half high; the   *)
(* infinities of an empty accumulator are numbers no coordinate reaches.    *)

NewBounds(half) ==
    [ min_lon |-> 2 * half, max_lon |-> -2 * half, min_lat |-> half, max_lat |-> -half,
      min_pos_lon |-> 2 * half, max_neg_lon |-> -2 * half,
      crosses |-> FALSE, full |-> FALSE, count |-> 0 ]

\* A cell is [points |-> set of <<lon, lat>>, pole |-> "north", "south" or
\* "none"].  The pole's latitude is set before the points are observed.
RecordCell(acc, cell, half) ==
    LET lons  == {p[1] : p \in cell.points}
        lats  == {p[2] : p \in cell.points}
        north == IF cell.pole = "north" THEN half \div 2 ELSE acc.max_lat
        south == IF cell.pole = "south" THEN -(half \div 2) ELSE acc.min_lat
    IN  [ min_lon |-> Min(lons \cup {acc.min_lon}), max_lon |-> Max(lons \cup {acc.max_lon}),
          min_lat |-> Min(lats \cup {south}), max_lat |-> Max(lats \cup {north}),
          min_pos_lon |-> Min({l \in lons : l >= 0} \cup {acc.min_pos_lon}),
          max_neg_lon |-> Max({l \in lons : l < 0} \cup {acc.max_neg_lon}),
          crosses |-> acc.crosses \/ (cell.pole = "none" /\ Max(lons) - Min(lons) > half),
          full    |-> acc.full \/ cell.pole # "none",
          count   |-> acc.count + 1 ]

MergeBounds(acc, other) ==
    IF other.count = 0 THEN acc
    ELSE [ min_lon |-> Min({acc.min_lon, other.min_lon}),
           max_lon |-> Max({acc.max_lon, other.max_lon}),
           min_lat |-> Min({acc.min_lat, other.min_lat}),
           max_lat |-> Max({acc.max_lat, other.max_lat}),
           min_pos_lon |-> Min({acc.min_pos_lon, other.min_pos_lon}),
           max_neg_lon |-> Max({acc.max_neg_lon, other.max_neg_lon}),
           crosses |-> acc.crosses \/ other.crosses,
           full    |-> acc.full \/ other.full,
           count   |-> acc.count + other.count ]

\* <<min_lon, min_lat, max_lon, max_lat>>, of at least one cell.
FinishBounds(acc, half) ==
    LET direct  == acc.max_lon - acc.min_lon
        wrapped == (half - acc.min_pos_lon) + (acc.max_neg_lon + half)
        lons == IF acc.full THEN <<-half, half>>
                ELSE IF /\ acc.min_pos_lon <= half /\ acc.max_neg_lon >= -half
                        /\ acc.crosses \/ direct > half
                        /\ wrapped < direct /\ wrapped < half
                     THEN <<acc.min_pos_lon, acc.max_neg_lon>>
                ELSE IF acc.crosses /\ direct > half THEN <<-half, half>>
                ELSE <<acc.min_lon, acc.max_lon>>
    IN  <<lons[1], acc.min_lat, lons[2], acc.max_lat>>

\* The header never carries wrapped bounds; the center keeps the midpoint.
HeaderBounds(bounds, half) ==
    IF bounds[1] <= bounds[3] THEN bounds ELSE [bounds EXCEPT ![1] = -half, ![3] = half]

\* The midpoint is kept doubled, so that halves stay integers.
WrapLon2(l, half) == ((l + 2 * half) % (4 * half)) - 2 * half

Center2(bounds, half) ==
    << IF bounds[1] <= bounds[3] THEN bounds[1] + bounds[3]
       ELSE WrapLon2(2 * bounds[1] + (half - bounds[1]) + (bounds[3] + half), half),
       bounds[2] + bounds[4] >>

\* A point, with bounds and point in units of the same size.
Covers(bounds, p) ==
    /\ IF bounds[1] <= bounds[3] THEN bounds[1] <= p[1] /\ p[1] <= bounds[3]
       ELSE bounds[1] <= p[1] \/ p[1] <= bounds[3]
    /\ bounds[2] <= p[2] /\ p[2] <= bounds[4]

-----------------------------------------------------------------------------
(* TilePyramidAccumulator (pmtiles/features.rs): the tiles being filled,    *)
(* and the queue that decides when one is finished.  Only latitudes decide  *)
(* that, so a tile is <<zoom, row>>, a row of RowHeight[zoom] latitudes     *)
(* counted from the south.  A value acc is [buckets, evictions]: the        *)
(* features of every open tile, and one queue entry per opened tile with    *)
(* its safe_evict_lat doubled, so that the margin of 2.5 radii is integral. *)

NewAccumulator == [buckets |-> <<>>, evictions |-> {}]

\* Wrong: no margin, as if a cell reached no further north than the horizon.
SafetyMargin2None(res) == 0

\* The safety margin for cells of resolution res or finer, doubled.
SafetyMargin2(res) == 5 * MaxRadius[res]

\* for_each_cell_tile_mercator, over rows.
RowsOf(south, north, z) ==
    {<<z, row>> : row \in (south \div RowHeight[z])..(north \div RowHeight[z])}

\* Adds features to tiles, ops a set of <<tile, feature>>; a tile is queued
\* for eviction when it is opened (get_or_create_layer).
AddOps(acc, ops, margin2) ==
    LET new == {op[1] : op \in ops} \ DOMAIN acc.buckets
    IN  [ buckets |->
            [t \in DOMAIN acc.buckets \cup new |->
                (IF t \in new THEN {} ELSE acc.buckets[t])
                   \cup {op[2] : op \in {o \in ops : o[1] = t}}],
          evictions |->
            acc.evictions
              \cup {[tile |-> t, safe2 |-> 2 * t[2] * RowHeight[t[1]] - margin2] :
                      t \in new} ]

\* The queue is popped while its head is north of the horizon; an entry whose
\* tile is already gone is only dropped.
Evictable(acc, horizon) == {e \in acc.evictions : e.safe2 > 2 * horizon}

ReadyTiles(acc, horizon) ==
    {e.tile : e \in Evictable(acc, horizon)} \cap DOMAIN acc.buckets

Evict(acc, horizon) ==
    [ buckets   |-> Restrict(acc.buckets,
                             DOMAIN acc.buckets \ ReadyTiles(acc, horizon)),
      evictions |-> acc.evictions \ Evictable(acc, horizon) ]

\* The tiles handed to the writer in one go, as a function from tiles to their
\* features: the writer sorts them, so their order within it does not matter.
\* Nothing ready is no write.
Layers(tiles, buckets) ==
    IF tiles = {} THEN <<>> ELSE <<Restrict(buckets, tiles)>>

WriteReady(acc, horizon) == Layers(ReadyTiles(acc, horizon), acc.buckets)
FlushAll(acc) == Layers(DOMAIN acc.buckets, acc.buckets)

\* What the writer has been given: the tiles, and how many of them, counted as
\* they are written.
TilesWritten(layers) == UNION {DOMAIN layers[i] : i \in DOMAIN layers}
TileCount(layers) ==
    MapThenSumSet(LAMBDA i : Cardinality(DOMAIN layers[i]), DOMAIN layers)

\* No tile was written twice, or before its last feature came.
NoneTorn(layers, ops) ==
    LET all == AddOps(NewAccumulator, ops, 0).buckets
    IN  \A i \in DOMAIN layers : \A t \in DOMAIN layers[i] :
           /\ t \in DOMAIN all /\ layers[i][t] = all[t]
           /\ \A j \in DOMAIN layers : t \in DOMAIN layers[j] => i = j

\* The written tiles are whole: each tile once, with all its features, and no
\* tile is missing.
Whole(layers, ops) ==
    /\ NoneTorn(layers, ops)
    /\ {op[1] : op \in ops} \subseteq TilesWritten(layers)

=============================================================================
