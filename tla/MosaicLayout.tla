---------------------------- MODULE MosaicLayout ----------------------------
(***************************************************************************)
(* Opening several GeoTIFFs as one mosaic (raster/mosaic.rs): which tiles  *)
(* and chunks a query box keeps, in which order they are read, and which   *)
(* tile owns a point that several tiles cover.                             *)
(*                                                                         *)
(* A file is [gt, w, h, cw, ch, crs]: its grid, its size in pixels and the *)
(* size of its chunks.  A mosaic is [tiles, refs, rule, bbox], Failed when *)
(* opening fails.  NoBox stands for the absent query box.  Names and       *)
(* patterns are sequences of letters.                                      *)
(***************************************************************************)
EXTENDS Integers, Sequences, FiniteSets, FiniteSetsExt, SequencesExt

-----------------------------------------------------------------------------
(***************************************************************************)
(* Geographic bounds of pixel rectangles: what may be rejected without     *)
(* reading a pixel, and how far north a chunk can still contribute         *)
(* (crs/transformer.rs, multi_horizon/coordinates.rs, horizon_streamer.rs, *)
(* raster/geotransform.rs).                                                *)
(*                                                                         *)
(* Coordinates are integers.  A latitude enters only by its order, so a    *)
(* conic or polar latitude is the squared distance from the apex, negated  *)
(* about the North Pole.                                                   *)
(* A longitude enters by its order around the circle and by half turns: an *)
(* angle is measured on the unit diamond, which keeps both (HalfTurn is    *)
(* 180 degrees; a point and its opposite are HalfTurn apart).              *)
(***************************************************************************)

CONSTANTS HalfTurn,   \* 180 degrees of longitude; even, and fine enough to keep
                      \* the directions of the instance apart
          Pole        \* the largest latitude

\* <<smallest, largest>>
Extent(S) == <<Min(S), Max(S)>>

WrapLon(lon) == ((lon + HalfTurn) % (2 * HalfTurn)) - HalfTurn

Globe == <<-HalfTurn, -Pole, HalfTurn, Pole>>

IsPointInBbox(lon, lat, bbox) ==
  LET l == WrapLon(lon) IN
  /\ bbox[2] <= lat /\ lat <= bbox[4]
  /\ IF bbox[1] <= bbox[3]
     THEN (bbox[1] <= l /\ l <= bbox[3]) \/ (l = -HalfTurn /\ bbox[3] >= HalfTurn)
     ELSE l >= bbox[1] \/ l <= bbox[3]

\* Wrong: a box across the antimeridian is compared like any other.
RectIntersectsBboxFlat(rect, bbox) ==
  /\ rect[2] <= bbox[4] /\ rect[4] >= bbox[2]
  /\ rect[1] <= bbox[3] /\ rect[3] >= bbox[1]

\* The rectangle never crosses the antimeridian; the box may.
RectIntersectsBbox(rect, bbox) ==
  /\ rect[2] <= bbox[4] /\ rect[4] >= bbox[2]
  /\ IF bbox[1] <= bbox[3] THEN rect[1] <= bbox[3] /\ rect[3] >= bbox[1]
     ELSE rect[3] >= bbox[1] \/ rect[1] <= bbox[3]

-----------------------------------------------------------------------------
\* Affine grids.

PixelToCoord(gt, col, row) ==
  <<gt.c0 + col * gt.a + row * gt.b, gt.f0 + col * gt.d + row * gt.e>>

Determinant(gt) == gt.a * gt.e - gt.b * gt.d

\* Tiepoint (i, j) -> (x, y) with scales; None (FALSE) when a scale is zero.
FromTiepointAndScale(tie, scale) ==
  IF scale[1] = 0 \/ scale[2] = 0 THEN FALSE
  ELSE [c0 |-> tie[3] - tie[1] * scale[1], a |-> scale[1], b |-> 0,
        f0 |-> tie[4] + tie[2] * scale[2], d |-> 0, e |-> -scale[2]]

FromModelTransformation(m) ==
  [c0 |-> m[4], a |-> m[1], b |-> m[2], f0 |-> m[8], d |-> m[5], e |-> m[6]]

\* The pixel of (x, y) as a fraction over the determinant, which a readable
\* file's grid never has 0.
CoordToPixel(gt, x, y) ==
  LET dx == x - gt.c0 dy == y - gt.f0 IN
  [col |-> dx * gt.e - dy * gt.b, row |-> dy * gt.a - dx * gt.d, over |-> Determinant(gt)]

InGrid(gt, w, h, x, y) ==
  LET p == CoordToPixel(gt, x, y)
      s == IF p.over > 0 THEN 1 ELSE -1
  IN  /\ p.over # 0
      /\ 0 <= s * p.col /\ s * p.col <= w * s * p.over
      /\ 0 <= s * p.row /\ s * p.row <= h * s * p.over

\* A pixel rectangle is <<col, row, width, height>>.
Corners(gt, r) ==
  {PixelToCoord(gt, r[1] + i * r[3], r[2] + j * r[4]) : i \in {0, 1}, j \in {0, 1}}

-----------------------------------------------------------------------------
\* Where a source point lies: <<longitude, latitude>>, the longitude unwrapped.

Abs(x) == IF x < 0 THEN -x ELSE x

\* The angle of direction (p, q) from the positive p axis, on the diamond.
Turn(p, q) ==
  LET m == Abs(p) + Abs(q)
      part == IF m = 0 THEN 0 ELSE ((HalfTurn \div 2) * q) \div m
  IN  CASE m = 0 -> 0
        [] p >= 0 -> part
        [] q >= 0 -> HalfTurn - part
        [] OTHER -> -HalfTurn - part

\* A transformer is [kind, apex, lon0, spread].  Longitudes are lon0 and the
\* angle at the apex, for the conic times spread (1/n, and |n| <= 1).  A
\* negative spread is a cone or a plane about the South Pole: the angle is
\* counted from the other side and the latitude grows with the distance.
AngleAt(crs, dx, dy) ==
  CASE crs.spread > 0 -> Turn(-dy, dx)
    [] crs.kind = "conic" -> Turn(dy, -dx)
    [] OTHER -> Turn(dy, dx)
LonAt(crs, dx, dy) ==
  crs.lon0 + (IF crs.kind = "conic" THEN crs.spread ELSE 1) * AngleAt(crs, dx, dy)

\* The latitude at the squared distance num / den, rounded to the side that
\* every box with integer edges sees exactly.
LatAt(crs, num, den) == IF crs.spread > 0 THEN (-num) \div den ELSE -((-num) \div den)

Transform(crs, x, y) ==
  LET dx == x - crs.apex[1] dy == y - crs.apex[2] IN
  IF crs.kind \in {"conic", "polar"}
  THEN <<LonAt(crs, dx, dy), LatAt(crs, dx * dx + dy * dy, 1)>>
  ELSE <<x, y>>        \* WGS84, Web Mercator; the identity stands for proj4rs

BoundsCertified(crs) == crs.kind # "proj4"

RejectionBounds(crs, bounds) == IF BoundsCertified(crs) THEN bounds ELSE Globe

Clamp(v, lo, hi) == IF v < lo THEN lo ELSE IF v > hi THEN hi ELSE v

\* transform_rect_bounds, axis-aligned.  The probes on the edges of a rotated
\* cylindric grid lie between its corners and change nothing.
CylindricLons(e) ==
  LET west == WrapLon(e[1])
      east == IF e[2] = HalfTurn THEN e[2] ELSE WrapLon(e[2])
  IN  IF e[1] < -HalfTurn \/ e[2] > HalfTurn \/ east < west \/ e[2] - e[1] > HalfTurn
      THEN <<-HalfTurn, HalfTurn>> ELSE <<west, east>>

\* The extents of a rectangle's corners in x and in y, and where the apex lies
\* in them.
Xs(corners) == Extent({p[1] : p \in corners})
Ys(corners) == Extent({p[2] : p \in corners})
Within(v, e) == e[1] <= v /\ v <= e[2]
ApexInside(crs, corners) == Within(crs.apex[1], Xs(corners)) /\ Within(crs.apex[2], Ys(corners))

\* The points of a rectangle's edges nearest to the apex, where they are not
\* corners: the foot of the perpendicular lies at cross^2 / length^2, in the
\* direction of the edge's normal.
Feet(crs, gt, r) ==
  LET At(k) == PixelToCoord(gt, r[1] + (IF k \in {1, 2} THEN r[3] ELSE 0),
                                r[2] + (IF k \in {2, 3} THEN r[4] ELSE 0))
      Foot(p, q) ==
        LET dx == q[1] - p[1] dy == q[2] - p[2]
            length2 == dx * dx + dy * dy
            along == -(dx * (p[1] - crs.apex[1]) + dy * (p[2] - crs.apex[2]))
            cross == dx * (p[2] - crs.apex[2]) - dy * (p[1] - crs.apex[1])
            side == IF cross < 0 THEN -1 ELSE 1
        IN  IF 0 < along /\ along < length2
            THEN {<<LonAt(crs, -side * dy, side * dx), LatAt(crs, cross * cross, length2)>>}
            ELSE {}
  IN  UNION {Foot(At(k), At((k + 1) % 4)) : k \in 0 .. 3}

\* The box of the wrapped longitudes and the latitudes, all the way round when
\* it is full.
BoundingBox(lons, lats, full) ==
  IF full THEN <<-HalfTurn, lats[1], HalfTurn, lats[2]>>
  ELSE <<lons[1], lats[1], lons[2], lats[2]>>

\* The pole of the cone: the northern one for n >= 0.
ToThePole(crs, lats) == IF crs.spread > 0 THEN <<lats[1], Pole>> ELSE <<-Pole, lats[2]>>

ConicBox(crs, lons, wrapped, lats, apex) ==
  BoundingBox(wrapped, IF apex THEN ToThePole(crs, lats) ELSE lats,
              \/ apex
              \/ lons[1] < -HalfTurn \/ lons[2] > HalfTurn
              \/ wrapped[2] - wrapped[1] > HalfTurn)

ConicBounds(crs, gt, r) ==
  LET corners == {Transform(crs, p[1], p[2]) : p \in Corners(gt, r)}
      probes == corners \cup Feet(crs, gt, r)
  IN  ConicBox(crs, Extent({t[1] : t \in corners}), Extent({WrapLon(t[1]) : t \in probes}),
               Extent({t[2] : t \in probes}), ApexInside(crs, Corners(gt, r)))

PolarBox(wrapped, lats, apex) ==
  BoundingBox(wrapped, lats,
              \/ apex
              \/ wrapped[2] - wrapped[1] >= HalfTurn
              \/ wrapped[1] <= -HalfTurn \/ wrapped[2] >= HalfTurn)

PolarBounds(crs, xs, ys) ==
  LET closest == <<Clamp(crs.apex[1], xs[1], xs[2]), Clamp(crs.apex[2], ys[1], ys[2])>>
      probes == {Transform(crs, p[1], p[2]) :
                   p \in {closest} \cup {<<xs[i], ys[j]>> : i \in 1 .. 2, j \in 1 .. 2}}
      Box(at) == PolarBox(Extent({WrapLon(t[1]) : t \in at}), Extent({t[2] : t \in at}),
                          closest = crs.apex)
  IN  Box(probes)

CylindricBounds(lons, lats) == <<lons[1], lats[1], lons[2], lats[2]>>

TransformRectBounds(crs, gt, r) ==
  LET Of(corners) ==
        CASE crs.kind = "conic" -> ConicBounds(crs, gt, r)
          [] crs.kind = "polar" -> PolarBounds(crs, Xs(corners), Ys(corners))
          [] OTHER -> CylindricBounds(CylindricLons(Xs(corners)), Ys(corners))
  IN  Of(Corners(gt, r))

\* A chunk's pruning test.
BoundsIntersectBbox(crs, bounds, bbox) == RectIntersectsBbox(RejectionBounds(crs, bounds), bbox)

-----------------------------------------------------------------------------
\* The northern bound that drives irreversible eviction; Pole stands for
\* infinity.
EvictionNorthBound(crs, gt, r) ==
  LET lats == {Transform(crs, p[1], p[2])[2] : p \in Corners(gt, r)}
  IN  CASE crs.kind = "cylindric" -> Max(lats)
        [] crs.kind = "conic" /\ ~ApexInside(crs, Corners(gt, r)) ->
             Max(lats \cup {t[2] : t \in Feet(crs, gt, r)})
        [] OTHER -> Pole

\* tm_rect_bounds lifts the sampled longitudes of a grid onto one branch:
\* down the first column, then along each row, and gives up when two
\* neighbours end up further apart than the certificate allows.
Unwrap(d) == WrapLon(d)
Lift(lons, rows, cols) ==
  LET down[j \in 0 .. rows] ==
        IF j = 0 THEN WrapLon(lons[0, 0]) ELSE down[j - 1] + Unwrap(lons[j, 0] - lons[j - 1, 0])
      along[j \in 0 .. rows, i \in 0 .. cols] ==
        IF i = 0 THEN down[j] ELSE along[j, i - 1] + Unwrap(lons[j, i] - lons[j, i - 1])
  IN  along

TmLonBounds(lons, rows, cols, edge, reach) ==
  LET lifted == Lift(lons, rows, cols)
      all == {lifted[j, i] : j \in 0 .. rows, i \in 0 .. cols}
      torn == \/ \E j \in 0 .. rows, i \in 0 .. cols - 1 : Abs(lifted[j, i] - lifted[j, i + 1]) > edge
              \/ \E j \in 0 .. rows - 1, i \in 0 .. cols : Abs(lifted[j, i] - lifted[j + 1, i]) > edge
      west == Min(all) - reach
      east == Max(all) + reach
  IN  IF torn \/ 2 * edge >= HalfTurn \/ west < -HalfTurn \/ east > HalfTurn \/ east - west > HalfTurn
      THEN <<-HalfTurn, HalfTurn>> ELSE <<west, east>>

-----------------------------------------------------------------------------
\* Samples lie strictly inside pixels: with even coefficients a pixel's centre
\* is an integer point.
Centres(gt, r) ==
  {LET p == PixelToCoord(gt, c, k)
   IN  <<p[1] + (gt.a + gt.b) \div 2, p[2] + (gt.d + gt.e) \div 2>> :
     c \in r[1] .. r[1] + r[3] - 1, k \in r[2] .. r[2] + r[4] - 1}

\* No sample of a rectangle is lost to pruning: every sample that the exact
\* per-sample test puts inside a query box belongs to a rectangle that the
\* conservative test kept (rect_intersects_bbox says that the two must agree).
PruningSound(crs, gt, r, boxes) ==
  LET bounds == TransformRectBounds(crs, gt, r) IN
  \A s \in Centres(gt, r), bbox \in boxes :
    LET t == Transform(crs, s[1], s[2]) IN
    IsPointInBbox(t[1], t[2], bbox) => BoundsIntersectBbox(crs, bounds, bbox)

\* No sample lies north of the bound below which cells are evicted.
EvictionSound(crs, gt, r) ==
  \A s \in Centres(gt, r) : Transform(crs, s[1], s[2])[2] <= EvictionNorthBound(crs, gt, r)

\* For a grid whose neighbours are at most edge apart the lifted bounds hold
\* every sample and its reach.
LiftSound(truth, rows, cols, edge, reach) ==
  LET near == /\ \A j \in 0 .. rows, i \in 0 .. cols - 1 : Abs(truth[j, i] - truth[j, i + 1]) <= edge
              /\ \A j \in 0 .. rows - 1, i \in 0 .. cols : Abs(truth[j, i] - truth[j + 1, i]) <= edge
      lons == [p \in DOMAIN truth |-> WrapLon(truth[p])]
      bounds == TmLonBounds(lons, rows, cols, edge, reach)
  IN  near => \A p \in DOMAIN truth : \A d \in -reach .. reach :
                IsPointInBbox(truth[p] + d, 0, <<bounds[1], 0, bounds[2], 0>>)

-----------------------------------------------------------------------------
(* The mosaic.                                                             *)

CONSTANTS NoBox, Failed

-----------------------------------------------------------------------------
\* Resolving the input to a list of files.

OverlapRule(word) ==
  CASE word \in {"first", "priority", "painter"} -> "First"
    [] word \in {"average", "mean", "all", "multi_temporal"} -> "Average"
    [] OTHER -> "Cutline"

\* glob_match's loop: pi, si are 0-based; star is the last '*' seen (-1: none)
\* and mi the place it last resumed from.
GlobMatch(p, s) ==
  LET PLen == Len(p)
      Tail0(pi) == \A i \in pi + 1 .. PLen : p[i] = "*"
      loop[pi \in 0 .. PLen, si \in 0 .. Len(s), star \in -1 .. PLen, mi \in 0 .. Len(s)] ==
        IF si = Len(s) THEN Tail0(pi)
        ELSE IF pi < PLen /\ p[pi + 1] \in {"?", s[si + 1]} THEN loop[pi + 1, si + 1, star, mi]
        ELSE IF pi < PLen /\ p[pi + 1] = "*" THEN loop[pi + 1, si, pi, si]
        ELSE IF star >= 0 THEN loop[star + 1, mi + 1, star, mi + 1]
        ELSE FALSE
  IN  loop[0, 0, -1, 0]

\* What a pattern means: '*' any run of letters, '?' any one letter.
Globs(p, s) ==
  LET m[i \in 0 .. Len(p), j \in 0 .. Len(s)] ==
        IF i = 0 THEN j = 0
        ELSE IF p[i] = "*" THEN m[i - 1, j] \/ (j > 0 /\ m[i, j - 1])
        ELSE j > 0 /\ p[i] \in {"?", s[j]} /\ m[i - 1, j - 1]
  IN  m[Len(p), Len(s)]

\* An input is [kind, parts]; a part is [remote, exists, name].  A VRT keeps
\* sources that do not exist, a list refuses them, a pattern sorts its matches.
\* (VRT paths are tried beside the VRT first, then as given.)
ResolveSources(input, files) ==
  CASE input.kind = "vrt" -> IF input.parts = <<>> THEN Failed ELSE input.parts
    [] input.kind = "list" ->
         IF \E i \in DOMAIN input.parts : ~input.parts[i].remote /\ ~input.parts[i].exists
         THEN Failed ELSE input.parts
    [] input.kind = "glob" ->
         LET found == {f \in files : GlobMatch(input.parts[1].name, f.name)}
         IN  IF found = {} THEN Failed
             ELSE SetToSortSeq(found, LAMBDA f, g : f.order < g.order)
    [] OTHER -> IF input.parts[1].remote \/ input.parts[1].exists THEN input.parts ELSE Failed

-----------------------------------------------------------------------------
\* Tiles.

Whole(f) == <<0, 0, f.w, f.h>>

\* TileDescriptor::new.  The centre is doubled to stay an integer.
Descriptor(f) ==
  LET two == [f.gt EXCEPT !.c0 = 2 * @, !.f0 = 2 * @]
  IN  [file |-> f, bounds |-> TransformRectBounds(f.crs, f.gt, Whole(f)),
       centre2 |-> PixelToCoord(two, f.w, f.h)]

\* The inverse returns the longitude in [-180, 180); source_longitude_period
\* gives cylindrical tiles their neighbouring branches.
TileContains(t, lon, lat) ==
  /\ IsPointInBbox(lon, lat, RejectionBounds(t.file.crs, t.bounds))
  /\ \E k \in -1 .. 1 :
       InGrid(t.file.gt, t.file.w, t.file.h, WrapLon(lon) + 2 * k * HalfTurn, lat)

\* chord_sq orders centres by distance on the globe, whatever branch a
\* longitude is written on; any such distance will do.
DistanceSq(t, lon, lat) ==
  LET d == Abs(((2 * lon - t.centre2[1] + 2 * HalfTurn) % (4 * HalfTurn)) - 2 * HalfTurn)
      e == 2 * lat - t.centre2[2]
  IN  (d * d) + (e * e)

\* ChunkLayout::get_chunk_bounds over a grid of chunks, edge chunks clipped.
ChunksAcross(f) == (f.w + f.cw - 1) \div f.cw
ChunksDown(f) == (f.h + f.ch - 1) \div f.ch
ChunkRect(f, i) ==
  LET c == (i % ChunksAcross(f)) * f.cw
      r == (i \div ChunksAcross(f)) * f.ch
  IN  <<c, r, Min({f.cw, f.w - c}), Min({f.ch, f.h - r})>>

InBox(crs, bounds, bbox) == bbox = NoBox \/ BoundsIntersectBbox(crs, bounds, bbox)

\* A chunk overlaps when its bounds meet another tile's; the Average rule and a
\* single tile never ask.
HasOverlap(tiles, i, bounds, rule) ==
  /\ Len(tiles) > 1 /\ rule # "Average"
  /\ \E j \in DOMAIN tiles \ {i} :
       RectIntersectsBbox(RejectionBounds(tiles[i].file.crs, bounds),
                          RejectionBounds(tiles[j].file.crs, tiles[j].bounds))

\* North to south, then by tile, then by chunk.
Earlier(a, b) ==
  \/ a.north > b.north
  \/ a.north = b.north /\ a.tile < b.tile
  \/ a.north = b.north /\ a.tile = b.tile /\ a.chunk < b.chunk

\* A tile's chunks with their bounds.
Chunks(f) ==
  {[chunk |-> c, bounds |-> TransformRectBounds(f.crs, f.gt, ChunkRect(f, c))] :
     c \in 0 .. ChunksAcross(f) * ChunksDown(f) - 1}

ChunkRefs(tiles, bbox, rule) ==
  SetToSortSeq(
    UNION {{[tile |-> i, chunk |-> k.chunk, north |-> k.bounds[4], south |-> k.bounds[2],
             has_overlap |-> HasOverlap(tiles, i, k.bounds, rule)] :
              k \in {k \in Chunks(tiles[i].file) : InBox(tiles[i].file.crs, k.bounds, bbox)}}
           : i \in DOMAIN tiles},
    Earlier)

\* MosaicReader::open; from_single_reader is the case of one file, which fails
\* no more than its tile does and keeps it outside the box.
OpenMosaic(files, bbox, rule) ==
  LET Open(tiles) ==
        IF tiles = <<>> THEN Failed
        ELSE [tiles |-> tiles, rule |-> rule, bbox |-> bbox, refs |-> ChunkRefs(tiles, bbox, rule)]
  IN  Open(SelectSeq([i \in DOMAIN files |-> Descriptor(files[i])],
                     LAMBDA t : InBox(t.file.crs, t.bounds, bbox)))

IsPointOwnedBy(m, i, lon, lat) ==
  CASE Len(m.tiles) <= 1 \/ m.rule = "Average" -> TRUE
    [] m.rule = "First" -> \A j \in 1 .. i - 1 : ~TileContains(m.tiles[j], lon, lat)
    [] OTHER ->
         LET own == DistanceSq(m.tiles[i], lon, lat) IN
         \A j \in DOMAIN m.tiles \ {i} :
           LET d == DistanceSq(m.tiles[j], lon, lat) IN
           ~((d < own \/ (d = own /\ j < i)) /\ TileContains(m.tiles[j], lon, lat))

\* The scan aggregates a sample when a kept chunk holds it, the sample passes
\* the box, and its tile owns it; a chunk without overlap is not asked.
Scans(m, i, col, row) ==
  LET f == m.tiles[i].file
      p == PixelToCoord(f.gt, col, row)
      s == <<p[1] + (f.gt.a + f.gt.b) \div 2, p[2] + (f.gt.d + f.gt.e) \div 2>>
  IN  \E k \in DOMAIN m.refs :
        LET rect == ChunkRect(f, m.refs[k].chunk) IN
        /\ m.refs[k].tile = i
        /\ rect[1] <= col /\ col < rect[1] + rect[3]
        /\ rect[2] <= row /\ row < rect[2] + rect[4]
        /\ m.bbox = NoBox \/ IsPointInBbox(s[1], s[2], m.bbox)
        /\ m.refs[k].has_overlap => IsPointOwnedBy(m, i, s[1], s[2])

-----------------------------------------------------------------------------
\* A scan of a box aggregates exactly the samples of the files that lie in the
\* box and whose file has precedence there among ALL the files: the first
\* file, or the one whose centre is nearest, that covers the sample.
\* Neither the tiles and chunks that the box leaves out nor the chunks whose
\* ownership test is skipped change who owns a sample.
ScanExact(files, bbox, rule) ==
  LET Covers(f, s) ==
        \E k \in -1 .. 1 : InGrid(f.gt, f.w, f.h, WrapLon(s[1]) + 2 * k * HalfTurn, s[2])
      Beats(all, j, i, s) ==
        /\ Covers(files[j], s)
        /\ IF rule = "First" THEN j < i
           ELSE LET d == DistanceSq(all[j], s[1], s[2]) own == DistanceSq(all[i], s[1], s[2])
                IN  d < own \/ (d = own /\ j < i)
      Expected(all, i, s) ==
        /\ bbox = NoBox \/ IsPointInBbox(s[1], s[2], bbox)
        /\ rule = "Average" \/ \A j \in DOMAIN files \ {i} : ~Beats(all, j, i, s)
      Centre(f, c, r) ==
        LET p == PixelToCoord(f.gt, c, r)
        IN  <<p[1] + (f.gt.a + f.gt.b) \div 2, p[2] + (f.gt.d + f.gt.e) \div 2>>
      Agrees(m, all) ==
        \A i \in DOMAIN files : \A c \in 0 .. files[i].w - 1, r \in 0 .. files[i].h - 1 :
          Expected(all, i, Centre(files[i], c, r))
            <=> m # Failed /\ \E k \in DOMAIN m.tiles : m.tiles[k] = all[i] /\ Scans(m, k, c, r)
  IN  Agrees(OpenMosaic(files, bbox, rule), [i \in DOMAIN files |-> Descriptor(files[i])])

=============================================================================
