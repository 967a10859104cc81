---------------------------- MODULE ScanlineWalker ----------------------------
(***************************************************************************)
(* The pixel walker (multi_horizon/walker.rs, continuous.rs, sampling.rs): *)
(* rows pruned by the query box, samples projected and filtered, indexed   *)
(* at every resolution, and gathered in runs of one cell per resolution    *)
(* that are merged into the chunk's maps when the cell changes.            *)
(*                                                                         *)
(* A window is                                                             *)
(*   [rows, col0, row0, lon0, lat0, points, bbox, owner, bands]            *)
(* rows of pixels (sequences of stored band values), the window's offset   *)
(* in a north-up grid whose pixels are Side units wide, the sampling       *)
(* points [dx, dy, weight], the query box (NoBox) and the longitudes that  *)
(* this tile owns (All).  An accumulator is the weight of each value it    *)
(* has seen.  H3 is CellOf(resolution, lon, lat).                          *)
(***************************************************************************)
EXTENDS Integers, Sequences, SequencesExt, FiniteSets, FiniteSetsExt

CONSTANTS Values,              \* calibrated sample values
          NoData, Inf, None,   \* the sentinel; an overflow; no sample
          NoBox, All,
          Resolutions,         \* a sequence
          CellOf(_, _, _),     \* of a longitude on any branch
          MaxLat,
          HalfTurn             \* 180 degrees of longitude

Empty == [v \in Values |-> 0]
Seen(acc) == \E v \in Values : acc[v] > 0
Merge(a, b) == [v \in Values |-> a[v] + b[v]]
Update(acc, v, weight) == [acc EXCEPT ![v] = @ + weight]

-----------------------------------------------------------------------------
\* Samples.

\* SamplingPattern: offsets in 80ths of a pixel, weights in 720ths of it.  The
\* seven-point hexagon is left out: its offsets are irrational.
Side == 80
Unit == 720
Pattern(name) ==
  LET P(x, y, wt) == [dx |-> x, dy |-> y, weight |-> wt]
      Grid(offsets) ==
        LET n == Len(offsets)
        IN  [i \in 1 .. n * n |-> P(offsets[((i - 1) % n) + 1], offsets[((i - 1) \div n) + 1],
                                    Unit \div (n * n))]
      rooks == <<0, 4, 1, 5, 2, 6, 3, 7>>
  IN  CASE name \in {"rgss", "rotated4", "4point_rotated", "rotated", "4"} ->
             <<P(30, 10, 180), P(70, 30, 180), P(10, 50, 180), P(50, 70, 180)>>
        [] name \in {"5point", "5_point", "quincunx", "5"} ->
             <<P(40, 40, 144), P(16, 16, 144), P(64, 16, 144), P(16, 64, 144), P(64, 64, 144)>>
        [] name \in {"gaussian", "weighted5", "psf"} ->
             <<P(40, 40, 360), P(16, 40, 90), P(64, 40, 90), P(40, 16, 90), P(40, 64, 90)>>
        [] name \in {"8rooks", "rooks8", "stratified8", "8"} ->
             [i \in 1 .. 8 |-> P(10 * rooks[i] + 5, 10 * (i - 1) + 5, 90)]
        [] name \in {"9point", "9_point", "3x3", "grid3x3", "9"} -> Grid(<<16, 40, 64>>)
        [] name \in {"16point", "16_point", "4x4", "grid4x4", "16"} -> Grid(<<10, 30, 50, 70>>)
        [] OTHER -> <<P(Side \div 2, Side \div 2, Unit)>>

\* Unit weight at the pixel's centre.
IsSinglePoint(w) ==
  w.points = <<[dx |-> Side \div 2, dy |-> Side \div 2, weight |-> Unit]>>

\* Stored values to physical ones: [scale, offset] per band.
Calibrated(w, band, v) ==
  LET r == w.bands.scale[band] * v + w.bands.offset[band]
  IN  IF r \in Values THEN r ELSE Inf

\* get_sample: nodata and values that overflow are no samples.
GetSample(w, v) ==
  IF v = NoData \/ Calibrated(w, 1, v) = Inf THEN None ELSE Calibrated(w, 1, v)

\* pixel_value of an interleaved pixel: a transparent pixel has no value, a band
\* past the last is the last, a formula needs its bands and a denominator.
PixelValue(w, px) ==
  LET Band(b) == IF b > Len(px) THEN Len(px) ELSE b
      Get(b) == IF px[Band(b)] = NoData THEN None
                ELSE LET c == Calibrated(w, Band(b), px[Band(b)]) IN IF c = Inf THEN None ELSE c
      f == w.bands.formula
      num == IF Len(f) < 2 \/ None \in {Get(f[1]), Get(f[2])} THEN None ELSE Get(f[1]) - Get(f[2])
      den == IF num = None THEN None ELSE Get(f[1]) + Get(f[2])
  IN  CASE w.bands.alpha # 0 /\ px[w.bands.alpha] = 0 -> None
        [] Len(f) = 1 -> Get(f[1])
        [] num = None \/ den = 0 -> None
        [] OTHER -> IF num \div den \in Values THEN num \div den ELSE None

\* Single-band windows use the stored band, others the interleaved reader.
Direct(w) == Len(w.bands.scale) = 1 /\ Len(w.bands.formula) = 1
Read(w, px) == IF Direct(w) THEN GetSample(w, px[1]) ELSE PixelValue(w, px)

-----------------------------------------------------------------------------
\* Positions.

Project(w, c, r, sp) ==
  <<w.lon0 + (w.col0 + c) * Side + sp.dx, w.lat0 - (w.row0 + r) * Side - sp.dy>>

WrapLon(lon) == ((lon + HalfTurn) % (2 * HalfTurn)) - HalfTurn

\* is_point_in_bbox: a longitude past the antimeridian is wrapped first.
InBbox(w, p) ==
  LET lon == WrapLon(p[1]) box == w.bbox IN
  box = NoBox \/ (/\ box[2] <= p[2] /\ p[2] <= box[4]
                  /\ IF box[1] <= box[3]
                     THEN (box[1] <= lon /\ lon <= box[3]) \/ (lon = -HalfTurn /\ box[3] >= HalfTurn)
                     ELSE lon >= box[1] \/ lon <= box[3])

\* The samples of a pixel that the walk keeps.
Positions(w, c, r) ==
  SelectSeq([k \in DOMAIN w.points |-> [at |-> Project(w, c, r, w.points[k]), weight |-> w.points[k].weight]],
            LAMBDA s : /\ -MaxLat <= s.at[2] /\ s.at[2] <= MaxLat
                       /\ InBbox(w, s.at)
                       /\ w.owner = All \/ WrapLon(s.at[1]) \in w.owner)

\* The columns <<first, end>> (end excluded) between the edges of the box,
\* padded by one on each side.
LinearColumns(w, n) ==
  LET dxs == {w.points[k].dx : k \in DOMAIN w.points}
      first == ((w.bbox[1] - w.lon0 - Max(dxs)) \div Side) - w.col0 - 1
      last == ((w.bbox[3] - w.lon0 - Min(dxs)) \div Side) - w.col0 + 2
      Clamp(v) == IF v < 0 THEN 0 ELSE IF v > n THEN n ELSE v
  IN  <<Clamp(first), Clamp(last)>>

OutsideLats(w, r) ==
  LET lats == {Project(w, 0, r, w.points[k])[2] : k \in DOMAIN w.points}
  IN  Max(lats) < w.bbox[2] \/ Min(lats) > w.bbox[4]

\* Wrong: a row that leaves the range of longitudes is pruned like any other.
ColumnsUnwrapped(w, r) ==
  LET n == Len(w.rows[r + 1])
  IN  IF w.bbox = NoBox THEN <<0, n>>
      ELSE IF OutsideLats(w, r) THEN <<0, 0>>
      ELSE IF w.bbox[1] > w.bbox[3] THEN <<0, n>>
      ELSE LinearColumns(w, n)

\* RowPruner::columns: the columns that may hold a sample in the box; <<0, 0>>
\* when the row holds none.  Neither a box nor a row that crosses the
\* antimeridian is pruned by longitude.
Columns(w, r) ==
  LET n == Len(w.rows[r + 1])
      west == w.lon0 + w.col0 * Side
      east == w.lon0 + (w.col0 + n) * Side
  IN  IF w.bbox = NoBox THEN <<0, n>>
      ELSE IF OutsideLats(w, r) THEN <<0, 0>>
      ELSE IF w.bbox[1] > w.bbox[3] \/ west < -HalfTurn \/ east > HalfTurn THEN <<0, n>>
      ELSE LinearColumns(w, n)

\* combine_by_cell: one entry per cell, where its first sample was.
CombineByCell(assignments) ==
  FoldLeft(LAMBDA acc, a :
             IF \E i \in DOMAIN acc : acc[i].cell = a.cell
             THEN [i \in DOMAIN acc |->
                     IF acc[i].cell = a.cell THEN [acc[i] EXCEPT !.weight = @ + a.weight] ELSE acc[i]]
             ELSE Append(acc, a),
           <<>>, assignments)

-----------------------------------------------------------------------------
\* Runs: the walk's state is [cells, accs, span, maps]; span is 0 when no span
\* is open, else the 1-based column it starts at.  A map is a function from the
\* cells it holds.

StartWalk == [cells |-> [i \in DOMAIN Resolutions |-> None],
              accs |-> [i \in DOMAIN Resolutions |-> Empty], span |-> 0,
              maps |-> [i \in DOMAIN Resolutions |-> <<>>]]

\* flush_run: merged into the cell's entry, or moved there; the run is empty
\* afterwards either way.  A run without samples is left as it is.
FlushRun(s, i) ==
  LET cell == s.cells[i] map == s.maps[i] IN
  IF cell = None \/ ~Seen(s.accs[i]) THEN s
  ELSE [s EXCEPT !.accs[i] = Empty,
                 !.maps[i] = [c \in DOMAIN map \cup {cell} |->
                                IF c # cell THEN map[c]
                                ELSE IF c \in DOMAIN map THEN Merge(map[c], s.accs[i]) ELSE s.accs[i]]]

Restart(s, i, cell) == [FlushRun(s, i) EXCEPT !.cells[i] = cell]

\* The kernel adds every stored value that is not nodata and calibrates the
\* total; a total that is not finite is counted again sample by sample.
SpanAccumulator(w, values) ==
  LET stored == SelectSeq(values, LAMBDA v : v # NoData)
      samples == SelectSeq([i \in DOMAIN values |-> GetSample(w, values[i])], LAMBDA v : v # None)
      Of(vs) == FoldLeft(LAMBDA a, v : Update(a, v, Unit), Empty, vs)
  IN  IF \E i \in DOMAIN stored : Calibrated(w, 1, stored[i]) = Inf THEN Of(samples)
      ELSE Of([i \in DOMAIN stored |-> Calibrated(w, 1, stored[i])])

\* add_span over columns from .. to of a row: every resolution's run gets it.
AddSpan(w, s, row, from, to) ==
  LET span == SpanAccumulator(w, [i \in 1 .. to - from + 1 |-> row[from + i - 1][1]])
  IN  [s EXCEPT !.accs = [i \in DOMAIN @ |-> Merge(@[i], span)]]

CloseSpan(w, s, row, to) ==
  IF s.span = 0 THEN s ELSE [AddSpan(w, s, row, s.span, to) EXCEPT !.span = 0]

\* advance_cells: when any resolution's cell changes the span before column c
\* is flushed into every run, then the changed runs restart.
AdvanceCells(w, s, row, c, at) ==
  LET next == [i \in DOMAIN Resolutions |-> CellOf(Resolutions[i], at[1], at[2])]
      closed == IF next = s.cells THEN s ELSE CloseSpan(w, s, row, c)
      moved == FoldLeft(LAMBDA t, i : IF t.cells[i] = next[i] THEN t ELSE Restart(t, i, next[i]),
                        closed, [i \in DOMAIN Resolutions |-> i])
  IN  IF moved.span = 0 THEN [moved EXCEPT !.span = c + 1] ELSE moved

UpdateRun(s, i, cell, sample, weight) ==
  LET t == IF s.cells[i] = cell THEN s ELSE Restart(s, i, cell)
  IN  [t EXCEPT !.accs[i] = Update(@, sample, weight)]

\* One valid pixel's samples at every resolution.
UpdateAll(s, positions, sample) ==
  LET Assign(i) == CombineByCell([k \in DOMAIN positions |->
                     [cell |-> CellOf(Resolutions[i], positions[k].at[1], positions[k].at[2]),
                      weight |-> positions[k].weight]])
      One(t, i) == FoldLeft(LAMBDA u, a : UpdateRun(u, i, a.cell, sample, a.weight), t, Assign(i))
  IN  FoldLeft(One, s, [i \in DOMAIN Resolutions |-> i])

\* The loop body.  The transform-only branch of batch mode is the same with no
\* box and no owner: a pixel without a position closes the span.
WalkPixel(w, s, row, c, r) ==
  LET sample == Read(w, row[c + 1])
      positions == Positions(w, c, r)
  IN  IF sample = None THEN s
      ELSE IF positions = <<>> THEN CloseSpan(w, s, row, c)
      ELSE IF Direct(w) /\ IsSinglePoint(w) THEN AdvanceCells(w, s, row, c, positions[1].at)
      ELSE UpdateAll(s, positions, sample)

RowAllNodata(w, row) == Direct(w) /\ \A i \in DOMAIN row : row[i][1] = NoData

WalkRow(w, s, r) ==
  LET row == w.rows[r + 1]
      cols == Columns(w, r)
      last == FoldLeft(LAMBDA t, c : WalkPixel(w, t, row, c, r), s,
                       [i \in 1 .. cols[2] - cols[1] |-> cols[1] + i - 1])
  IN  IF RowAllNodata(w, row) \/ cols[1] >= cols[2] THEN s ELSE CloseSpan(w, last, row, cols[2])

Walk(w) ==
  LET done == FoldLeft(LAMBDA s, r : WalkRow(w, s, r - 1), StartWalk, [r \in 1 .. Len(w.rows) |-> r])
  IN  FoldLeft(FlushRun, done, [i \in DOMAIN Resolutions |-> i]).maps

-----------------------------------------------------------------------------
\* However pixels fall into runs and spans, whatever was pruned, each cell of
\* each resolution ends up with exactly the samples that lie in it: one per
\* valid pixel and sampling point that is in the box and owned.
WalkExact(w) ==
  LET pixels == UNION {{<<r, c>> : c \in 0 .. Len(w.rows[r + 1]) - 1} : r \in 0 .. Len(w.rows) - 1}
      valid == {p \in pixels : Read(w, w.rows[p[1] + 1][p[2] + 1]) # None}
      kept == {<<p, k>> \in valid \X DOMAIN w.points :
                 LET at == Project(w, p[2], p[1], w.points[k]) IN
                 /\ -MaxLat <= at[2] /\ at[2] <= MaxLat
                 /\ InBbox(w, at) /\ (w.owner = All \/ WrapLon(at[1]) \in w.owner)}
      Cell(i, x) == LET at == Project(w, x[1][2], x[1][1], w.points[x[2]])
                    IN  CellOf(Resolutions[i], at[1], at[2])
      Value(x) == Read(w, w.rows[x[1][1] + 1][x[1][2] + 1])
      Expected(i) == [cell \in {Cell(i, x) : x \in kept} |->
                        [v \in Values |-> MapThenSumSet(LAMBDA x : w.points[x[2]].weight,
                           {x \in kept : Cell(i, x) = cell /\ Value(x) = v})]]
  IN  Walk(w) = [i \in DOMAIN Resolutions |-> Expected(i)]
=============================================================================
