------------------------------- MODULE MCRules --------------------------------
(* The rules of a scan for TLC: where rasters lie and which of them a sample      *)
(* belongs to, what a file's metadata and a CRS definition mean, which byte       *)
(* ranges a remote scan asks for, how a chunk is decoded and walked, what a cell  *)
(* accumulates, and how tiles are cut.  The modules share no state: `part' says   *)
(* which one a behaviour is about.  A part that is a function has one state per   *)
(* input, held in x1; the ranges (in their own variables), the accumulators and   *)
(* the tokens of a definition are built up step by step.                          *)
EXTENDS CoalesceRanges, FiniteSets, SequencesExt, TLC

CONSTANTS None, Inf, Failed, NoBox, All, NoData, MaxOffset, MaxLength

VARIABLES part, x1, x2, x3, x4

Off == "off"
Only1 == x2 = Off /\ x3 = Off /\ x4 = Off
Only2 == x3 = Off /\ x4 = Off

-----------------------------------------------------------------------------
(* Rasters on the globe.  A longitude unit divides by every cell the transforms   *)
(* of the instance can cut a half turn into.                                      *)

Bounds == INSTANCE MosaicLayout WITH HalfTurn <- 55440, Pole <- 1000

Gt(c0, f0, s) == [c0 |-> c0, f0 |-> f0, a |-> s[1], b |-> s[2], d |-> s[3], e |-> s[4]]
Crs(k, lon0, s) == [kind |-> k, apex |-> <<0, 0>>, lon0 |-> lon0, spread |-> s]

\* North up, south up, mirrored; and two that are rotated.
Upright == {<<2, 0, 0, -2>>, <<2, 0, 0, 2>>, <<-2, 0, 0, -2>>}
Turned == {<<2, 2, 2, -2>>, <<2, -4, 2, 2>>}

Unit == 55440 \div 4
OnLongitudes(s) == <<Unit * s[1], Unit * s[2], s[3], s[4]>>
\* About either pole, with a central meridian of its own; a cone unrolled over all or
\* half of the plane.
Cones ==
    {Crs("conic", l, s) : l \in {0, -2 * Unit}, s \in {-2, -1, 1, 2}}
      \cup {Crs("polar", l, s) : l \in {0, -Unit}, s \in {-1, 1}}

CylinderBoxes ==
    {<<w * Unit, -3, e * Unit, 3>> : w, e \in -4 .. 4}
      \cup {<<-55440, y, 55440, y>> : y \in {-2, 1}}
ConeBoxes ==
    {<<w * Unit + (w % 2), -1000, e * Unit - (w % 2), 1000>> : w, e \in -4 .. 4}
      \cup {<<-55440, y, 55440, y + 1>> : y \in {-9, -4, -1, 0, 3, 8}}

Window(crs, gt, r) == [crs |-> crs, gt |-> gt, r |-> r]
Cylinders ==
    {Window(Crs("cylindric", 0, 1), Gt(x * Unit, 0, OnLongitudes(s)), r) :
        x \in -5 .. 5, s \in Upright \cup Turned, r \in {<<0, 0, 1, 1>>, <<0, 0, 2, 1>>, <<1, 0, 1, 2>>}}
ConeWindows ==
    {Window(c, Gt(x, y, s), r) : c \in Cones, x \in -4 .. 3, y \in -3 .. 4, s \in Upright,
        r \in {<<0, 0, 1, 1>>, <<0, 0, 3, 1>>, <<0, 0, 2, 2>>}}
TurnedCones ==
    {Window(c, Gt(x, y, s), r) : c \in Cones, x \in -4 .. 3, y \in -3 .. 4, s \in Turned,
        r \in {<<0, 0, 1, 1>>, <<0, 0, 2, 2>>}}

\* Longitudes at the corners of a cell of the certificate's grid.
Corners(b, s, t, u) == (<<0, 0>> :> b) @@ (<<0, 1>> :> b + s) @@ (<<1, 0>> :> b + t) @@ (<<1, 1>> :> b + u)
Grids ==
    {[g |-> Corners((k * Unit) \div 2, s, t, u), e |-> e] :
        k \in -8 .. 8, s \in {-Unit, 0, Unit \div 2, Unit}, t \in {-Unit, 0, Unit},
        u \in {-Unit, 0, Unit, 2 * Unit}, e \in {Unit, 2 * Unit}}

Layout == INSTANCE MosaicLayout WITH HalfTurn <- 8, Pole <- 1000

File(x, y, s, k) ==
    [gt |-> Gt(x, y, s), w |-> 2, h |-> 2, cw |-> 1, ch |-> 2, crs |-> Crs(k, 0, 1)]
Files ==
    {File(x, y, s, "cylindric") : x \in {-8, -5, 2, 5, 7}, y \in {0, 2},
                                  s \in {<<2, 0, 0, -2>>, <<2, 2, 2, -2>>}}
      \cup {File(x, y, <<2, 0, 0, -2>>, "proj4") : x \in {-8, -5, 2, 5, 7}, y \in {0, 2}}
Mosaics ==
    {[files |-> <<a, b>>, box |-> box, rule |-> rule] :
        a \in Files, b \in Files, rule \in {"First", "Cutline"},
        box \in {NoBox, <<-8, -2, -4, 2>>, <<6, -3, -6, 3>>, <<3, -4, 6, 1>>}}

Words(S, n) == UNION {[1 .. k -> S] : k \in 0 .. n}

-----------------------------------------------------------------------------
(* What files and definitions declare.                                           *)

Tiff == INSTANCE Georeferencing

Systems ==
    [datum : {"WGS84", "NAD83", "OTHER"}, meridian : {0, 2}, angular : {"degree", "radian"},
     shift : {0, 9}, unit : {Tiff!Metre, Tiff!Foot, Tiff!UsFoot, 400},
     method : {"tm", "lcc", "aea", "other"},
     p1 : {1}, p2 : {2}, lat : {3}, lon : {4}, k : {5}, fe : {0, 7}]
Forms == {"keys", "old", "datum", "oldText", "truncated", "text", "code", "geographic"}
Ties ==
    [matrix : {None}, rasterType : {None, 1, 2}, scale : (0 .. 2) \X (0 .. 2),
     tiepoint : {<<i, j, 10, 20>> : i, j \in 0 .. 1} \cup {None}]

Token(k, v, p) == [key |-> k, value |-> v, plain |-> p]
TokenValues ==
    [datum |-> {"wgs84", "nad83", "osgb36", "nad27"}, ellps |-> {"grs80", "intl", "sphere"},
     a |-> {"std", "other", "bad"}, b |-> {"std", "other"}, rf |-> {"std", "other"},
     units |-> {"m", "us-ft"}, to_meter |-> {"std", "other"}, pm |-> {"greenwich", "paris"},
     towgs84 |-> {"zero", "small", "huge"}, nadgrids |-> {"null", "grid"}, axis |-> {"neu"},
     modifier |-> {"set"}, lon_0 |-> {"std", "other", "bad"}, x_0 |-> {"std", "other"},
     k |-> {"std", "other"}, k_0 |-> {"std", "other"}, k0 |-> {"std", "other"},
     lat_ts |-> {"std", "other"}, lat_1 |-> {"std", "bad"}, lat_2 |-> {"opposite", "bad"},
     approx |-> {"set"}, algo |-> {"poder_engsager", "evenden_snyder"}, no_defs |-> {"set"},
     init |-> {"epsg:4326", "epsg:32610", "esri:102008"}, proj |-> {"longlat", "merc"}]
Tokens ==
    UNION {{Token(k, v, TRUE) : v \in TokenValues[k]} : k \in DOMAIN TokenValues}
      \cup {Token(k, "other", FALSE) : k \in {"k", "x_0", "a"}} \cup {Token("datum", "osgb36", FALSE)}

Std(key) == Token(key, "std", TRUE)
Beginnings ==
    {<<Token("proj", p, TRUE)>> : p \in {"longlat", "utm", "tmerc"}} \cup {<<Token("init", "epsg:32610", TRUE)>>}
      \cup {<<Token("proj", "merc", TRUE), Std("a")>>, <<Token("proj", "merc", TRUE), Std("a"), Std("b")>>}
      \cup {<<Token("proj", "aea", TRUE), Std("lat_1"), Token("lon_0", "other", TRUE), e>> :
               e \in {Token("ellps", "grs80", TRUE), Std("a")}}

\* A base and up to two tokens more.
AddToken ==
    /\ \E b \in Beginnings : IsPrefix(b, x1) /\ Len(x1) < Len(b) + 2
    /\ \E t \in Tokens : x1' = Append(x1, t)

\* No parameter twice, none in upper case or without its '+'.
Regular(def) ==
    /\ \A i, j \in DOMAIN def : i # j => def[i].key # def[j].key
    /\ \A i \in DOMAIN def : def[i].plain

-----------------------------------------------------------------------------
(* Chunks, and the pixels of a chunk.                                            *)

Chunk == INSTANCE ChunkDecode WITH Base <- 3, Lanes <- 2

ChunkLayouts ==
    {l \in [tile : BOOLEAN, tw : {2, 3}, th : {2}, dw : {2, 3}, dh : {1, 2}, spp : {1, 2}, n : {1, 2, 4},
            kind : {"uint", "int", "float"}, little : BOOLEAN, predictor : {"none", "horizontal", "float"},
            white : BOOLEAN, method : {"none", "deflate", "lzw", "other"}] :
        /\ <<l.kind, l.n>> \in {<<"uint", 1>>, <<"uint", 2>>, <<"int", 2>>, <<"float", 4>>, <<"uint", 4>>}
        /\ l.dw <= l.tw /\ (~l.tile => l.tw = l.dw)
        /\ l.predictor = "float" => l.kind = "float"
        /\ l.predictor = "horizontal" => l.kind # "float"}

\* Buffers of the previous chunk: longer or shorter than this one, or of another file's
\* type; stale samples and bytes are ones.
StaleBuffers(l) ==
    LET Ones(k) == [i \in 1 .. k |-> 1]
    IN  {{}, {[type |-> <<l.kind, l.n>>, v |-> Ones(13)]}, {[type |-> <<l.kind, l.n>>, v |-> Ones(1)]},
         {[type |-> IF l.kind = "int" THEN <<"uint", 1>> ELSE <<"int", 2>>, v |-> Ones(3)]}}

EmptyLayouts == {l \in ChunkLayouts : l.method = "deflate" /\ l.predictor = "none" /\ l.little /\ ~l.white}

\* How a payload is cut, and where.
Cuts == {<<0, "queue">>, <<1, "queue">>, <<4, "queue">>, <<0, "array">>, <<1, "array">>, <<1, "file">>, <<4, "file">>}

\* Raw bytes are always sound; the vector kernels do not depend on the buffer; what is
\* sparse or not listed has no bytes to decode.
Chunks ==
    {[layout |-> l, cut |-> cut[1], sound |-> sound, neon |-> neon, where |-> cut[2],
      buffer |-> buffer, scratch |-> <<1, 1, 1, 1, 1, 1, 1>>, nodata |-> nodata] :
         <<l, cut, sound, neon, buffer, nodata>> \in
             UNION {({l} \X Cuts \X {TRUE, l.method = "none"} \X {FALSE} \X StaleBuffers(l) \X {1})
                    \cup ({l} \X {<<0, "queue">>} \X {TRUE} \X {l.method = "none"} \X {{}} \X {1})
                        : l \in ChunkLayouts}
             \cup UNION {{l} \X {<<0, "sparse">>, <<0, "outside">>} \X {TRUE} \X {FALSE}
                            \X StaleBuffers(l) \X {None, -7, 0, 200} : l \in EmptyLayouts}}

SampleAt(r, i) == ((1 + r) * i * i + r) % Chunk!Power(x1.layout.n)

\* Half a turn is two pixels: rows of three pixels cross the antimeridian.
ByResolution(r, x, y) == <<(x % 320) \div (70 * r), y \div (70 * r)>>
Walk == INSTANCE ScanlineWalker WITH
    Values <- {0, 1, 2}, Resolutions <- <<1, 2>>, CellOf <- ByResolution, MaxLat <- 100,
    HalfTurn <- 160

Bands(scale, formula, alpha) ==
    [scale |-> scale, offset |-> [i \in DOMAIN scale |-> 0], formula |-> formula, alpha |-> alpha]
Raster(rows, pattern, box, owner, bands, place) ==
    [rows |-> rows, col0 |-> place[1], row0 |-> 0, lon0 |-> place[2], lat0 |-> 120,
     points |-> Walk!Pattern(pattern), bbox |-> box, owner |-> owner, bands |-> bands]
WalkBoxes == {NoBox, <<-40, -120, 80, 120>>, <<80, -120, -80, 120>>, <<-120, -120, 120, 45>>,
              <<-160, -120, -100, 120>>, <<100, -120, 160, 120>>}
RowPairs(P) == {<<a, <<x, y, x>>>> : a \in [1 .. 3 -> P], x \in P, y \in P}
OneBand == {<<v>> : v \in {1, NoData}}
TwoBands == {<<0, 1>>, <<1, 2>>, <<1, NoData>>}
Owners == {All, -160 .. -50 \cup 40 .. 159}
Rasters ==
    {Raster(r, p, box, o, b, c) :
        r \in RowPairs(OneBand) \cup {<<<<v, v, w>>, <<w, v, w>>>> : v, w \in {<<0>>, <<1>>}},
        p \in {"center", "rgss"}, box \in WalkBoxes, o \in Owners,
        b \in {Bands(<<1>>, <<1>>, 0), Bands(<<2>>, <<1>>, 0)}, c \in {<<0, -120>>, <<1, -120>>, <<0, -200>>}}
      \cup {Raster(r, p, box, All, b, <<0, -120>>) :
        r \in {<<a, <<x, y, x>>>> : a \in {<<u, v, u>> : u, v \in TwoBands}, x \in TwoBands, y \in TwoBands},
        p \in {"center", "rgss"}, box \in WalkBoxes,
        b \in {Bands(<<1, 1>>, <<2>>, 1), Bands(<<1, 1>>, <<1, 2>>, 0)}}

-----------------------------------------------------------------------------
(* What a cell accumulates.                                                      *)

NumberSpans == {<<>>, <<3>>, <<-1, 3, -1>>, <<3, Inf, 3, 0, -1>>, <<0, 0, 3>>}
Numbers == INSTANCE CellStatistics WITH
    Slots <- {1, 2}, Values <- {-1, 0, 3}, Weights <- {1, 2}, Spans <- NumberSpans,
    Markers <- {None, Inf, 3}, Lanes <- 3, MaxWeight <- 3, Scale <- 6, Top <- 1000,
    acc <- x1, seen <- x2

Rule(from, to) == [from |-> from, to |-> to]
Else(pass, target) == [pass |-> pass, target |-> target]
Remappings ==
    {[entries |-> <<Rule(<<<<1, 3>>>>, <<7>>), Rule(<<<<2, 2>>, <<0, 0>>>>, <<>>),
                   Rule(<<<<2, 2>>>>, <<3>>)>>,
      other |-> Else(TRUE, <<>>)],
     [entries |-> <<Rule(<<<<2, -1>>>>, <<7>>), Rule(<<<<0, 4>>>>, <<8>>)>>, other |-> Else(FALSE, <<>>)],
     [entries |-> <<Rule(<<<<1, 1>>>>, <<2>>)>>, other |-> Else(FALSE, <<9>>)]}
ClassSpans ==
    {<<"int", <<1, 1, 2>>>>, <<"int", <<3, 3>>>>, <<"int", <<2, 0, 2>>>>, <<"float", <<3, Inf, 4, -1>>>>,
     <<"float", <<Inf, Inf>>>>, <<"int", <<-1>>>>}
Classes == INSTANCE CategoryCounts WITH
    Slots <- {1, 2}, InlineCapacity <- 2, Spans <- ClassSpans, Markers <- {None, Inf, 3, 4},
    Remaps <- Remappings, Weights <- {0, 2}, MaxTotal <- 4, LutMax <- 3, TieShare <- 6,
    acc <- x1, seen <- x2, marker <- x3, remap <- x4

\* Counts of three or four classes, apart by less and by more than a tie.
ClassCounts == [1 .. 3 -> 1 .. 5] \cup [1 .. 4 -> 1 .. 3]

-----------------------------------------------------------------------------
(* Tiles: a world of 16 longitudes, cells at most seven wide.                    *)

Tile == INSTANCE TilePyramid WITH RowHeight <- <<>>, MaxRadius <- <<>>

Half == 8
Wrapped(l) == ((l + Half) % (2 * Half)) - Half
ArcCell(c, w) ==
    [arc |-> [i \in 1 .. 2 * w + 1 |-> Wrapped(c - w - 1 + i)], lat |-> w - 1, pole |-> "none"]
ArcCells == {ArcCell(c, w) : c \in -Half .. Half - 1, w \in {0, 1, 3}}
PoleCells == {[ArcCell(0, 1) EXCEPT !.pole = p] : p \in {"north", "south"}}
CellLists ==
    UNION {[1 .. n -> ArcCells] : n \in 1 .. 2} \cup (ArcCells \X PoleCells)
      \cup {<<a, ArcCell(-6, 1), ArcCell(5, 1)>> : a \in ArcCells}
ResolutionSets == {S \in SUBSET (0 .. 15) : Cardinality(S) \in 1 .. 3}

-----------------------------------------------------------------------------
(* Ranges: every list of three chunks of two files.  An empty chunk is skipped,   *)
(* so the shorter lists are among them.                                           *)

\* The locations of the i-th chunk: its index is its place in the list.
Locs(i) == [tile : 0 .. 1, chunk : {i}, offset : 0 .. MaxOffset, length : 0 .. MaxLength]
Lists == {<<a, b, c>> : a \in Locs(1), b \in Locs(2), c \in Locs(3)}

\* The loop has returned the plan of no chunks.
NoRanges == chunks = <<>> /\ next = 1 /\ current = <<>> /\ ranges = <<>> /\ done = TRUE

-----------------------------------------------------------------------------
InputsInit ==
    \/ part = "windows" /\ x1 \in Cylinders \cup ConeWindows \cup TurnedCones /\ Only1
    \/ part = "grids" /\ x1 \in Grids /\ Only1
    \/ part = "mosaics" /\ x1 \in {m \in Mosaics : m.files[1] # m.files[2]} /\ Only1
    \/ part = "globs" /\ x1 \in Words({"*", "?", "a", "b"}, 4) /\ Only1
    \/ part = "systems" /\ x1 \in Systems /\ x2 \in Forms /\ Only2
    \/ part = "ties" /\ x1 \in Ties /\ Only1
    \/ part = "tokens" /\ x1 \in Beginnings /\ Only1
    \/ part = "chunks" /\ x1 \in Chunks /\ Only1
    \/ part = "rasters" /\ x1 \in Rasters /\ Only1
    \/ part = "numbers" /\ Numbers!Init /\ Only2
    \/ part = "classes" /\ Classes!Init
    \/ part = "majority" /\ x1 \in ClassCounts /\ Only1
    \/ part = "cells" /\ x1 \in CellLists /\ Only1
    \/ part = "zooms" /\ x1 \in ResolutionSets /\ Only1

RulesInit ==
    \/ InputsInit /\ NoRanges
    \/ part = "ranges" /\ CoalesceInit /\ x1 = Off /\ Only1

RulesNext ==
    /\ UNCHANGED part
    /\ \/ part = "ranges" /\ CoalesceNext /\ UNCHANGED <<x1, x2, x3, x4>>
       \/ /\ UNCHANGED coalesceVars
          /\ \/ part = "tokens" /\ AddToken /\ UNCHANGED <<x2, x3, x4>>
             \/ part = "numbers" /\ Numbers!Next /\ UNCHANGED <<x3, x4>>
             \/ part = "classes" /\ Classes!Next

RulesSpec == RulesInit /\ [][RulesNext]_<<part, x1, x2, x3, x4, coalesceVars>>

\* Albers definitions alone.
AlbersSpec ==
    /\ part = "tokens" /\ x1 \in {b \in Beginnings : b[1].value = "aea"} /\ Only1 /\ NoRanges
    /\ [][AddToken /\ UNCHANGED <<part, x2, x3, x4, coalesceVars>>]_<<part, x1, x2, x3, x4, coalesceVars>>

-----------------------------------------------------------------------------
(* Properties.                                                                   *)

\* No pixel a query needs is pruned and no cell is evicted while a pixel north of its
\* horizon is still to come, whatever the CRS and the transform of the raster; a file name
\* is matched as its pattern reads; and of the files of a mosaic each sample is scanned
\* from exactly the one the overlap rule gives it to (coordinates.rs, mosaic.rs).
PlacementRules ==
    /\ part = "windows" =>
         /\ Bounds!PruningSound(x1.crs, x1.gt, x1.r,
                               IF x1.crs.kind = "cylindric" THEN CylinderBoxes ELSE ConeBoxes)
         /\ Bounds!EvictionSound(x1.crs, x1.gt, x1.r)
    /\ part = "grids" => Bounds!LiftSound(x1.g, 1, 1, x1.e, 1)
    /\ part = "mosaics" => Layout!ScanExact(x1.files, x1.box, x1.rule)
    /\ part = "globs" => \A s \in Words({"a", "b"}, 3) : Layout!GlobMatch(x1, s) = Layout!Globs(x1, s)

\* Metadata means what the file says: the CRS that GeoKeys declare in any form, the place
\* of a tie point, the definition behind a fast path or a certificate (but for the
\* parameters that are dropped, Overridden), and the samples of an encoded or sparse chunk,
\* whatever the recycled buffer held (metadata.rs, transformer.rs, geotiff.rs, predictor.rs).
MetadataRules ==
    /\ part = "systems" => Tiff!CrsAsDeclared(x1, x2)
    /\ part = "ties" => Tiff!TiepointPlaced(x1)
    /\ part = "tokens" =>
         /\ Tiff!Overridden(x1) \/ Tiff!FastPathMeans(x1)
         /\ Tiff!CertificateMeans(x1)
    /\ part = "chunks" =>
         /\ Chunk!ReadsBack(x1, SampleAt)
         /\ Chunk!ShuffleExact

\* docs/crs-and-projection.md: the fast paths are used "only when every PROJ parameter is
\* understood".  A definition that AlbersConicFast::from_proj_tokens accepts has the
\* ellipsoid that the fast path computes with.
EveryParameterUnderstood ==
    Regular(x1) /\ ~Tiff!Has(x1, "init") => Tiff!FastPathMeans(x1)

\* Every valid sample of a window is counted once, at the cell of each resolution it lies
\* in, whichever kernel walks the row (scanline walker of multi_horizon).
WalkExact == part = "rasters" => Walk!WalkExact(x1)

\* However samples, spans and merges are interleaved, a cell's statistics, quantiles and
\* class counts are those of the pixels it saw, and its majority does not depend on the
\* order of its classes where near ties form no chain (accumulator.rs, categorical.rs).
Statistics ==
    /\ part = "numbers" => Numbers!StatisticsExact /\ Numbers!QuantilesExact
    /\ part = "classes" => Classes!CountsExact
    /\ part = "majority" => Classes!MajorityExact(x1, SetToSeqs({<<c, x1[c]>> : c \in DOMAIN x1}))

\* A zoom shows one resolution, the one of its scale, wherever that is requested or coarser
\* than all that are; a cell is cut into exactly the tiles its arc touches, across the
\* antimeridian too; and the bounds and those of the header cover every cell and the
\* center, a pole included, whichever accumulators are merged in which order (pyramid.rs).
TileRules ==
    /\ part = "zooms" =>
         \A z \in 0 .. 24 :
            LET r == Tile!h3_res_for_zoom(z)
            IN  Tile!ResolutionsAt(z, x1) =
                    IF r \in x1 \/ r < Tile!Min(x1) THEN {r} ELSE {}
    /\ part = "cells" =>
         LET Points(c) == {<<l, c.lat>> : l \in Range(c.arc)}
                            \cup (IF c.pole = "none" THEN {}
                                 ELSE {<<l, IF c.pole = "north" THEN Half \div 2 ELSE -(Half \div 2)>> :
                                         l \in -Half .. Half - 1})
             Add(acc, c) == Tile!RecordCell(acc, [points |-> {<<l, c.lat>> : l \in Range(c.arc)},
                                                  pole |-> c.pole], Half)
             Record(s) == FoldLeft(Add, Tile!NewBounds(Half), s)
             bounds == Tile!FinishBounds(Record(x1), Half)
             doubled == [i \in 1 .. 4 |-> 2 * bounds[i]]
             Position(l) == l + Half
         IN  /\ \A i \in DOMAIN x1 : \A p \in Points(x1[i]) :
                  /\ Tile!Covers(bounds, p)
                  /\ Tile!Covers(Tile!HeaderBounds(bounds, Half), p)
             /\ Tile!Covers(doubled, Tile!Center2(bounds, Half))
             /\ \A n \in 0 .. Len(x1) :
                  LET a == Record(SubSeq(x1, 1, n))
                      b == Record(SubSeq(x1, n + 1, Len(x1)))
                  IN  Record(x1) = Tile!MergeBounds(a, b) /\ Record(x1) = Tile!MergeBounds(b, a)
             /\ \A n \in {1, 2, 4} : \A i \in DOMAIN x1 :
                  LET arc == [k \in DOMAIN x1[i].arc |-> Position(x1[i].arc[k])]
                      center == arc[(Len(arc) + 1) \div 2]
                  IN  Tile!CellTilesX(center, arc, 2 * Half, n) =
                        {Tile!TileX(x, 2 * Half, n) : x \in Range(arc)}

\* The reference: the chunks a pass has planned, in its order.
PlannedChunks == FlattenSeq([i \in 1 .. Len(Built) |->
                   [s \in 1 .. Len(Built[i].slices) |-> Built[i].slices[s].chunk]])

\* Every chunk that has bytes is planned, once and in reading order; empty chunks
\* are not.
AllPlanned ==
    LET seen == SubSeq(chunks, 1, next - 1)
        full == SelectSeq(seen, LAMBDA loc : loc.length # 0)
    IN  PlannedChunks = [i \in 1 .. Len(full) |-> full[i].chunk]

LocationOf(k) == chunks[k]

\* Nothing more could have been merged: the first chunk of a range does not
\* satisfy the documented merging rule for the range before it.
GreedyMerge ==
    \A i \in 1 .. Len(Built) - 1 :
        LET before == Built[i]
            loc == LocationOf(Built[i + 1].slices[1].chunk)
        IN  \/ loc.tile # before.tile
            \/ loc.offset <= before.end
            \/ loc.offset > before.end + 1 + MaxGap
            \/ loc.offset + loc.length > before.start + MaxRange

\* Every chunk that has bytes is requested, once and in reading order, and no range
\* begins with a chunk that the range before could have taken (coalesce_chunk_ranges).
PlanExact == AllPlanned /\ GreedyMerge

=============================================================================
