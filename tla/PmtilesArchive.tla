---------------------------- MODULE PmtilesArchive ----------------------------
(***************************************************************************)
(* An archive and its tiles.  First                                         *)
(* PmtilesWriter (pmtiles/writer.rs): tiles are appended to a spill file in *)
(* any order; finish sorts them by Hilbert id, lays out their data, encodes *)
(* the directory (split into leaves when it is too long) and writes header, *)
(* root, metadata, leaves and tile data one after the other.                *)
(*                                                                         *)
(* A byte of the archive is a value: a tile of length n is n copies of its  *)
(* id, a directory is one value per encoded number, compression keeps the   *)
(* length.  Reading a tile back follows the PMTiles format: the header      *)
(* gives the sections, the root the entry or a leaf, the entry the bytes.   *)
(***************************************************************************)
EXTENDS TilePyramid, SequencesExt

CONSTANTS MaxZoom,       \* tiles of zooms 0 .. MaxZoom are looked up
          Written,       \* the tiles <<z, x, y>> that may be written
          Lengths,       \* byte lengths a compressed tile may have
          LeafSize,      \* MAX_ENTRIES_PER_LEAF
          RootLimit,     \* bytes of root directory that fit the first fetch
          MaxTiles       \* bound on the tiles written

VARIABLES entries,  \* SpillTileEntry in the order of writing
          spill,    \* the spill file
          archive,  \* the file written, as sections, or {} before finish
          status    \* "open", "done" or "failed"

vars == <<entries, spill, archive, status>>

HeaderSize == 2   \* a stand-in for the 127 bytes

-----------------------------------------------------------------------------
(* Hilbert ids.  s runs over the powers of two below 2^z, from the top when *)
(* encoding and from the bottom when decoding.                              *)

Bit(v, s) == (v \div s) % 2

zxy_to_tile_id(z, x, y) ==
    LET step[k \in 0..z] ==
            IF k = 0 THEN [x |-> x, y |-> y, d |-> 0]
            ELSE LET p  == step[k - 1]
                     s  == 2^(z - k)
                     rx == Bit(p.x, s)
                     ry == Bit(p.y, s)
                     lx == p.x % s
                     ly == p.y % s
                     d  == p.d + s * s * (IF rx = 1 THEN 3 - ry ELSE ry)
                 IN  IF ry = 1 THEN [x |-> lx, y |-> ly, d |-> d]
                     ELSE IF rx = 1
                     THEN [x |-> s - 1 - ly, y |-> s - 1 - lx, d |-> d]
                     ELSE [x |-> ly, y |-> lx, d |-> d]
    IN  ((4^z - 1) \div 3) + step[z].d

\* (63 - leading_zeros) / 2 of 3i + 1 is half the position of its top bit.
tile_id_to_z(i) == CHOOSE z \in 0..MaxZoom : 4^z <= 3*i + 1 /\ 3*i + 1 < 4^(z + 1)

tile_id_to_zxy(i) ==
    LET z == tile_id_to_z(i)
        step[k \in 0..z] ==
            IF k = 0 THEN [x |-> 0, y |-> 0, t |-> i - ((4^z - 1) \div 3)]
            ELSE LET p  == step[k - 1]
                     s  == 2^(k - 1)
                     rx == Bit(p.t, 2)
                     ry == (p.t + rx) % 2
                     q  == IF ry = 1 THEN <<p.x, p.y>>
                           ELSE IF rx = 1 THEN <<s - 1 - p.y, s - 1 - p.x>>
                           ELSE <<p.y, p.x>>
                 IN  [x |-> q[1] + s * rx, y |-> q[2] + s * ry, t |-> p.t \div 4]
    IN  <<z, step[z].x, step[z].y>>

Tiles == UNION {{z} \X (0..(2^z - 1)) \X (0..(2^z - 1)) : z \in 0..MaxZoom}

-----------------------------------------------------------------------------
(* Directories.                                                            *)

\* Delta ids, run lengths, lengths, and offsets with 0 for "follows the
\* previous entry" and offset + 1 otherwise.
encode_directory(es) ==
    LET n == Len(es)
    IN  <<n>>
          \o [i \in 1..n |-> es[i].tile_id - (IF i = 1 THEN 0 ELSE es[i - 1].tile_id)]
          \o [i \in 1..n |-> es[i].run_length]
          \o [i \in 1..n |-> es[i].length]
          \o [i \in 1..n |->
                IF i > 1 /\ es[i].offset = es[i - 1].offset + es[i - 1].length
                THEN 0 ELSE es[i].offset + 1]

\* Wrong: a last leaf that is not full is forgotten.
ChunksFull(es) ==
    [i \in 1..(Len(es) \div LeafSize) |-> SubSeq(es, (i - 1) * LeafSize + 1, i * LeafSize)]

Chunks(es) ==
    [i \in 1..((Len(es) + LeafSize - 1) \div LeafSize) |->
        SubSeq(es, (i - 1) * LeafSize + 1,
               IF i * LeafSize < Len(es) THEN i * LeafSize ELSE Len(es))]

build_leaf_directories(es) ==
    LET leaves == [i \in DOMAIN Chunks(es) |-> encode_directory(Chunks(es)[i])]
        start[i \in DOMAIN leaves] ==
            IF i = 1 THEN 0 ELSE start[i - 1] + Len(leaves[i - 1])
        pointers == [i \in DOMAIN leaves |->
                        [tile_id |-> Chunks(es)[i][1].tile_id, offset |-> start[i],
                         length |-> Len(leaves[i]), run_length |-> 0]]
    IN  <<encode_directory(pointers), FlattenSeq(leaves)>>

Directories(es) ==
    IF Len(es) <= LeafSize /\ Len(encode_directory(es)) <= RootLimit
    THEN <<encode_directory(es), <<>>>>
    ELSE build_leaf_directories(es)

\* Entries in id order with their final places in the tile data.
Laid(sorted) ==
    LET off[i \in DOMAIN sorted] ==
            IF i = 1 THEN 0 ELSE off[i - 1] + sorted[i - 1].length
    IN  [i \in DOMAIN sorted |->
            [tile_id |-> sorted[i].tile_id, offset |-> off[i],
             length |-> sorted[i].length, run_length |-> 1]]

-----------------------------------------------------------------------------
Init == entries = <<>> /\ spill = <<>> /\ archive = {} /\ status = "open"

\* The exporters write no tile twice (see PmtilesTiler and ExternalExport).
AddTile(t, n) ==
    /\ status = "open" /\ Len(entries) < MaxTiles
    /\ LET id == zxy_to_tile_id(t[1], t[2], t[3])
       IN  /\ id \notin {entries[i].tile_id : i \in DOMAIN entries}
           /\ entries' = Append(entries, [tile_id |-> id, spill_offset |-> Len(spill),
                                          length |-> n])
           /\ spill' = spill \o [i \in 1..n |-> t]
    /\ UNCHANGED <<archive, status>>

\* A failed write ends the export, with the archive unfinished.
WriteFails ==
    /\ status = "open" /\ status' = "failed"
    /\ UNCHANGED <<entries, spill, archive>>

\* finish_into; finish puts the file in place only once it is complete.
Finish ==
    /\ status = "open"
    /\ LET sorted == SortSeq(entries, LAMBDA a, b : a.tile_id < b.tile_id)
           dirs   == Directories(Laid(sorted))
           meta   == <<"meta">>
           data   == FlattenSeq([i \in DOMAIN sorted |->
                        SubSeq(spill, sorted[i].spill_offset + 1,
                               sorted[i].spill_offset + sorted[i].length)])
           rootAt == HeaderSize
           metaAt == rootAt + Len(dirs[1])
           leafAt == metaAt + Len(meta)
           dataAt == leafAt + Len(dirs[2])
       IN  archive' = {[ root |-> <<rootAt, Len(dirs[1])>>,
                         leaves |-> <<leafAt, Len(dirs[2])>>,
                         tiles |-> <<dataAt, Len(data)>>,
                         bytes |-> [i \in 1..HeaderSize |-> "header"]
                                     \o dirs[1] \o meta \o dirs[2] \o data ]}
    /\ status' = "done"
    /\ UNCHANGED <<entries, spill>>

Next ==
    \/ \E t \in Written, n \in Lengths : AddTile(t, n)
    \/ WriteFails
    \/ Finish

Spec == Init /\ [][Next]_vars

-----------------------------------------------------------------------------
(* A reader of the format.                                                 *)

Bytes(file, at, n) == SubSeq(file.bytes, at + 1, at + n)

decode_directory(b) ==
    LET n == b[1]
        id[i \in 1..n] == b[1 + i] + (IF i = 1 THEN 0 ELSE id[i - 1])
        off[i \in 1..n] == IF b[1 + 3*n + i] = 0
                           THEN off[i - 1] + b[1 + 2*n + i - 1]
                           ELSE b[1 + 3*n + i] - 1
    IN  [i \in 1..n |-> [tile_id |-> id[i], run_length |-> b[1 + n + i],
                         length |-> b[1 + 2*n + i], offset |-> off[i]]]

\* The last entry at or below the id, if it covers it.
FindTile(dir, tile_id) ==
    LET below == {i \in DOMAIN dir : dir[i].tile_id <= tile_id}
        e     == dir[Max(below)]
    IN  IF below = {} THEN {}
        ELSE IF e.run_length = 0 \/ tile_id < e.tile_id + e.run_length THEN {e}
        ELSE {}

ReadTile(file, tile_id) ==
    LET dir  == decode_directory(Bytes(file, file.root[1], file.root[2]))
        data(e) == Bytes(file, file.tiles[1] + e.offset, e.length)
        found(e) == IF e.run_length > 0 THEN {data(e)}
                    ELSE {data(f) : f \in FindTile(decode_directory(
                            Bytes(file, file.leaves[1] + e.offset, e.length)), tile_id)}
    IN  UNION {found(e) : e \in FindTile(dir, tile_id)}

\* The pointers to leaves a root of RootLimit can hold: four numbers each, and
\* their count.
MaxLeaves == (RootLimit - 1) \div 4

\* Every tile written is read back from the finished archive with its own
\* bytes, through the root or through the leaf that its id leads to, and a
\* tile never written is not found; ids and coordinates convert into each
\* other without loss.  The root fits the first fetch up to MaxLeaves full
\* leaves: leaves do not grow, so the root of a larger archive does not (
\* zxy_to_tile_id, encode_directory, finish_into).
ArchiveReads ==
  \A file \in archive :
    /\ Len(entries) <= MaxLeaves * LeafSize => file.root[2] <= RootLimit
    /\ \A t \in Tiles :
        LET id == zxy_to_tile_id(t[1], t[2], t[3])
            of == {i \in DOMAIN entries : entries[i].tile_id = id}
        IN  /\ tile_id_to_zxy(id) = t
            /\ ReadTile(file, id) = {[k \in 1..entries[i].length |-> t] : i \in of}

-----------------------------------------------------------------------------
(***************************************************************************)
(* One vector tile (pmtiles/mvt.rs): hexagons are placed in the tile's      *)
(* coordinates, on the side of the antimeridian the tile is on, and the     *)
(* layer is encoded with dictionaries of keys and values and with delta     *)
(* coded rings.  x positions are integers in 0 .. World-1 around the globe, *)
(* one tile unit per position; a ring is a sequence of <<x, y>>.  Rows of   *)
(* tiles are not told apart: y stays as it is on the map.                   *)
(***************************************************************************)
CONSTANTS World,     \* x positions around the globe
          TileColumns, \* the tiles to try: <<2^z columns, column tx>>
          Hexagons,  \* [id, ring, props] that may be drawn
          Allowed,   \* the keys the property filter lets through
          VarintBase, \* what a byte of a varint carries, 128 in the code
          WordSize,  \* 2^64 in the code
          MaxFeatures

VARIABLES tile,
          features, seen,  \* MvtLayer.features and seen_ids
          added,           \* the hexagons accepted, in order
          encoded          \* the encoded layer, or {}

layerVars == <<tile, features, seen, added, encoded>>

Columns == tile[1]
Column == tile[2]
Span == World \div Columns
Xs(ring) == [i \in DOMAIN ring |-> ring[i][1]]
Width(xs) == Max(Range(xs)) - Min(Range(xs))

-----------------------------------------------------------------------------
(* Placing a ring in the tile.                                             *)

\* The whole ring moves by a world when its middle is more than half a world
\* from the tile's center.
BranchShift(xs) ==
    LET mid2    == Min(Range(xs)) + Max(Range(xs))
        center2 == 2 * Column * Span + Span
    IN  IF mid2 - center2 > World THEN -World
        ELSE IF mid2 - center2 < -World THEN World
        ELSE 0

EncirclesPole(ring) ==
    /\ 2 * Width(Xs(ring)) > World
    /\ 2 * Width(UnwrappedRing(Xs(ring), World)) >= World

PlacedXs(ring) ==
    LET around == UnwrappedRing(Xs(ring), World)
    IN  IF 2 * Width(Xs(ring)) <= World THEN Xs(ring)
        ELSE [i \in DOMAIN ring |-> around[i] + BranchShift(around)]

WrapStep(d) == IF 2 * d > World THEN d - World ELSE IF 2 * d <= -World THEN d + World ELSE d

\* A ring round a pole, in the order in which it runs east.
Eastward(ring) ==
    LET n == Len(ring)
        turn == FoldFunction(+, 0, [i \in 1..n |-> WrapStep(ring[(i % n) + 1][1] - ring[i][1])])
    IN  IF turn >= 0 THEN ring ELSE Reverse(ring)

\* push: a point equal to the one before is left out.
Push(pts, p) == IF pts # <<>> /\ Last(pts) = p THEN pts ELSE Append(pts, p)

\* To the nearest, halves away from zero.
Rounded(n, d) == IF n >= 0 THEN (2 * n + d) \div (2 * d) ELSE -((d - 2 * n) \div (2 * d))

\* polar_cap: the ring walked eastward from where it crosses the seam, closed
\* along both seam edges and the map's edge; with no edge across the seam (a
\* vertex lies on it) the last edge is taken for it.  Points carry their y times
\* the width of the crossing edge, so that the crossing's is a whole number, and
\* are rounded at the end, as to_tile does.
PolarCap(ring, edgeY) ==
    LET n       == Len(ring)
        east    == Eastward(ring)
        next(i) == (i % n) + 1
        to(i)   == east[i][1] + WrapStep(east[next(i)][1] - east[i][1])
        cross   == {i \in 1..n : to(i) > World}
        k       == IF cross = {} THEN n ELSE Min(cross)
        width   == to(k) - east[k][1]
        seamY   == east[k][2] * width
                     + (World - east[k][1]) * (east[next(k)][2] - east[k][2])
        at(s)   == east[((k + s - 1) % n) + 1]
        x(s)    == IF s = 1 /\ at(s)[1] = World THEN 0
                   ELSE IF s = n /\ at(s)[1] = 0 THEN World
                   ELSE at(s)[1]
        pts     == FoldLeft(Push, <<>>,
                     <<<<0, seamY>>>> \o [s \in 1..n |-> <<x(s), width * at(s)[2]>>]
                       \o <<<<World, seamY>>, <<World, width * edgeY>>, <<0, width * edgeY>>>>)
    IN  [i \in DOMAIN pts |-> <<pts[i][1], Rounded(pts[i][2], width)>>]

\* The map is a square: its top is at 0, its bottom at World.
MapEdge(ring) ==
    IF 2 * FoldFunction(+, 0, [i \in DOMAIN ring |-> ring[i][2]]) < Len(ring) * World
    THEN 0 ELSE World

Area2(ring) ==
    FoldFunction(+, 0, [i \in DOMAIN ring |->
        LET j == (i % Len(ring)) + 1
        IN  ring[i][1] * ring[j][2] - ring[j][1] * ring[i][2]])

orient_exterior(ring) == IF Area2(ring) < 0 THEN Reverse(ring) ELSE ring

ToTile(ring) == [i \in DOMAIN ring |-> <<ring[i][1] - Column * Span, ring[i][2]>>]

\* On the world tile a ring across the seam is drawn on both sides of it.
WrappedOffset(ring, xs) ==
    IF Columns # 1 \/ 2 * Width(Xs(ring)) <= World \/ 2 * Width(xs) >= World THEN 0
    ELSE IF Min(Range(xs)) < 0 THEN World
    ELSE IF Max(Range(xs)) > World THEN -World
    ELSE 0

from_mercator(hex) ==
    LET xs == PlacedXs(hex.ring)
    IN  IF EncirclesPole(hex.ring)
        THEN [ id |-> hex.id, props |-> hex.props, offset |-> 0,
               ring |-> orient_exterior(ToTile(PolarCap(hex.ring, MapEdge(hex.ring)))) ]
        ELSE [ id |-> hex.id, props |-> hex.props,
               offset |-> WrappedOffset(hex.ring, xs),
               ring |-> orient_exterior(
                          ToTile([i \in DOMAIN xs |-> <<xs[i], hex.ring[i][2]>>])) ]

-----------------------------------------------------------------------------
(* Values and their bytes.  A value is [type, p]: p is <<n>> for a number   *)
(* (the bits of a float) and the sequence of characters for a text.         *)

Value(type, p) == [type |-> type, p |-> p]
UInt(n) == Value("UInt", <<n>>)
Double(n) == Value("Double", <<n>>)

\* The least significant group first, all but the last marked.
write_varint(n) ==
    LET bytes[k \in 0 .. n] ==
            IF k < VarintBase THEN <<k>>
            ELSE <<VarintBase + (k % VarintBase)>> \o bytes[k \div VarintBase]
    IN  bytes[n]

zigzag_encode(n) == IF n >= 0 THEN 2 * n ELSE -2 * n - 1

fast_hex_u64(n) ==
    LET digits[k \in 0 .. n] ==
            IF k < 16 THEN <<k>> ELSE Append(digits[k \div 16], k % 16)
    IN  digits[n]

from_hex_u64(n) == Value("HexStr", fast_hex_u64(n))

IsText(v) == v.type \in {"String", "HexStr"}

\* PartialEq: a text is the same however it is held; floats by their bits.
SameValue(v, w) == (v.type = w.type \/ (IsText(v) /\ IsText(w))) /\ v.p = w.p

\* Hash: the value map only compares values that hash alike.
HashOf(v) ==
    <<IF IsText(v) THEN 0
      ELSE CHOOSE i \in 1 .. 5 : <<"Float", "Double", "Int", "UInt", "Bool">>[i] = v.type,
      v.p>>

\* write_to: field number, wire type and body.  Fixed-width bits stay one item.
write_to(v) ==
    CASE IsText(v) -> <<1, 2, write_varint(Len(v.p)) \o v.p>>
      [] v.type = "Float" -> <<2, 5, v.p>>
      [] v.type = "Double" -> <<3, 1, v.p>>
      [] v.type = "Int" -> <<4, 0, write_varint(v.p[1] % WordSize)>>
      [] v.type = "UInt" -> <<5, 0, write_varint(v.p[1])>>
      [] v.type = "Bool" -> <<7, 0, write_varint(v.p[1])>>

\* FeatureProperties: the keys and values of each of its three shapes, in the
\* order for_each_filtered visits them.
PropertyList(props) ==
    CASE props.shape = "Continuous" ->
           <<<<"h3_index", UInt(props.cell)>>, <<"h3_hex", from_hex_u64(props.cell)>>,
             <<"resolution", UInt(props.resolution)>>, <<"mean", Double(props.mean)>>,
             <<"sum", Double(props.sum)>>, <<"stddev", Double(props.stddev)>>,
             <<"count", Double(props.count)>>, <<"min", Double(props.min)>>,
             <<"max", Double(props.max)>>>>
      [] props.shape = "Categorical" ->
           <<<<"h3_index", UInt(props.cell)>>, <<"h3_hex", from_hex_u64(props.cell)>>,
             <<"resolution", UInt(props.resolution)>>,
             <<"majority", Value("Int", <<props.majority>>)>>,
             <<"majority_fraction", Double(props.fraction)>>,
             <<"distinct_classes", UInt(props.distinct)>>,
             <<"entropy", Double(props.entropy)>>, <<"count", Double(props.count)>>>>
      [] props.shape = "Generic" -> props.list

Filtered(props) == SelectSeq(PropertyList(props), LAMBDA p : p[1] \in Allowed)

-----------------------------------------------------------------------------
(* Encoding.  A feature is encoded as its tag pairs and its rings as deltas *)
(* from a cursor that is kept from one ring to the next.                    *)

IndexOf(s, v) == CHOOSE i \in DOMAIN s : s[i] = v

\* Identifiers are never shared; every other value is interned.
Interned(values, shared, p) ==
    LET own == p[1] \in {"h3_index", "h3_hex"}
        old == {i \in shared : HashOf(values[i]) = HashOf(p[2]) /\ SameValue(values[i], p[2])}
    IN  IF ~own /\ old # {}
        THEN [values |-> values, shared |-> shared, at |-> Min(old)]
        ELSE [values |-> Append(values, p[2]), at |-> Len(values) + 1,
              shared |-> IF own THEN shared ELSE shared \cup {Len(values) + 1}]

EncodeTag(state, p) ==
    LET ks == IF p[1] \in Range(state.keys) THEN state.keys
              ELSE Append(state.keys, p[1])
        v  == Interned(state.values, state.shared, p)
    IN  [ keys |-> ks, values |-> v.values, shared |-> v.shared,
          tags |-> state.tags \o write_varint(IndexOf(ks, p[1]) - 1)
                              \o write_varint(v.at - 1) ]

Rings(f) ==
    IF Len(f.ring) < 3 THEN <<>>
    ELSE IF f.offset = 0 THEN <<f.ring>>
    ELSE <<f.ring, [i \in DOMAIN f.ring |-> <<f.ring[i][1] + f.offset, f.ring[i][2]>>]>>

Command(id, count) == write_varint(id + 8 * count)
MoveTo == 1
LineTo == 2
ClosePath == 7

Delta(from, to) ==
    write_varint(zigzag_encode(to[1] - from[1])) \o write_varint(zigzag_encode(to[2] - from[2]))

\* One ring, from where the cursor stands.
EncodeRing(state, ring) ==
    [ cursor |-> Last(ring),
      bytes  |-> state.bytes \o Command(MoveTo, 1) \o Delta(state.cursor, ring[1])
                   \o Command(LineTo, Len(ring) - 1)
                   \o FlattenSeq([i \in 1 .. Len(ring) - 1 |-> Delta(ring[i], ring[i + 1])])
                   \o Command(ClosePath, 1) ]

EncodeRings(rings) ==
    FoldLeft(EncodeRing, [cursor |-> <<0, 0>>, bytes |-> <<>>], rings).bytes

EncodeFeature(state, f) ==
    LET tagged == FoldLeft(EncodeTag, [state.dict EXCEPT !.tags = <<>>], Filtered(f.props))
    IN  [ dict |-> tagged,
          out  |-> Append(state.out, [id |-> f.id, tags |-> tagged.tags,
                                      geometry |-> EncodeRings(Rings(f))]) ]

EncodeLayer(fs) ==
    LET done == FoldLeft(EncodeFeature,
             [dict |-> [keys |-> <<>>, values |-> <<>>, shared |-> {}, tags |-> <<>>],
              out  |-> <<>>], fs)
    IN  [ features |-> done.out, keys |-> done.dict.keys,
          values |-> [i \in DOMAIN done.dict.values |-> write_to(done.dict.values[i])] ]

-----------------------------------------------------------------------------
LayerInit == tile \in TileColumns /\ features = <<>> /\ seen = {} /\ added = <<>> /\ encoded = {}

AddHexagon(hex) ==
    /\ encoded = {} /\ Len(features) < MaxFeatures
    /\ features' = Append(features, from_mercator(hex))
    /\ seen' = seen \cup {hex.id}
    /\ added' = Append(added, hex)
    /\ UNCHANGED <<tile, encoded>>

\* A parent already drawn in this tile is not drawn again.
AddOrMergeHexagon(hex) ==
    /\ encoded = {} /\ Len(features) < MaxFeatures
    /\ seen' = seen \cup {hex.id}
    /\ IF hex.id \in seen THEN UNCHANGED <<features, added>>
       ELSE /\ features' = Append(features, from_mercator(hex))
            /\ added' = Append(added, hex)
    /\ UNCHANGED <<tile, encoded>>

Encode ==
    /\ encoded = {} /\ encoded' = {EncodeLayer(features)}
    /\ UNCHANGED <<tile, features, seen, added>>

LayerNext ==
    \/ \E hex \in Hexagons : AddHexagon(hex) \/ AddOrMergeHexagon(hex)
    \/ Encode

LayerSpec == LayerInit /\ [][LayerNext]_layerVars

-----------------------------------------------------------------------------
(* Reading a tile back.                                                    *)

\* The numbers in a run of varints.
ReadVarint(state, byte) ==
    LET n == state.n + state.unit * (byte % VarintBase)
    IN  IF byte >= VarintBase
        THEN [state EXCEPT !.n = n, !.unit = @ * VarintBase]
        ELSE [n |-> 0, unit |-> 1, out |-> Append(state.out, n)]
Varints(bytes) == FoldLeft(ReadVarint, [n |-> 0, unit |-> 1, out |-> <<>>], bytes).out

Unzigzag(n) == IF n % 2 = 0 THEN n \div 2 ELSE -((n + 1) \div 2)

\* One number of a geometry: a command, or a parameter of the last one.
ReadNumber(state, n) ==
    IF state.due = 0
    THEN CASE n % 8 = MoveTo    -> [state EXCEPT !.due = 2 * (n \div 8),
                                                 !.rings = Append(@, <<>>)]
           [] n % 8 = LineTo    -> [state EXCEPT !.due = 2 * (n \div 8)]
           [] n % 8 = ClosePath -> state
    ELSE IF state.due % 2 = 0
    THEN [state EXCEPT !.due = @ - 1, !.cursor[1] = @ + Unzigzag(n)]
    ELSE LET at == [state.cursor EXCEPT ![2] = @ + Unzigzag(n)]
         IN  [state EXCEPT !.due = @ - 1, !.cursor = at,
                           !.rings[Len(state.rings)] = Append(@, at)]
DecodedRings(bytes) ==
    FoldLeft(ReadNumber, [due |-> 0, cursor |-> <<0, 0>>, rings |-> <<>>],
             Varints(bytes)).rings

DecodedValue(w) ==
    LET n == Varints(w[3])[1]
    IN  CASE w[1] = 1 -> Value("String", Tail(w[3]))
          [] w[1] = 2 -> Value("Float", w[3])
          [] w[1] = 3 -> Value("Double", w[3])
          [] w[1] = 4 -> Value("Int", <<IF 2 * n >= WordSize THEN n - WordSize ELSE n>>)
          [] w[1] = 5 -> Value("UInt", <<n>>)
          [] w[1] = 7 -> Value("Bool", <<n>>)

DecodedProps(layer, f) ==
    LET pairs == Varints(f.tags)
    IN  [i \in 1 .. Len(pairs) \div 2 |->
            <<layer.keys[pairs[2 * i - 1] + 1],
              DecodedValue(layer.values[pairs[2 * i] + 1])>>]

\* How a reader sees a property: a hexadecimal index is a text.
Shown(p) == <<p[1], IF IsText(p[2]) THEN Value("String", p[2].p) ELSE p[2]>>

\* On the world tile its two edges are the same meridian, and a cap has both.
SameX(ring, x) ==
    IF (Columns = 1 \/ EncirclesPole(ring)) /\ x \in {0, World} THEN {0, World} ELSE {x}

\* polar_cap looks for the edge past the seam, and finds none when a vertex lies
\* on its western side; the last edge then only serves if that vertex is first.
SeamMissed(ring) ==
    LET east == Eastward(ring)
    IN  \E i \in 2 .. Len(ring) : east[i][1] = 0

\* The outline of a cap runs from one side of the map to the other and back only
\* along the map's edge, so that it does not cross itself.
IsCap(outline, edgeY) ==
    LET n       == Len(outline)
        next(i) == (i % n) + 1
        West(i) == outline[next(i)][1] < outline[i][1]
        East(i) == outline[next(i)][1] > outline[i][1]
        Back(i) == {outline[i], outline[next(i)]}
                     = {<<x - Column * Span, edgeY>> : x \in {0, World}}
    IN  \E i \in 1 .. n :
            /\ Back(i)
            /\ \/ West(i) /\ \A j \in 1 .. n : West(j) => j = i
               \/ East(i) /\ \A j \in 1 .. n : East(j) => j = i

\* A decoded layer gives back every hexagon added, once and in order, with
\* exactly the properties the filter allows; every vertex that lies in this
\* tile's column is drawn at its own place, also when the cell straddles the
\* antimeridian and the tile is on its far side, and the outline is an
\* exterior ring; a cell round a pole is a cap that reaches the northern or the
\* southern edge of the map, unless SeamMissed (from_mercator, polar_cap, encode).
LayerReads ==
    \A layer \in encoded :
        /\ Len(layer.features) = Len(added)
        /\ \A i \in DOMAIN added :
             LET f     == layer.features[i]
                 rings == DecodedRings(f.geometry)
                 shown == Filtered(added[i].props)
             IN  /\ f.id = added[i].id
                 /\ DecodedProps(layer, f) = [k \in DOMAIN shown |-> Shown(shown[k])]
                 /\ \A k \in DOMAIN rings : Area2(rings[k]) >= 0
                 /\ (EncirclesPole(added[i].ring) /\ ~SeamMissed(added[i].ring)) =>
                      Len(rings) = 1 /\ IsCap(rings[1], MapEdge(added[i].ring))
                 /\ \A j \in DOMAIN added[i].ring :
                      LET v == added[i].ring[j]
                      IN  TileX(v[1], World, Columns) = Column =>
                            \E x \in SameX(added[i].ring, v[1]), k \in DOMAIN rings :
                                <<x - Column * Span, v[2]>> \in Range(rings[k])
=============================================================================
