----------------------------- MODULE ChunkDecode -----------------------------
(***************************************************************************)
(* From a chunk's bytes to its samples (raster/geotiff.rs, predictor.rs):  *)
(* sparse chunks, the in-place and the scratch decoding paths, the         *)
(* standard decoder behind them, byte order, predictors, clipping of edge  *)
(* tiles and the recycled buffer that is written over.                     *)
(*                                                                         *)
(* A byte is 0 .. Base - 1.  A sample of n bytes is its value, a float its *)
(* bit pattern; 1 - x on floats is an involution on the bit patterns.      *)
(* A layout is                                                             *)
(*   [tile, tw, th, dw, dh, spp, n, kind, little, predictor, white, method]*)
(* tile (else strip), allocated and valid size, bands, bytes per sample,   *)
(* "uint" / "int" / "float", and the codec "none", "deflate", "lzw" or     *)
(* "other".  Compressed bytes stand for themselves.  Decoded samples are   *)
(* a buffer [type |-> <<kind, n>>, v].  A result, and a buffer or payload  *)
(* that may be missing, is a set of at most one element; an error is {}.   *)
(***************************************************************************)
EXTENDS Integers, Sequences, SequencesExt, FiniteSetsExt

CONSTANTS Base,      \* values of a byte
          Lanes,     \* bytes of a vector register
          None       \* no nodata value

Power(n) == LET p[k \in 0 .. n] == IF k = 0 THEN 1 ELSE Base * p[k - 1] IN p[n]

Blocks(s, n) == [i \in 1 .. Len(s) \div n |-> SubSeq(s, (i - 1) * n + 1, i * n)]
Concat(ss) == FoldLeft(LAMBDA a, b : a \o b, <<>>, ss)

\* from_le_bytes / from_be_bytes.
FromBytes(b, little) ==
  FoldLeft(LAMBDA v, x : Base * v + x, 0, IF little THEN Reverse(b) ELSE b)

\* The bytes of a value, in memory (little) and in a file.
ToBytes(v, n, little) ==
  LET be == [i \in 1 .. n |-> (v \div Power(n - i)) % Base]
  IN  IF little THEN Reverse(be) ELSE be

\* Vec::resize keeps what is there; a copy to the front leaves the rest alone.
Resize(v, length, x) == [i \in 1 .. length |-> IF i <= Len(v) THEN v[i] ELSE x]
Overwrite(old, new) == [i \in DOMAIN old |-> IF i <= Len(new) THEN new[i] ELSE old[i]]

InvertWhiteIsZero(v, kind, n) == IF kind = "int" THEN v ELSE Power(n) - 1 - v

-----------------------------------------------------------------------------
\* Predictors.

\* Each value adds the one `step` before it, within a row of wrapping values.
RunningSum(row, step, modulus) ==
  LET sum[i \in 1 .. Len(row)] ==
        IF i <= step THEN row[i] ELSE (row[i] + sum[i - step]) % modulus
  IN  [i \in 1 .. Len(row) |-> sum[i]]

\* The NEON kernel: log steps of shifted adds inside a register, a carry from
\* register to register, and a scalar tail.
VectorSum(row, modulus) ==
  LET full == (Len(row) \div Lanes) * Lanes
      Shifted(v, k) == [i \in 1 .. Lanes |-> IF i <= k THEN 0 ELSE v[i - k]]
      Add(v, w) == [i \in 1 .. Lanes |-> (v[i] + w[i]) % modulus]
      Prefix(v) == FoldLeft(LAMBDA w, k : Add(w, Shifted(w, k)), v,
                            SelectSeq(<<1, 2, 4, 8>>, LAMBDA k : k < Lanes))
      Register(acc, v) ==
        LET carry == IF acc = <<>> THEN 0 ELSE Last(acc)
        IN  acc \o [i \in 1 .. Lanes |-> (Prefix(v)[i] + carry) % modulus]
      head == FoldLeft(Register, <<>>, Blocks(SubSeq(row, 1, full), Lanes))
      Tail0(acc, x) == Append(acc, (x + (IF acc = <<>> THEN 0 ELSE Last(acc))) % modulus)
  IN  FoldLeft(Tail0, head, SubSeq(row, full + 1, Len(row)))

\* Unsigned 8 and 16 bit samples of one band use the vector kernel.
ApplyHorizontalPredictor(row, L, neon) ==
  IF neon /\ L.spp = 1 /\ L.kind = "uint" /\ L.n <= 2
  THEN VectorSum(row, Power(L.n)) ELSE RunningSum(row, L.spp, Power(L.n))

\* Undo the byte differences of a row, then take one byte of each plane, most
\* significant plane first; `count` samples are wanted.
FpPredict(row, L, count, neon) ==
  LET b == IF neon /\ L.spp = 1 THEN VectorSum(row, Base) ELSE RunningSum(row, L.spp, Base)
      plane == Len(row) \div L.n
  IN  [i \in 1 .. count |-> FromBytes([k \in 1 .. L.n |-> b[(k - 1) * plane + i]], FALSE)]

\* The register shuffle that interleaves eight planes of 16 bytes: zip1 / zip2
\* take the lower / upper halves, by elements of w bytes.
ZipLanes(a, b, w, upper) ==
  LET m == 16 \div (2 * w)
      off == IF upper THEN m ELSE 0
      A == Blocks(a, w) B == Blocks(b, w)
  IN  Concat([i \in 1 .. 2 * m |-> IF i % 2 = 1 THEN A[off + (i + 1) \div 2] ELSE B[off + i \div 2]])

InterleaveEight(v) ==
  LET P(hi, lo, up) == ZipLanes(v[hi], v[lo], 1, up)
      W(up8, up16, top) ==
        IF top THEN ZipLanes(P(8, 7, up8), P(6, 5, up8), 2, up16)
        ELSE ZipLanes(P(4, 3, up8), P(2, 1, up8), 2, up16)
      D(up8, up16, up32) == ZipLanes(W(up8, up16, TRUE), W(up8, up16, FALSE), 4, up32)
  IN  Concat([i \in 1 .. 8 |-> D(i > 4, ((i - 1) \div 2) % 2 = 1, i % 2 = 0)])

-----------------------------------------------------------------------------
\* Unpacking decompressed bytes.

\* ChunkEncoding::validate; predictor 3 needs the padding of the last row too.
ValidLayout(L, srcLen) ==
  LET stride == L.tw * L.spp * L.n
      last == IF L.predictor = "float" THEN stride ELSE L.dw * L.spp * L.n
  IN  /\ L.spp > 0 /\ L.dw > 0 /\ L.dh > 0 /\ L.dw <= L.tw
      /\ srcLen >= stride * (L.dh - 1) + last

UnpackRow(src, L, r, neon) ==
  LET stride == L.tw * L.spp * L.n
      kept == L.dw * L.spp
      row == SubSeq(src, (r - 1) * stride + 1, r * stride)
      plain == [i \in 1 .. kept |-> FromBytes(SubSeq(row, (i - 1) * L.n + 1, i * L.n), L.little)]
      samples == CASE L.predictor = "float" -> FpPredict(row, L, kept, neon)
                   [] L.predictor = "horizontal" -> ApplyHorizontalPredictor(plain, L, neon)
                   [] OTHER -> plain
  IN  [i \in 1 .. kept |-> IF L.white THEN InvertWhiteIsZero(samples[i], L.kind, L.n) ELSE samples[i]]

UnpackRows(src, L, neon) == Concat([r \in 1 .. L.dh |-> UnpackRow(src, L, r, neon)])

\* Integers ignore predictor 3.
unpack_integer_samples(src, L, neon) ==
  LET M == IF L.predictor = "float" THEN [L EXCEPT !.predictor = "none"] ELSE L
  IN  IF ValidLayout(M, Len(src)) THEN {UnpackRows(src, M, neon)} ELSE {}

\* Floats refuse predictor 2.
unpack_f32(src, L, neon) ==
  IF ValidLayout(L, Len(src)) /\ L.predictor # "horizontal"
  THEN {UnpackRows(src, L, neon)} ELSE {}

unpack_f64(src, L, neon) ==
  IF ValidLayout(L, Len(src)) /\ L.predictor # "horizontal"
  THEN {UnpackRows(src, L, neon)} ELSE {}

\* The sample types with a kernel of their own.
Unpack(src, L, neon) ==
  CASE L.kind # "float" /\ L.n \in {1, 2, 4, 8} -> unpack_integer_samples(src, L, neon)
    [] L.kind = "float" /\ L.n = 4 -> unpack_f32(src, L, neon)
    [] L.kind = "float" /\ L.n = 8 -> unpack_f64(src, L, neon)
    [] OTHER -> {}

-----------------------------------------------------------------------------
\* Decompression.  A payload is [bytes, sound]; unsound bytes do not inflate.

\* open_decoder makes the decompressor that the file's compression needs, and keeps
\* it for every chunk.
open_decoder(method) == [libdeflater |-> method = "deflate", lzw |-> method = "lzw"]

\* decode_chunk_bytes_into: written over the old bytes of `out'.  Raw and LZW must have
\* at least as many; deflate must fill it exactly, and fails when its output does not fit.
DecodeChunkBytesInto(decoder, method, payload, out) ==
  LET filled == CASE method = "none" -> Len(payload.bytes) >= Len(out)
                  [] method = "lzw" -> decoder.lzw /\ payload.sound /\ Len(payload.bytes) >= Len(out)
                  [] method = "deflate" -> decoder.libdeflater /\ payload.sound
                                            /\ Len(payload.bytes) = Len(out)
                  [] OTHER -> FALSE
  IN  IF filled THEN {Overwrite(out, payload.bytes)} ELSE {}

RawChunkBytes(L) == L.tw * (IF L.tile THEN L.th ELSE L.dh) * L.spp * L.n

CanDirectDecode(L) == L.tw = L.dw /\ L.predictor = "none" /\ L.little /\ ~L.white

\* The types that are decoded in place.
DirectType(L) == L.n \in {1, 2, 4} /\ ~(L.kind = "int" /\ L.n = 1) /\ ~(L.kind = "float" /\ L.n # 4)

Type(L) == <<L.kind, L.n>>

\* decompress_chunk_fast_bytes.  A recycled buffer of the chunk's type is resized, old
\* samples and all, and decoded into; else a new one is.  The decoder's scratch space
\* still holds the bytes of an earlier chunk.
DecompressFast(L, payload, buffer, scratch, neon) ==
  LET total == L.dw * L.dh * L.spp
      recycled == {b \in buffer : b.type = Type(L)}
      old == IF recycled = {} THEN <<>> ELSE (CHOOSE b \in recycled : TRUE).v
      target == Resize(old, total, 0)
      decoder == open_decoder(L.method)
      direct == DecodeChunkBytesInto(decoder, L.method, payload,
                                     Concat([i \in 1 .. total |-> ToBytes(target[i], L.n, TRUE)]))
      raw == DecodeChunkBytesInto(decoder, L.method, payload, Resize(scratch, RawChunkBytes(L), 0))
      samples == IF CanDirectDecode(L) /\ DirectType(L)
                 THEN {[i \in 1 .. total |-> FromBytes(Blocks(out, L.n)[i], TRUE)] : out \in direct}
                 ELSE UNION {Unpack(out, L, neon) : out \in raw}
  IN  {[type |-> Type(L), v |-> Overwrite(target, v)] : v \in samples}

SparseChunk(offset, bytes) == offset = 0 \/ bytes = 0

\* `nodata as T' saturates; without a nodata value integers are zero, floats NaN (all
\* ones, as a bit pattern).
Cast(nodata, type) ==
  LET top == Power(type[2]) - 1
      Clamp(lo, hi) == Max({lo, Min({hi, nodata})})
  IN  CASE type[1] = "float" -> IF nodata = None THEN top ELSE nodata % (top + 1)
        [] nodata = None -> 0
        [] type[1] = "uint" -> Clamp(0, top)
        [] type[1] = "int" -> Clamp(-(top \div 2), top \div 2) % (top + 1)

\* A sparse chunk is all nodata, in the type of the recycled buffer (half floats are
\* widened), or in the file's when there is none.
SparseFill(L, buffer, nodata) ==
  LET total == L.dw * L.dh * L.spp
      Own(type) == IF type = <<"float", 2>> THEN <<"float", 4>> ELSE type
      type == IF buffer = {} THEN Own(Type(L)) ELSE Own((CHOOSE b \in buffer : TRUE).type)
      cleared == <<>>
  IN  [type |-> type, v |-> Resize(cleared, total, Cast(nodata, type))]

-----------------------------------------------------------------------------
\* A file is [bytes, sound, offsets, counts]: its bytes, whether its compressed data
\* inflates, and the arrays that say where each chunk is.

\* The bytes of chunk i, from the map of a local file or by read_exact_range from a
\* remote one: none when the arrays or the file end before them.
get_chunk_payload(file, i) ==
  IF i \in DOMAIN file.offsets /\ i \in DOMAIN file.counts
       /\ file.offsets[i] + file.counts[i] <= Len(file.bytes)
  THEN {[bytes |-> SubSeq(file.bytes, file.offsets[i] + 1, file.offsets[i] + file.counts[i]),
         sound |-> file.sound]}
  ELSE {}

\* The tiff crate's own decoder (external) reads the file itself and decodes every
\* sound, complete chunk, into a new buffer or, reshaped, into the one it is given.
InnerDecoder(L, file, i, image) ==
  {[type |-> Type(L), v |-> image] :
     p \in {p \in get_chunk_payload(file, i) : p.sound /\ Len(p.bytes) >= RawChunkBytes(L)}}

\* Into the recycled buffer, or else into a new one.
read_chunk_fallback_into(L, file, i, image) == InnerDecoder(L, file, i, image)

\* An error of the fast path falls through to the fallback.
OrElse(result, other) == IF result # {} THEN result ELSE other

\* read_chunk_with_payload.  `provided' is the payload of the prefetch queue, if any; an
\* empty one is a sparse chunk.  Errors of the fast path fall through.
ReadChunk(L, provided, file, i, image, buffer, scratch, nodata, neon) ==
  LET payload == IF provided # {} THEN provided ELSE get_chunk_payload(file, i)
      outside == provided = {} /\ ~(i \in DOMAIN file.offsets /\ i \in DOMAIN file.counts)
      sparse == IF provided # {} THEN \E p \in provided : p.bytes = <<>>
                ELSE SparseChunk(file.offsets[i], file.counts[i])
      fast == UNION {DecompressFast(L, p, buffer, scratch, neon) : p \in payload}
  IN  IF outside THEN {}
      ELSE IF sparse THEN {SparseFill(L, buffer, nodata)}
      ELSE OrElse(fast, read_chunk_fallback_into(L, file, i, image))

-----------------------------------------------------------------------------
\* A writer's chunk for an image: image[r][c * spp + b] for the valid region,
\* padding elsewhere.  External: it follows the TIFF specification.
Differences(row, step, modulus) ==
  [i \in 1 .. Len(row) |-> IF i <= step THEN row[i] ELSE (row[i] - row[i - step]) % modulus]

WriteRow(values, L) ==
  LET stored == [i \in DOMAIN values |->
                   IF L.white THEN InvertWhiteIsZero(values[i], L.kind, L.n) ELSE values[i]]
      be == [i \in DOMAIN stored |-> ToBytes(stored[i], L.n, FALSE)]
      planes == Concat([k \in 1 .. L.n |-> [i \in DOMAIN stored |-> be[i][k]]])
      diff == IF L.predictor = "horizontal" THEN Differences(stored, L.spp, Power(L.n)) ELSE stored
  IN  IF L.predictor = "float" THEN Differences(planes, L.spp, Base)
      ELSE Concat([i \in DOMAIN diff |-> ToBytes(diff[i], L.n, L.little)])

\* The whole allocated chunk, as the values At(row, index) make it.
WriteChunk(L, At(_, _)) ==
  Concat([r \in 1 .. IF L.tile THEN L.th ELSE L.dh |->
            WriteRow([i \in 1 .. L.tw * L.spp |-> At(r, i)], L)])

\* What the chunk's valid region holds.
Region(L, At(_, _)) ==
  Concat([r \in 1 .. L.dh |-> [i \in 1 .. L.dw * L.spp |-> At(r, i)]])

\* What a chunk read [layout, cut, sound, neon, where, buffer, scratch, nodata] must
\* give.  Whatever the layout, codec, predictor and byte order, a chunk written by the
\* specification is read back sample for sample, in the file's type.  A payload cut short
\* or unsound, in the prefetch queue, in the file's arrays or by the end of the file, gives
\* the same samples (when only padding is missing, or the file itself is whole) or an
\* error; a sparse chunk is as long as its region and all nodata; and a chunk the arrays do
\* not list is an error.  The recycled buffer, of any length and type, and the scratch space
\* hold other samples before, and none of them is seen.
ReadsBack(c, At(_, _)) ==
  \E L \in {c.layout}, whole \in {WriteChunk(c.layout, At)}, region \in {Region(c.layout, At)} :
    LET short == SubSeq(whole, 1, Len(whole) - c.cut)
        provided == IF c.where = "queue" THEN {[bytes |-> short, sound |-> c.sound]} ELSE {}
        file == [bytes |-> <<0>> \o (IF c.where = "file" THEN short ELSE whole),
                 sound |-> c.sound \/ c.where = "queue",
                 offsets |-> CASE c.where = "sparse" -> <<0>> [] c.where = "outside" -> <<>> [] OTHER -> <<1>>,
                 counts |-> CASE c.where = "sparse" -> <<0>> [] c.where = "outside" -> <<>>
                              [] OTHER -> <<Len(whole) - IF c.where = "array" THEN c.cut ELSE 0>>]
        holes == c.where = "sparse" \/ (c.cut >= Len(whole) /\ c.where \in {"queue", "array"})
        types == {b.type : b \in c.buffer} \cup {Type(L)}
        failed == c.where # "queue" /\ ~(c.cut = 0 /\ c.sound)
    IN  \E got \in {ReadChunk(L, provided, file, 1, region, c.buffer, c.scratch, c.nodata, c.neon)} :
          IF c.where = "outside" THEN got = {}
          ELSE IF holes
          THEN \E type \in types :
                 got = {[type |-> type, v |-> [i \in DOMAIN region |-> Cast(c.nodata, type)]]}
          ELSE got = {[type |-> Type(L), v |-> region]} \/ (got = {} /\ failed)

\* The vector shuffle builds each double from its eight planes.
ShuffleExact ==
  LET planes == [k \in 1 .. 8 |-> [i \in 1 .. 16 |-> <<k, i>>]]
  IN  InterleaveEight(planes) = Concat([i \in 1 .. 16 |-> [k \in 1 .. 8 |-> <<9 - k, i>>]])
=============================================================================
