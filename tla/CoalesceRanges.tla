---------------------------- MODULE CoalesceRanges ----------------------------
(***************************************************************************)
(* coalesce_chunk_ranges of raster/remote_prefetch.rs: one pass over the   *)
(* chunks a remote mosaic needs, in reading order, that merges neighbours  *)
(* in the same file into one HTTP request.  A step is one turn of the      *)
(* loop.  Chunks lie inside their file, so that no offset overflows u64.   *)
(***************************************************************************)
EXTENDS Integers, Sequences

CONSTANTS Inputs,      \* the chunk lists considered
          MaxGap,      \* max_gap_bytes
          MaxRange     \* max_range_bytes

\* ChunkLocation and CoalescedRange; a chunk is named by its index.
Locations == [tile : Nat, chunk : Nat, offset : Nat, length : Nat]
Slices == [chunk : Nat, start : Nat, len : Nat]
CoalescedRanges == [tile : Nat, start : Nat, end : Nat, slices : Seq(Slices)]

ASSUME CoalesceAssumption ==
    /\ \A input \in Inputs : input \in Seq(Locations)
    /\ MaxGap \in Nat
    /\ MaxRange \in Nat

VARIABLES chunks,    \* the argument
          next,      \* the position of the loop
          current,   \* current_range: empty, or the range being built
          ranges,    \* the finished ranges
          done

coalesceVars == <<chunks, next, current, ranges, done>>

CoalesceInit ==
    /\ chunks \in Inputs
    /\ next = 1
    /\ current = <<>>
    /\ ranges = <<>>
    /\ done = FALSE

EndOf(loc) == loc.offset + loc.length - 1

\* Wrong: the merged length is not looked at.
JoinsAnyLength(curr, loc) ==
    /\ curr.tile = loc.tile
    /\ loc.offset > curr.end
    /\ loc.offset - (curr.end + 1) <= MaxGap

\* Wrong: a chunk that starts inside the range is merged too.
JoinsOverlapping(curr, loc) ==
    /\ curr.tile = loc.tile
    /\ loc.offset - (curr.end + 1) <= MaxGap
    /\ (EndOf(loc) + 1) - curr.start <= MaxRange

Joins(curr, loc) ==
    /\ curr.tile = loc.tile
    /\ loc.offset > curr.end
    /\ loc.offset - (curr.end + 1) <= MaxGap
    /\ (EndOf(loc) + 1) - curr.start <= MaxRange

InLoop == ~done /\ next <= Len(chunks)

SkipEmpty ==
    /\ InLoop
    /\ chunks[next].length = 0
    /\ next' = next + 1
    /\ UNCHANGED <<chunks, current, ranges, done>>

\* Wrong: the slice starts where the chunk starts in the file.
ExtendedUnshifted(curr, loc) ==
    [tile |-> curr.tile, start |-> curr.start, end |-> EndOf(loc),
     slices |-> Append(curr.slices, [chunk |-> loc.chunk, start |-> loc.offset,
                                     len |-> loc.length])]

Extended(curr, loc) ==
    [tile |-> curr.tile, start |-> curr.start, end |-> EndOf(loc),
     slices |-> Append(curr.slices, [chunk |-> loc.chunk, start |-> loc.offset - curr.start,
                                     len |-> loc.length])]

Extend ==
    /\ InLoop
    /\ chunks[next].length # 0
    /\ current # <<>>
    /\ Joins(current[1], chunks[next])
    /\ current' = <<Extended(current[1], chunks[next])>>
    /\ next' = next + 1
    /\ UNCHANGED <<chunks, ranges, done>>

RangeFor(loc) ==
    [tile |-> loc.tile, start |-> loc.offset, end |-> EndOf(loc),
     slices |-> <<[chunk |-> loc.chunk, start |-> 0, len |-> loc.length]>>]

\* The chunk starts a range of its own; the current one, if any, is finished.
Begin ==
    /\ InLoop
    /\ chunks[next].length # 0
    /\ current # <<>> => ~Joins(current[1], chunks[next])
    /\ ranges' = ranges \o current
    /\ current' = <<RangeFor(chunks[next])>>
    /\ next' = next + 1
    /\ UNCHANGED <<chunks, done>>

\* Wrong: the last range is forgotten.
FinishRangesForgets ==
    /\ ~done
    /\ next > Len(chunks)
    /\ current' = <<>>
    /\ done' = TRUE
    /\ UNCHANGED <<chunks, next, ranges>>

FinishRanges ==
    /\ ~done
    /\ next > Len(chunks)
    /\ ranges' = ranges \o current
    /\ current' = <<>>
    /\ done' = TRUE
    /\ UNCHANGED <<chunks, next>>

Returned == done /\ UNCHANGED coalesceVars

CoalesceNext == SkipEmpty \/ Extend \/ Begin \/ FinishRanges \/ Returned

CoalesceSpec == CoalesceInit /\ [][CoalesceNext]_coalesceVars

-----------------------------------------------------------------------------
(* Properties.                                                              *)

\* Every range built so far.
Built == ranges \o current

\* Every variable keeps its type.
CoalesceTypeOK ==
    /\ chunks \in Seq(Locations)
    /\ next \in 1 .. Len(chunks) + 1
    /\ current \in Seq(CoalescedRanges) /\ Len(current) <= 1
    /\ ranges \in Seq(CoalescedRanges)
    /\ done \in BOOLEAN

\* A slice of a response is exactly its chunk's bytes of the file, and lies inside
\* the response.  Decoders get these bytes without any further check.
IsChunk(range, slice) ==
    /\ slice.start + slice.len <= range.end - range.start + 1
    /\ \E j \in 1 .. next - 1 :
          /\ chunks[j].tile = range.tile
          /\ chunks[j].chunk = slice.chunk
          /\ chunks[j].offset = range.start + slice.start
          /\ chunks[j].length = slice.len

SlicesExact ==
    \A i \in 1 .. Len(Built) : \A s \in 1 .. Len(Built[i].slices) :
        IsChunk(Built[i], Built[i].slices[s])

\* A request covers its slices and nothing around them, in file order and without
\* overlap; no gap it downloads is longer than max_gap_bytes, and it exceeds
\* max_range_bytes only for the sake of a single chunk.
IsTight(range) ==
    /\ Len(range.slices) > 0
    /\ range.slices[1].start = 0
    /\ range.slices[Len(range.slices)].start + range.slices[Len(range.slices)].len
          = range.end - range.start + 1
    /\ \A s \in 1 .. Len(range.slices) - 1 :
          LET gap == range.slices[s + 1].start - (range.slices[s].start + range.slices[s].len)
          IN  0 <= gap /\ gap <= MaxGap
    /\ Len(range.slices) > 1 => range.end - range.start + 1 <= MaxRange

RangesTight == \A i \in 1 .. Len(Built) : IsTight(Built[i])

=============================================================================
