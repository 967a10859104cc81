---------------------------- MODULE HorizonStreamer ---------------------------
(***************************************************************************)
(* aggregator/multi_horizon/controller.rs with sharded_map.rs, spill.rs    *)
(* and lifecycle.rs: the streamer merges decoded chunks into one map of    *)
(* active cells per resolution, finalizes the cells the horizon has        *)
(* passed, spills a map that exceeds its budget to disk, and emits what is *)
(* left, sorted, at the end of the raster.                                 *)
(*                                                                         *)
(* One action is one turn of a loop of advance_inner or of a function it   *)
(* calls; the loops run on one thread and nothing interleaves with them.   *)
(* Latitudes are integers, and a chunk adds one sample to every cell it    *)
(* touches.  Byte budgets are counts: cells of a map, buffered records.    *)
(***************************************************************************)
EXTENDS Integers, Sequences, FiniteSets

-----------------------------------------------------------------------------
(***************************************************************************)
(* aggregator/multi_horizon/compaction.rs: finished cells wait for their   *)
(* siblings; a complete group becomes one record of the parent cell, an    *)
(* incomplete one is decomposed into its children.                         *)
(*                                                                         *)
(* The compactor is a value, [pending, output]: pending[p] is the list of  *)
(* the children waiting in the group of p (empty when there is no group),  *)
(* output is the streamer's output buffer.  An accumulator is the number   *)
(* of samples merged into it; a record carries the accumulators it was     *)
(* merged from.  The two lazily invalidated heaps are the maxima they      *)
(* compute.                                                                *)
(***************************************************************************)

CONSTANTS Cells,        \* streamed cells, as their (ordered) H3 indexes
          NoParent,
          Parent,       \* parent of a cell, NoParent where it is not compacted
          South,        \* southern latitude of every cell and parent
          NegInf,       \* f64::NEG_INFINITY
          MinCount      \* the kernel's filter: fewer samples are dropped

Parents == {Parent[c] : c \in Cells} \ {NoParent}

\* The logical children of a parent, with data or without.
Children(p) == {c \in Cells : Parent[c] = p}

ASSUME CompactorAssumption ==
    /\ Cells \subseteq Nat
    /\ IsFiniteSet(Cells)
    /\ DOMAIN Parent = Cells
    /\ Cells \cap Parents = {}
    /\ NegInf \in Int
    /\ South \in [Cells \cup Parents -> Int]
    /\ \A x \in Cells \cup Parents : NegInf < South[x]
    /\ MinCount \in Nat
    \* Sorting by index keeps siblings together.
    /\ \A a, b, c \in Cells :
          a < b /\ b < c /\ Parent[a] = Parent[c] => Parent[b] = Parent[a]
    \* Some child of a cell starts at least as far north.
    /\ \A p \in Parents : \E c \in Children(p) : South[p] <= South[c]

Acc(cell, n) == [cell |-> cell, n |-> n]

Record(cell, accs) == [cell |-> cell, of |-> accs]

PendingParents(s) == {p \in Parents : s.pending[p] # <<>>}

\* Southern bound of every logical child of p.
SiblingsSouth(p) == CHOOSE lat \in {South[c] : c \in Children(p)} :
                        \A c \in Children(p) : lat <= South[c]

\* Wrong: the decomposed group stays pending.
FlushParentKeeps(s, p) ==
    [s EXCEPT !.output = @ \o [i \in DOMAIN s.pending[p] |->
                    Record(s.pending[p][i].cell, <<s.pending[p][i]>>)]]

\* flush_parent: decompose the group of p, if there is one.
FlushParent(s, p) ==
    [pending |-> [s.pending EXCEPT ![p] = <<>>],
     output |-> s.output \o [i \in DOMAIN s.pending[p] |->
                    Record(s.pending[p][i].cell, <<s.pending[p][i]>>)]]

\* Add a child to its group; the last sibling turns the group into one record
\* of the parent.
JoinGroup(s, p, acc) ==
    LET group == Append(s.pending[p], acc)
    IN  IF Len(group) = Cardinality(Children(p))
        THEN [pending |-> [s.pending EXCEPT ![p] = <<>>],
              output |-> Append(s.output, Record(p, group))]
        ELSE [s EXCEPT !.pending[p] = group]

\* push_cell, up to the enforcement of the byte limit.
PushCell(s, cell, n) ==
    IF n < MinCount
    THEN s
    ELSE IF Parent[cell] = NoParent
    THEN [s EXCEPT !.output = Append(@, Record(cell, <<Acc(cell, n)>>))]
    ELSE JoinGroup(s, Parent[cell], Acc(cell, n))

\* The heap's first among `ps': the group with the northernmost southern bound.
IsNorthernmost(p, ps) ==
    p \in ps /\ \A q \in ps : SiblingsSouth(q) <= SiblingsSouth(p)

\* The groups flush_completed may decompose: every logical child lies north of
\* the horizon, and none of them can still be waiting on disk.
Completed(s, horizon, deferred) ==
    {p \in PendingParents(s) :
        SiblingsSouth(p) > horizon /\ Children(p) \cap deferred = {}}

\* Southern bounds of the records p's group may still emit.
EmitLats(s, p) ==
    {South[p]} \cup {South[s.pending[p][i].cell] : i \in DOMAIN s.pending[p]}

\* Wrong: held groups are not considered.
PendingEmitSouthNone(s) == NegInf

\* pending_emit_south: a published horizon must not pass it.
PendingEmitSouth(s) ==
    LET lats == (UNION {EmitLats(s, p) : p \in PendingParents(s)}) \cup {NegInf}
    IN  CHOOSE lat \in lats : \A l \in lats : l <= lat

-----------------------------------------------------------------------------
(* The streamer.                                                           *)

CONSTANTS NumRes,        \* resolutions, numbered in configuration order
          Res,           \* resolution of a cell
          Boundary,      \* cells chunks of other partitions may also reach
          Chunks,        \* number of chunks the prefetcher delivers
          PosInf,        \* f64::INFINITY
          Rasters,       \* the rasters considered, see IsRaster
          MapBudget,     \* cells of a map that reach map_budget
          OutputLimit,   \* records that reach output_byte_limit
          BatchMax,      \* longest batch
          MaxRows,       \* rows a caller asks for: 1 .. MaxRows
          CanForce,      \* compaction_budget_bytes is set
          CanFail        \* prefetch, merge or I/O errors happen

\* touch[k]: the cells with samples in chunk k.  north[k]: the bound of
\* eviction_north_bound, which covers the chunk (PosInf where the projection
\* has none); a cell starts south of every sample it contains.
IsRaster(r) ==
    /\ r.touch \in [1 .. Chunks -> SUBSET Cells]
    /\ r.north \in [1 .. Chunks -> Int]
    /\ \A k \in 1 .. Chunks :
          /\ NegInf < r.north[k] /\ r.north[k] <= PosInf
          /\ \A c \in r.touch[k] : South[c] <= r.north[k]

ASSUME StreamerAssumption ==
    /\ NumRes \in Nat \ {0}
    /\ Res \in [Cells -> 1 .. NumRes]
    /\ \A c, d \in Cells : Parent[c] = Parent[d] /\ Parent[c] # NoParent
                           => Res[c] = Res[d]
    /\ Boundary \subseteq Cells
    /\ Chunks \in Nat
    /\ PosInf \in Int /\ NegInf < PosInf
    /\ \A x \in DOMAIN South : South[x] < PosInf
    /\ \A r \in Rasters : IsRaster(r)
    /\ MapBudget \in Nat \ {0}
    /\ OutputLimit \in Nat \ {0}
    /\ BatchMax \in Nat \ {0}
    /\ MaxRows \in Nat \ {0}
    /\ CanForce \in BOOLEAN /\ CanFail \in BOOLEAN

VARIABLES raster,       \* the raster being read; it never changes
          phase,        \* where advance_inner is; "idle" between calls
          rows,         \* rows the current call asks for
          lifecycle,    \* running, finished or failed
          processed,    \* chunks merged
          batchEnd,     \* chunks merged once the current batch is
          todo,         \* <<chunk, cell>> of the batch not yet merged
          active,       \* active[c]: samples of c in its resolution's map
          tracked,      \* resolutions whose map keeps eviction keys
          disk,         \* disk[c]: samples of c in spilled runs
          spilled,      \* resolutions with spilled runs
          evictionHorizon,
          currentHorizon,    \* the horizon published to the caller
          finishing,         \* the prefetcher is drained
          finalRes,          \* resolutions whose final stream was opened
          reader,            \* samples left in the open final stream
          reading,           \* a final stream is open
          compactionParent,  \* parent of the last cell of the final stream
          flushed,           \* flush_completed has emitted something
          pending, output,   \* the compactor and the output buffer
          partials,          \* boundary cells awaiting the caller
          delivered,         \* every record and partial returned to the caller
          seen               \* southernmost horizon the caller has read

streamVars == <<processed, batchEnd, todo, active, tracked, disk, spilled>>
horizonVars == <<evictionHorizon, currentHorizon, seen>>
finalVars == <<finishing, finalRes, reader, reading, compactionParent>>
outVars == <<pending, output, partials, delivered>>
callVars == <<phase, rows, lifecycle, flushed>>
vars == <<raster, callVars, streamVars, horizonVars, finalVars, outVars>>

Nothing == [c \in Cells |-> 0]

NoCells(f) == \A c \in Cells : f[c] = 0

Touch(k) == raster.touch[k]
North(k) == raster.north[k]

\* suffix_max_north_lat[k]: no chunk after the first k reaches further north.
SuffixMaxNorthLat(k) ==
    LET lats == {North(j) : j \in k + 1 .. Chunks} \cup {NegInf}
    IN  CHOOSE lat \in lats : \A l \in lats : l <= lat

CanEvictEarly == \E k \in 0 .. Chunks - 1 : SuffixMaxNorthLat(k) < PosInf

Init ==
    /\ raster \in Rasters
    /\ phase = "idle"
    /\ rows = 0
    /\ lifecycle = "running"
    /\ processed = 0
    /\ batchEnd = 0
    /\ todo = {}
    /\ active = Nothing
    /\ tracked = IF CanEvictEarly THEN 1 .. NumRes ELSE {}
    /\ disk = Nothing
    /\ spilled = {}
    /\ evictionHorizon = PosInf
    /\ currentHorizon = PosInf
    /\ finishing = FALSE
    /\ finalRes = 0
    /\ reader = Nothing
    /\ reading = FALSE
    /\ compactionParent = NoParent
    /\ flushed = FALSE
    /\ pending = [p \in Parents |-> <<>>]
    /\ output = <<>>
    /\ partials = <<>>
    /\ delivered = <<>>
    /\ seen = PosInf

-----------------------------------------------------------------------------
(* Emission.                                                                *)

Compactor == [pending |-> pending, output |-> output]

SetCompactor(s) == pending' = s.pending /\ output' = s.output

\* In the sorted final stream a new parent ends the previous one's group.
PreviousGroupFlushed(cell) ==
    IF finishing /\ compactionParent \notin {NoParent, Parent[cell]}
    THEN FlushParent(Compactor, compactionParent)
    ELSE Compactor

\* emit_final: a boundary cell is handed on unfiltered, any other cell goes
\* through the compactor.
EmitFinal(cell, n) ==
    /\ IF cell \in Boundary
       THEN /\ partials' = Append(partials, Record(cell, <<Acc(cell, n)>>))
            /\ phase' = "head"
            /\ UNCHANGED <<pending, output, compactionParent>>
       ELSE /\ SetCompactor(PushCell(PreviousGroupFlushed(cell), cell, n))
            /\ compactionParent' = IF finishing THEN Parent[cell] ELSE compactionParent
            /\ phase' = IF CanForce THEN "limit" ELSE "head"
            /\ UNCHANGED partials
    /\ UNCHANGED <<rows, lifecycle, flushed, delivered, horizonVars>>

\* enforce_limit: whether the estimate still exceeds the budget depends on
\* table and heap capacities, so each turn may go either way.
EnforceLimit ==
    /\ phase = "limit"
    /\ \/ phase' = "head" /\ UNCHANGED <<pending, output>>
       \/ \E p \in Parents :
             /\ IsNorthernmost(p, PendingParents(Compactor))
             /\ SetCompactor(FlushParent(Compactor, p))
             /\ UNCHANGED phase
    /\ UNCHANGED <<rows, lifecycle, flushed, partials, delivered,
                   streamVars, horizonVars, finalVars>>

-----------------------------------------------------------------------------
(* The calls: fetch_next_batch, drain_completed_into and                    *)
(* drain_partitioned_into advance the stream, then hand out up to `rows'.   *)

Buffered == Len(output) + Len(partials)

KeepsAdvancing ==
    /\ Buffered < rows
    /\ lifecycle # "finished"
    /\ Buffered = 0 \/ Buffered < OutputLimit

EndOfStream == lifecycle = "finished" /\ Buffered = 0

Call ==
    /\ phase = "idle"
    /\ lifecycle # "failed"
    /\ ~EndOfStream
    /\ rows' \in 1 .. MaxRows
    /\ phase' = "head"
    /\ UNCHANGED <<lifecycle, flushed, streamVars, horizonVars, finalVars, outVars>>

Least(a, b) == IF a <= b THEN a ELSE b

\* current_lat_horizon, with this many records still buffered.
CurrentLatHorizon(left) ==
    IF lifecycle = "finished" /\ left = 0 THEN NegInf ELSE currentHorizon

Return ==
    LET records == Least(rows, Len(output))
        parts == Least(rows - records, Len(partials))
    IN  /\ phase = "head"
        /\ ~KeepsAdvancing
        /\ delivered' = delivered \o SubSeq(output, 1, records) \o SubSeq(partials, 1, parts)
        /\ output' = SubSeq(output, records + 1, Len(output))
        /\ partials' = SubSeq(partials, parts + 1, Len(partials))
        /\ seen' = Least(seen, CurrentLatHorizon(Buffered - records - parts))
        /\ phase' = "idle"
        /\ UNCHANGED <<rows, lifecycle, flushed, streamVars, evictionHorizon,
                       currentHorizon, finalVars, pending>>

\* fail: everything is dropped and the failure is latched.
Fail ==
    /\ CanFail
    /\ lifecycle' = "failed"
    /\ phase' = "idle"
    /\ pending' = [p \in Parents |-> <<>>]
    /\ output' = <<>>
    /\ partials' = <<>>
    /\ active' = Nothing
    /\ disk' = Nothing
    /\ spilled' = {}
    /\ todo' = {}
    /\ reader' = Nothing
    /\ reading' = FALSE
    /\ UNCHANGED <<rows, flushed, processed, batchEnd, tracked, horizonVars,
                   finishing, finalRes, compactionParent, delivered>>

Advancing == phase = "head" /\ KeepsAdvancing

-----------------------------------------------------------------------------
(* Before the end of the raster.                                            *)

MapOf(r) == {c \in Cells : Res[c] = r /\ active[c] > 0}

\* Wrong: a cell that ends exactly at the horizon may still get samples.
EvictableAtHorizon(r) ==
    {c \in MapOf(r) : r \in tracked \ spilled /\ South[c] >= evictionHorizon}

\* pop_completed: cells of an unspilled map whose southern edge the horizon
\* has passed.
Evictable(r) ==
    {c \in MapOf(r) : r \in tracked \ spilled /\ South[c] > evictionHorizon}

PopCompleted ==
    /\ Advancing
    /\ ~finishing
    /\ CanEvictEarly
    /\ \E c \in Cells :
          /\ c \in Evictable(Res[c])
          /\ \A r \in 1 .. Res[c] - 1 : Evictable(r) = {}
          /\ EmitFinal(c, active[c])
          /\ active' = [active EXCEPT ![c] = 0]
    /\ UNCHANGED <<processed, batchEnd, todo, tracked, disk, spilled,
                   finishing, finalRes, reader, reading>>

NothingToPop ==
    /\ Advancing
    /\ ~finishing
    /\ CanEvictEarly => \A r \in 1 .. NumRes : Evictable(r) = {}
    /\ phase' = IF CanEvictEarly THEN "flush" ELSE "fetch"
    /\ flushed' = FALSE
    /\ UNCHANGED <<rows, lifecycle, streamVars, horizonVars, finalVars, outVars>>

\* The resolution of the cells a group waits for.
ChildRes(p) == Res[CHOOSE c \in Children(p) : TRUE]

CompletedGroups ==
    Completed(Compactor, evictionHorizon, {c \in Cells : Res[c] \in spilled})

FlushCompleted ==
    /\ phase = "flush"
    /\ Len(output) < OutputLimit
    /\ \E p \in Parents :
          /\ IsNorthernmost(p, {q \in CompletedGroups : ChildRes(q) = ChildRes(p)})
          /\ SetCompactor(FlushParent(Compactor, p))
    /\ flushed' = TRUE
    /\ UNCHANGED <<phase, rows, lifecycle, partials, delivered,
                   streamVars, horizonVars, finalVars>>

\* Wrong: the loop starts over although nothing was flushed.
FlushCompletedRestarts ==
    /\ phase = "flush"
    /\ CompletedGroups = {} \/ Len(output) >= OutputLimit
    /\ phase' = "head"
    /\ UNCHANGED <<rows, lifecycle, flushed, streamVars, horizonVars, finalVars, outVars>>

FlushCompletedDone ==
    /\ phase = "flush"
    /\ CompletedGroups = {} \/ Len(output) >= OutputLimit
    /\ phase' = IF flushed THEN "head" ELSE "fetch"
    /\ UNCHANGED <<rows, lifecycle, flushed, streamVars, horizonVars, finalVars, outVars>>

\* Publish the horizon, unless output the caller has not seen lies north of it.
PublishHorizon ==
    currentHorizon' =
        IF Buffered = 0 /\ spilled = {}
        THEN LET held == PendingEmitSouth(Compactor)
             IN  IF evictionHorizon >= held THEN evictionHorizon ELSE held
        ELSE currentHorizon

\* Drain a batch from the prefetcher; an empty one ends the raster.
FetchBatch ==
    /\ phase = "fetch"
    /\ PublishHorizon
    /\ IF processed = Chunks
       THEN /\ finishing' = TRUE
            /\ phase' = "head"
            /\ UNCHANGED <<batchEnd, todo>>
       ELSE /\ batchEnd' \in processed + 1 .. Least(processed + BatchMax, Chunks)
            /\ todo' = {kc \in (processed + 1 .. batchEnd') \X Cells : kc[2] \in Touch(kc[1])}
            /\ phase' = "merge"
            /\ UNCHANGED finishing
    /\ UNCHANGED <<rows, lifecycle, flushed, processed, active, tracked, disk, spilled,
                   evictionHorizon, seen, finalRes, reader, reading, compactionParent,
                   outVars>>

\* The prefetcher returned an error, or ended before the last chunk.
FetchFails == phase = "fetch" /\ processed < Chunks /\ Fail

\* Windows are merged one after the other, resolution by resolution.
IsNextMerge(kc) ==
    \A other \in todo :
        \/ kc[1] < other[1]
        \/ kc[1] = other[1] /\ Res[kc[2]] <= Res[other[2]]

\* merge_owned, then spill_resolution when the map reaches its budget.
MergeCell ==
    /\ phase = "merge"
    /\ \E kc \in todo :
          LET c == kc[2]
              r == Res[c]
              merged == [active EXCEPT ![c] = @ + 1]
              map == {d \in Cells : Res[d] = r /\ merged[d] > 0}
          IN  /\ IsNextMerge(kc)
              /\ todo' = todo \ {kc}
              /\ IF Cardinality(map) >= MapBudget
                 THEN /\ disk' = [d \in Cells |->
                                     IF d \in map THEN disk[d] + merged[d] ELSE disk[d]]
                      /\ active' = [d \in Cells |-> IF d \in map THEN 0 ELSE merged[d]]
                      /\ spilled' = spilled \cup {r}
                      /\ tracked' = tracked \ {r}
                 ELSE active' = merged /\ UNCHANGED <<disk, spilled, tracked>>
    /\ UNCHANGED <<callVars, processed, batchEnd, horizonVars, finalVars, outVars>>

\* An accumulator outgrew its limit, or a run could not be written.
MergeFails == phase = "merge" /\ todo # {} /\ Fail

\* Every sample of the batch is merged or on disk: move the horizon, unless a
\* resolution has spilled.
BatchDone ==
    /\ phase = "merge"
    /\ todo = {}
    /\ processed' = batchEnd
    /\ evictionHorizon' =
          IF spilled = {} THEN SuffixMaxNorthLat(batchEnd) ELSE evictionHorizon
    /\ phase' = "head"
    /\ UNCHANGED <<rows, lifecycle, flushed, batchEnd, todo, active, tracked, disk, spilled,
                   currentHorizon, seen, finalVars, outVars>>

-----------------------------------------------------------------------------
(* After it: resolution by resolution, in index order.                      *)

OpenFinal ==
    LET r == finalRes + 1
        last == [c \in Cells |-> IF Res[c] = r THEN disk[c] + active[c] ELSE 0]
    IN  /\ Advancing
        /\ finishing
        /\ ~reading
        /\ finalRes < NumRes
        /\ reader' = last
        /\ active' = [c \in Cells |-> IF Res[c] = r THEN 0 ELSE active[c]]
        /\ disk' = [c \in Cells |-> IF Res[c] = r THEN 0 ELSE disk[c]]
        /\ tracked' = IF r \in spilled /\ MapOf(r) # {} THEN tracked \ {r} ELSE tracked
        /\ reading' = TRUE
        /\ finalRes' = r
        /\ UNCHANGED <<callVars, processed, batchEnd, todo, spilled, horizonVars,
                       finishing, compactionParent, outVars>>

ReadFinal ==
    /\ Advancing
    /\ finishing
    /\ reading
    /\ \E c \in Cells :
          /\ reader[c] > 0
          /\ \A d \in Cells : reader[d] > 0 => c <= d
          /\ EmitFinal(c, reader[c])
          /\ reader' = [reader EXCEPT ![c] = 0]
    /\ UNCHANGED <<streamVars, finishing, finalRes, reading>>

\* A spilled resolution's runs could not be written or read back.
FinalFails ==
    /\ Advancing
    /\ finishing
    /\ (IF reading THEN finalRes ELSE finalRes + 1) \in spilled
    /\ Fail

CloseFinal ==
    /\ Advancing
    /\ finishing
    /\ reading
    /\ NoCells(reader)
    /\ reading' = FALSE
    /\ compactionParent' = NoParent
    /\ phase' = "flushRes"
    /\ UNCHANGED <<rows, lifecycle, flushed, streamVars, horizonVars, finishing,
                   finalRes, reader, outVars>>

\* flush_resolution and flush_all differ in the groups they decompose.
Leftover ==
    {p \in PendingParents(Compactor) : phase = "flushRes" => ChildRes(p) = finalRes}

FlushLeftover ==
    /\ phase \in {"flushRes", "flushAll"}
    /\ \E p \in Leftover : SetCompactor(FlushParent(Compactor, p))
    /\ UNCHANGED <<callVars, partials, delivered, streamVars, horizonVars, finalVars>>

ResolutionDone ==
    /\ phase = "flushRes"
    /\ Leftover = {}
    /\ phase' = "head"
    /\ UNCHANGED <<rows, lifecycle, flushed, streamVars, horizonVars, finalVars, outVars>>

StartFlushAll ==
    /\ Advancing
    /\ finishing
    /\ ~reading
    /\ finalRes = NumRes
    /\ phase' = "flushAll"
    /\ UNCHANGED <<rows, lifecycle, flushed, streamVars, horizonVars, finalVars, outVars>>

MarkFinished ==
    /\ phase = "flushAll"
    /\ Leftover = {}
    /\ lifecycle' = "finished"
    /\ phase' = "head"
    /\ UNCHANGED <<rows, flushed, streamVars, horizonVars, finalVars, outVars>>

\* The caller has read the whole stream, or its failure.
Stop == phase = "idle" /\ (EndOfStream \/ lifecycle = "failed") /\ UNCHANGED vars

Next ==
    /\ UNCHANGED raster
    /\ \/ Call \/ Return \/ EnforceLimit
       \/ PopCompleted \/ NothingToPop \/ FlushCompleted \/ FlushCompletedDone
       \/ FetchBatch \/ FetchFails \/ MergeCell \/ MergeFails \/ BatchDone
       \/ OpenFinal \/ ReadFinal \/ FinalFails \/ CloseFinal \/ FlushLeftover
       \/ ResolutionDone \/ StartFlushAll \/ MarkFinished \/ Stop

\* The caller reads until the end, and the thread it reads on runs.
Spec == Init /\ [][Next]_vars /\ WF_vars(Next)

-----------------------------------------------------------------------------
(* Properties.                                                              *)

Accs == [cell : Cells, n : Nat]
Records == [cell : Cells \cup Parents, of : Seq(Accs)]

\* Every variable keeps its type.
TypeOK ==
    /\ raster \in Rasters
    /\ phase \in {"idle", "head", "limit", "flush", "fetch", "merge", "flushRes", "flushAll"}
    /\ rows \in Nat
    /\ lifecycle \in {"running", "finished", "failed"}
    /\ processed \in 0 .. Chunks
    /\ batchEnd \in 0 .. Chunks
    /\ todo \subseteq (1 .. Chunks) \X Cells
    /\ active \in [Cells -> Nat]
    /\ disk \in [Cells -> Nat]
    /\ reader \in [Cells -> Nat]
    /\ tracked \subseteq 1 .. NumRes
    /\ spilled \subseteq 1 .. NumRes
    /\ evictionHorizon \in Int /\ currentHorizon \in Int /\ seen \in Int
    /\ finishing \in BOOLEAN /\ reading \in BOOLEAN /\ flushed \in BOOLEAN
    /\ finalRes \in 0 .. NumRes
    /\ compactionParent \in Parents \cup {NoParent}
    /\ pending \in [Parents -> Seq(Accs)]
    /\ output \in Seq(Records)
    /\ partials \in Seq(Records)
    /\ delivered \in Seq(Records)

\* The samples the raster has for a cell.
Total(c) == Cardinality({k \in 1 .. Chunks : c \in Touch(k)})

Emitted == delivered \o output \o partials

\* A cell leaves the streamer only with all its samples: no chunk that is
\* decoded later, and no run on disk, still holds one (pop_completed's horizon,
\* "never finalize a cell that may have an earlier partial state on disk").
CompleteRecords ==
    \A i \in DOMAIN Emitted : \A j \in DOMAIN Emitted[i].of :
        Emitted[i].of[j].n = Total(Emitted[i].of[j].cell)

CellsOf(record) == {record.of[j].cell : j \in DOMAIN record.of}

\* No cell is emitted twice, neither by itself nor inside its parent: eviction,
\* forced and final flushes and the final sorted stream never overlap.
EmittedOnce ==
    /\ \A i, j \in DOMAIN Emitted :
          i # j => CellsOf(Emitted[i]) \cap CellsOf(Emitted[j]) = {}
    /\ \A i \in DOMAIN Emitted : Cardinality(CellsOf(Emitted[i])) = Len(Emitted[i].of)

\* The filter sees whole accumulators; boundary cells bypass it.
Expected == {c \in Cells : Total(c) > 0 /\ (Total(c) >= MinCount \/ c \in Boundary)}

\* At the end of the stream every cell that passes the filter was delivered.
NothingLost ==
    EndOfStream /\ phase = "idle" =>
        UNION {CellsOf(delivered[i]) : i \in DOMAIN delivered} = Expected

\* What leaves the streamer is the raster: each cell that passes the filter, once, with
\* all its samples, by itself or inside its parent, whatever was evicted early, flushed
\* under pressure, spilled or read back.
StreamExact == CompleteRecords /\ EmittedOnce /\ NothingLost

\* Without a byte limit compaction does not depend on the order of arrival: a
\* parent is delivered exactly when all its children have passed the filter,
\* whether they came by eviction, from memory or from disk.
CompactionExact ==
    EndOfStream /\ phase = "idle" /\ ~CanForce =>
        \A p \in Parents :
            (Children(p) \subseteq Expected) <=> (\E i \in DOMAIN delivered : delivered[i].cell = p)

\* "Keep the published horizon conservative until deferred output is consumed; downstream
\* tilers must not flush ahead of it" (advance_inner): no record still to be returned
\* lies north of a horizon the caller has read.
DeferredOutputKept ==
    \A i \in DOMAIN output : South[output[i].cell] <= seen

\* Where some suffix of the chunks has a certified northern bound the horizon is sound,
\* across eviction, held groups, spills and the final stream: the tiler may close what
\* is north of it.
HorizonSound == CanEvictEarly => DeferredOutputKept

\* A caller that keeps reading reaches the end of the stream or its failure.
Ends == <>(EndOfStream \/ lifecycle = "failed")

=============================================================================
