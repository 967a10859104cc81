------------------------ MODULE ShardedResolutionMap ------------------------
(***************************************************************************)
(* The active map of one resolution (multi_horizon/sharded_map.rs) and the *)
(* output buffer beside it (multi_horizon/lifecycle.rs): cells hashed to    *)
(* shards, an eviction heap per shard, and byte counts that are kept        *)
(* incrementally because the aggregation budget reads them after every      *)
(* merged cell.                                                            *)
(*                                                                         *)
(* A state is its number of classes; it owns heap memory when it has more   *)
(* than InlineClasses.  The capacity a hash table reports grows when it is  *)
(* full and may drop by one when an entry is removed (a tombstone).         *)
(***************************************************************************)
EXTENDS Integers, FiniteSets, Sequences

CONSTANTS Cells, Shards, ShardOf,  \* ShardOf : Cells -> Shards (get_shard)
          South,                   \* Cells -> south latitude
          Horizons,                \* latitudes a scan reaches
          MaxClasses, InlineClasses,
          MaxOutput                \* bound: records waiting in the buffer

MapAssumption ==
    /\ IsFiniteSet(Cells) /\ IsFiniteSet(Shards) /\ Shards \subseteq Nat
    /\ ShardOf \in [Cells -> Shards]
    /\ South \in [Cells -> Int] /\ Horizons \subseteq Int
    /\ MaxClasses \in Nat /\ InlineClasses \in Nat /\ MaxOutput \in Nat

VARIABLES map,        \* cells that are active -> number of classes
          heap,       \* Shards -> cells in the eviction heap
          tableCap,        \* Shards -> capacity the table reports
          heapCap,    \* Shards -> capacity of the heap's vector
          dynamicBytes, structureBytes,
          trackEviction,
          output, outputBytes

mapVars == <<map, heap, tableCap, heapCap, dynamicBytes, structureBytes, trackEviction, output, outputBytes>>

HeapBytes(classes) == IF classes > InlineClasses THEN 5 + 2 * classes ELSE 0
MemoryBytes(classes) == 3 + HeapBytes(classes)
TableBytes(capacity) == IF capacity = 0 THEN 0 ELSE 2 * (capacity + 1) + 4

ShardBytes(s, c, hc) == TableBytes(c[s]) + hc[s]
\* The bytes of several owners, one element per byte.
Total(sizes) == Cardinality(UNION {{o} \X (1 .. sizes[o]) : o \in DOMAIN sizes})

Recount(c, hc) == Total([s \in Shards |-> ShardBytes(s, c, hc)])

InShard(s) == {c \in DOMAIN map : ShardOf[c] = s}
\* Capacity after one more entry: the table doubles when it is full.
Doubled(capacity, n) == IF n < capacity THEN capacity ELSE 2 * capacity + 1

Without(f, c) == [x \in DOMAIN f \ {c} |-> f[x]]

MapInit == /\ map = <<>>
        /\ heap = [s \in Shards |-> {}]
        /\ tableCap = [s \in Shards |-> 0]
        /\ heapCap = [s \in Shards |-> 0]
        /\ dynamicBytes = 0 /\ structureBytes = 0
        /\ trackEviction = TRUE
        /\ output = <<>> /\ outputBytes = 0

\* Wrong: a state that moves to the heap is not counted.
MergeExistingUncounted(c, n) ==
    /\ c \in DOMAIN map
    /\ map' = [map EXCEPT ![c] = IF @ + n > MaxClasses THEN MaxClasses ELSE @ + n]
    /\ UNCHANGED <<heap, tableCap, heapCap, dynamicBytes, structureBytes, trackEviction, output, outputBytes>>

\* merge_owned_with, occupied: the state's heap bytes before and after.
MergeExisting(c, n) ==
    LET before == map[c]
        merged == IF before + n > MaxClasses THEN MaxClasses ELSE before + n
    IN /\ c \in DOMAIN map
       /\ map' = [map EXCEPT ![c] = merged]
       /\ dynamicBytes' = dynamicBytes - HeapBytes(before) + HeapBytes(merged)
       /\ UNCHANGED <<heap, tableCap, heapCap, structureBytes, trackEviction, output, outputBytes>>

\* merge_owned_with, vacant: an eviction entry only while eviction is tracked.
MergeNew(c, n) ==
    LET s == ShardOf[c]
    IN /\ c \notin DOMAIN map
       /\ map' = [x \in DOMAIN map \cup {c} |-> IF x = c THEN n ELSE map[x]]
       /\ dynamicBytes' = dynamicBytes + HeapBytes(n)
       /\ tableCap' = [tableCap EXCEPT ![s] = Doubled(@, Cardinality(InShard(s)))]
       /\ heap' = [heap EXCEPT ![s] = IF trackEviction THEN @ \cup {c} ELSE @]
       /\ heapCap' = [heapCap EXCEPT ![s] = IF trackEviction THEN Doubled(@, Cardinality(heap[s])) ELSE @]
       /\ structureBytes' = structureBytes - ShardBytes(s, tableCap, heapCap) + ShardBytes(s, tableCap', heapCap')
       /\ UNCHANGED <<trackEviction, output, outputBytes>>

\* Cell c leaves shard s; an emptied shard releases its memory.  The record is
\* sized and pushed to the output (push_sized).
PopCell(s, c) ==
    LET emptied == InShard(s) = {c}
    IN /\ map' = Without(map, c)
       /\ heap' = [heap EXCEPT ![s] = IF emptied THEN {} ELSE @ \ {c}]
       /\ \E left \in {tableCap[s], tableCap[s] - 1} :
             /\ left >= Cardinality(InShard(s)) - 1
             /\ tableCap' = [tableCap EXCEPT ![s] = IF emptied THEN 0 ELSE left]
       /\ heapCap' = [heapCap EXCEPT ![s] = IF emptied THEN 0 ELSE @]
       /\ structureBytes' = structureBytes - ShardBytes(s, tableCap, heapCap)
                              + ShardBytes(s, tableCap', heapCap')
       /\ dynamicBytes' = dynamicBytes - HeapBytes(map[c])
       /\ output' = Append(output, <<c, MemoryBytes(map[c])>>)
       /\ outputBytes' = outputBytes + MemoryBytes(map[c])
       /\ UNCHANGED trackEviction

\* pop_completed: the first shard with a cell north of the horizon gives its
\* northernmost one.
PopCompleted(horizon) ==
    LET due(s) == {c \in heap[s] : South[c] > horizon}
        ready == {s \in Shards : due(s) # {}}
    IN /\ Len(output) < MaxOutput
       /\ \E s \in ready : \E c \in due(s) :
             /\ \A q \in ready : s <= q
             /\ \A y \in due(s) : South[y] <= South[c]
             /\ PopCell(s, c)

\* take_sorted and, on the first spill of a resolution, set_eviction_enabled.
Spill ==
    /\ map # <<>>
    /\ map' = <<>>
    /\ heap' = [s \in Shards |-> {}]
    /\ tableCap' = [s \in Shards |-> 0]
    /\ heapCap' = [s \in Shards |-> 0]
    /\ dynamicBytes' = 0 /\ structureBytes' = 0
    /\ trackEviction' = FALSE
    /\ UNCHANGED <<output, outputBytes>>

\* set_eviction_enabled(false) at open, for rows that are not north to south;
\* the structure is counted again.
DisableEviction ==
    /\ trackEviction /\ map = <<>>
    /\ trackEviction' = FALSE
    /\ heap' = [s \in Shards |-> {}]
    /\ heapCap' = [s \in Shards |-> 0]
    /\ structureBytes' = Recount(tableCap, heapCap')
    /\ UNCHANGED <<map, tableCap, dynamicBytes, output, outputBytes>>

\* drain_into and take_batch: pop_front at most n records.
DrainOutput(n) ==
    LET k == IF n < Len(output) THEN n ELSE Len(output)
    IN /\ output # <<>>
       /\ output' = SubSeq(output, k + 1, Len(output))
       /\ outputBytes' = outputBytes - Total([i \in 1 .. k |-> output[i][2]])
       /\ UNCHANGED <<map, heap, tableCap, heapCap, dynamicBytes, structureBytes, trackEviction>>

MapNext == \/ \E c \in Cells, n \in 1 .. MaxClasses : MergeExisting(c, n) \/ MergeNew(c, n)
        \/ \E h \in Horizons : PopCompleted(h)
        \/ Spill \/ DisableEviction
        \/ \E n \in {1, MaxOutput} : DrainOutput(n)

MapSpec == MapInit /\ [][MapNext]_mapVars

\* The incremental byte counts, which the budget trusts, equal a recount of
\* everything held; every active cell of a map that still evicts waits in the
\* heap of its own shard and nothing else does, so none is forgotten.
AccountsBalanced ==
    /\ dynamicBytes = Total([c \in DOMAIN map |-> HeapBytes(map[c])])
    /\ structureBytes = Recount(tableCap, heapCap)
    /\ outputBytes = Total([i \in DOMAIN output |-> output[i][2]])
    /\ map = <<>> => dynamicBytes + structureBytes = 0
    /\ \A s \in Shards : heap[s] = IF trackEviction THEN InShard(s) ELSE {}
=============================================================================
