------------------------------- MODULE SpillRuns ------------------------------
(* Sorted temporary runs of one resolution (multi_horizon/spill.rs).  Each push   *)
(* writes one run and carries it through the levels like a bit of a binary        *)
(* counter; finish merges what is left and hands out one sorted reader.           *)
(* An accumulator is abstracted to its number of samples and the set of classes   *)
(* it counts; its memory is the number of classes.  Any file operation may fail.  *)
EXTENDS Naturals, Sequences, FiniteSets, FiniteSetsExt, SequencesExt

CONSTANTS
    Keys,        \* cell indexes
    Classes,     \* classes an accumulator may count
    Limit,       \* aggregation budget of one accumulator, in classes
    MaxLevels,   \* levels of the run counter (64 in the code)
    MaxPushes    \* bound of the model: pushes of one behaviour

NoRun == << >>

VARIABLES
    levels,        \* Seq of runs or NoRun
    runs_written,
    run,           \* the run being carried through the levels, or combined by finish
    level,         \* the level push or finish looks at
    pc,            \* "idle", "carry", "combine", "read", "ended", "failed"
    returned       \* records the reader has handed out

spillVars == <<levels, runs_written, run, level, pc, returned>>

-----------------------------------------------------------------------------
Acc(n, classes) == [n |-> n, classes |-> classes]

Plus(a, b) == Acc(a.n + b.n, a.classes \cup b.classes)

memory_bytes(acc) == Cardinality(acc.classes)

\* A record is readable when its accumulator fits the budget (read_state).
Readable(r) == \A i \in DOMAIN r : memory_bytes(r[i].acc) <= Limit

StrictlySorted(r) == \A i \in 1 .. Len(r) - 1 : r[i].key < r[i + 1].key

\* The two-way merge of the remaining records l[i..] and r[j..].
Merged(l, r) ==
    LET from[i \in 1 .. Len(l) + 1, j \in 1 .. Len(r) + 1] ==
            LET a == i <= Len(l)
                b == j <= Len(r)
            IN  IF ~a /\ ~b THEN << >>
                ELSE IF ~b \/ (a /\ l[i].key < r[j].key) THEN <<l[i]>> \o from[i + 1, j]
                ELSE IF ~a \/ l[i].key > r[j].key THEN <<r[j]>> \o from[i, j + 1]
                ELSE <<[key |-> l[i].key, acc |-> Plus(l[i].acc, r[j].acc)]>>
                        \o from[i + 1, j + 1]
    IN  from[1, 1]

-----------------------------------------------------------------------------
Init ==
    /\ levels = << >>
    /\ runs_written = 0
    /\ run = NoRun
    /\ level = 1
    /\ pc = "idle"
    /\ returned = << >>

Idle == pc = "idle"

\* A failed call drops the files it holds; the streamer is poisoned and never reads
\* the storage again.
Fails == pc' = "failed" /\ run' = NoRun /\ UNCHANGED <<levels, runs_written, level, returned>>

\* push_sorted writes its input to a new file.  An empty input leaves no run.
PushSorted(records) ==
    /\ Idle
    /\ StrictlySorted(records) /\ Readable(records)
    /\ IF records = << >>
         THEN UNCHANGED <<pc, run, runs_written>>
         ELSE /\ pc' = "carry"
              /\ run' = records
              /\ runs_written' = runs_written + 1
    /\ level' = 1
    /\ UNCHANGED <<levels, returned>>

PushRefused(records) ==
    /\ Idle
    /\ ~(StrictlySorted(records) /\ Readable(records))
    /\ Fails

Grown == IF level > Len(levels) THEN Append(levels, NoRun) ELSE levels

CarryMerges ==
    /\ pc = "carry"
    /\ level <= Len(levels) /\ levels[level] # NoRun
    /\ Readable(Merged(levels[level], run))
    /\ run' = Merged(levels[level], run)
    /\ levels' = [levels EXCEPT ![level] = NoRun]
    /\ level' = level + 1
    /\ UNCHANGED <<runs_written, pc, returned>>

\* Wrong: stored over the run of the level.
CarryStoresOver ==
    /\ pc = "carry"
    /\ level <= MaxLevels
    /\ levels' = [Grown EXCEPT ![level] = run]
    /\ run' = NoRun
    /\ pc' = "idle"
    /\ UNCHANGED <<runs_written, level, returned>>

CarryStores ==
    /\ pc = "carry"
    /\ level <= MaxLevels
    /\ Grown[level] = NoRun
    /\ levels' = [Grown EXCEPT ![level] = run]
    /\ run' = NoRun
    /\ pc' = "idle"
    /\ UNCHANGED <<runs_written, level, returned>>

\* The counter is exhausted, a merged accumulator outgrows the budget, or a file
\* operation fails.
CarryFails == pc = "carry" /\ Fails

-----------------------------------------------------------------------------
StartFinish ==
    /\ Idle
    /\ pc' = "combine" /\ level' = 1
    /\ UNCHANGED <<levels, runs_written, run, returned>>

\* finish takes the runs from the lowest level up; the run of the level is the left
\* operand.
Combine ==
    /\ pc = "combine"
    /\ level <= Len(levels)
    /\ LET merged == Merged(levels[level], run)
       IN  Readable(merged) /\ run' = merged
    /\ levels' = [levels EXCEPT ![level] = NoRun]
    /\ level' = level + 1
    /\ UNCHANGED <<runs_written, pc, returned>>

CombineFails == pc = "combine" /\ Fails

OpenReader ==
    /\ pc = "combine" /\ level > Len(levels)
    /\ pc' = "read"
    /\ UNCHANGED <<levels, runs_written, run, level, returned>>

NextRecord ==
    /\ pc = "read" /\ run # NoRun
    /\ returned' = Append(returned, [key |-> run[1].key, n |-> run[1].acc.n])
    /\ run' = Tail(run)
    /\ UNCHANGED <<levels, runs_written, level, pc>>

ReaderEnds ==
    /\ pc = "read" /\ run = NoRun
    /\ pc' = "ended"
    /\ UNCHANGED <<levels, runs_written, run, level, returned>>

ReadFails == pc = "read" /\ run # NoRun /\ Fails

-----------------------------------------------------------------------------
\* The batches offered: one record per key of a set, or an unsorted pair.
Batches ==
    {SetToSortSeq({[key |-> k, acc |-> Acc(1, {c})] : k \in ks}, LAMBDA a, b : a.key < b.key) :
        ks \in SUBSET Keys, c \in Classes}
    \cup {<<[key |-> k, acc |-> Acc(1, {})], [key |-> k, acc |-> Acc(1, {})]>> : k \in Keys}

Next ==
    \/ \E records \in Batches :
          \/ runs_written < MaxPushes /\ PushSorted(records)
          \/ runs_written < MaxPushes /\ PushRefused(records)
    \/ CarryMerges
    \/ CarryStores
    \/ CarryFails
    \/ StartFinish
    \/ Combine
    \/ CombineFails
    \/ OpenReader
    \/ NextRecord
    \/ ReaderEnds
    \/ ReadFails

Fairness == WF_spillVars(CarryMerges \/ CarryStores \/ CarryFails \/ Combine \/ CombineFails
                            \/ OpenReader \/ NextRecord \/ ReaderEnds)

Spec == Init /\ [][Next]_spillVars /\ Fairness

-----------------------------------------------------------------------------
Samples(r, k) == MapThenSumSet(LAMBDA i : r[i].acc.n, {i \in DOMAIN r : r[i].key = k})

\* What is stored of cell k: the levels and the run in hand.
Stored(k) == IF pc \in {"failed", "ended"} THEN 0
             ELSE Samples(run, k) + MapThenSumSet(LAMBDA l : Samples(levels[l], k), DOMAIN levels)

Bag == INSTANCE SpilledBag WITH
    bag <- [k \in Keys |-> Stored(k)],
    phase <- CASE pc \in {"idle", "carry"} -> "filling"
               [] pc \in {"combine", "read"} -> "reading"
               [] OTHER -> pc,
    out <- returned

\* The run counter implements the bag of samples the streamer counts on: carrying,
\* combining and reading runs never loses, duplicates or reorders a cell's samples.
ImplementsBag == Bag!Spec

\* The levels are a binary counter: level l holds 2^(l-1) pushes' worth of runs, so a
\* push rewrites a sample at most once per level and the number of open files is
\* bounded by the number of levels.
CounterShape ==
    Idle => runs_written =
        MapThenSumSet(LAMBDA l : IF levels[l] = NoRun THEN 0 ELSE 2 ^ (l - 1), DOMAIN levels)

=============================================================================
