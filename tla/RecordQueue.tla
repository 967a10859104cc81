------------------------------ MODULE RecordQueue -----------------------------
(***************************************************************************)
(* ConcurrentRecordQueue of raster-h3-duckdb: DuckDB's scan threads share  *)
(* one streamer.  A thread takes a queued batch, or else locks the         *)
(* streamer, drains up to four batches, keeps the first and queues the     *)
(* rest.                                                                   *)
(*                                                                         *)
(* The streamer is external here, and follows HorizonStreamer: a drain     *)
(* returns some of the remaining records, none only at the end, and a      *)
(* failure is latched.                                                     *)
(***************************************************************************)
EXTENDS Integers, Sequences, FiniteSets

CONSTANTS Threads,     \* DuckDB's scan threads
          NumRecords,  \* records the stream has
          BatchSize,   \* DuckDB's vector size
          CanFail,     \* the streamer may fail
          NoThread

ASSUME RecordQueueAssumption ==
    /\ NumRecords \in Nat
    /\ BatchSize \in Nat \ {0}
    /\ CanFail \in BOOLEAN
    /\ NoThread \notin Threads

VARIABLES readyBatches,   \* the queued batches
          isFinished,     \* the atomic end-of-stream flag
          streamed,       \* records the streamer has handed out
          streamFailed,   \* the streamer's latched failure
          streamerLock,   \* holder of the streamer's mutex
          pc,             \* where each thread is in pop_or_refill
          returned        \* every batch a call returned

vars == <<readyBatches, isFinished, streamed, streamFailed, streamerLock, pc,
          returned>>

Init ==
    /\ readyBatches = <<>>
    /\ isFinished = FALSE
    /\ streamed = 0
    /\ streamFailed = FALSE
    /\ streamerLock = NoThread
    /\ pc = [t \in Threads |-> "fast"]
    /\ returned = <<>>

Goto(t, state) == pc' = [pc EXCEPT ![t] = state]

\* Wrong: the batch stays queued.
PopReadyKeeps(t) ==
    /\ readyBatches # <<>>
    /\ returned' = Append(returned, Head(readyBatches))
    /\ Goto(t, "fast")
    /\ UNCHANGED <<readyBatches, isFinished, streamed, streamFailed>>

\* Both looks at the queue: a queued batch, or the end of the stream.  A thread
\* that got a batch scans it and calls again.
PopReady(t) ==
    /\ readyBatches # <<>>
    /\ returned' = Append(returned, Head(readyBatches))
    /\ readyBatches' = Tail(readyBatches)
    /\ Goto(t, "fast")
    /\ UNCHANGED <<isFinished, streamed, streamFailed>>

SeesFinished(t) ==
    /\ readyBatches = <<>>
    /\ isFinished
    /\ Goto(t, "eof")
    /\ UNCHANGED <<readyBatches, isFinished, streamed, streamFailed, returned>>

FastPath(t) ==
    /\ pc[t] = "fast"
    /\ \/ PopReady(t)
       \/ SeesFinished(t)
       \/ /\ readyBatches = <<>>
          /\ ~isFinished
          /\ Goto(t, "slow")
          /\ UNCHANGED <<readyBatches, isFinished, streamed, streamFailed, returned>>
    /\ UNCHANGED streamerLock

LockStreamer(t) ==
    /\ pc[t] = "slow"
    /\ streamerLock = NoThread
    /\ streamerLock' = t
    /\ Goto(t, "refill")
    /\ UNCHANGED <<readyBatches, isFinished, streamed, streamFailed, returned>>

Least(a, b) == IF a <= b THEN a ELSE b

\* n records cut into batches of BatchSize, the last one shorter.
Cut(n) == [b \in 1 .. (n + BatchSize - 1) \div BatchSize |->
              [i \in 1 .. Least(BatchSize, n - (b - 1) * BatchSize) |->
                  streamed + (b - 1) * BatchSize + i]]

\* drain_into of at most four batches, under both locks.
RefillDrains(t) ==
    /\ ~streamFailed
    /\ \E n \in 1 .. Least(4 * BatchSize, NumRecords - streamed) :
          /\ returned' = Append(returned, Head(Cut(n)))
          /\ readyBatches' = readyBatches \o Tail(Cut(n))
          /\ streamed' = streamed + n
    /\ Goto(t, "fast")
    /\ UNCHANGED <<isFinished, streamFailed>>

RefillFindsEnd(t) ==
    /\ ~streamFailed
    /\ streamed = NumRecords
    /\ isFinished' = TRUE
    /\ Goto(t, "eof")
    /\ UNCHANGED <<readyBatches, streamed, streamFailed, returned>>

\* The streamer failed, now or before; it fails before it emits anything.
RefillFails(t) ==
    /\ CanFail \/ streamFailed
    /\ streamFailed' = TRUE
    /\ readyBatches' = <<>>
    /\ Goto(t, "error")
    /\ UNCHANGED <<isFinished, streamed, returned>>

\* Look again, since another thread may have refilled meanwhile, then refill.
SlowPath(t) ==
    /\ pc[t] = "refill"
    /\ \/ PopReady(t)
       \/ SeesFinished(t)
       \/ /\ readyBatches = <<>>
          /\ ~isFinished
          /\ RefillDrains(t) \/ RefillFindsEnd(t) \/ RefillFails(t)
    /\ streamerLock' = NoThread

Done == (\A t \in Threads : pc[t] \in {"eof", "error"}) /\ UNCHANGED vars

Next == (\E t \in Threads : FastPath(t) \/ LockStreamer(t) \/ SlowPath(t)) \/ Done

\* DuckDB keeps calling the scan, and a mutex is eventually obtained.
Fairness ==
    \A t \in Threads :
        WF_vars(FastPath(t) \/ SlowPath(t)) /\ SF_vars(LockStreamer(t))

Spec == Init /\ [][Next]_vars /\ Fairness

-----------------------------------------------------------------------------
(* Properties.                                                              *)

Batches == Seq(1 .. NumRecords)

\* Every variable keeps its type.
TypeOK ==
    /\ readyBatches \in Seq(Batches)
    /\ isFinished \in BOOLEAN
    /\ streamed \in 0 .. NumRecords
    /\ streamFailed \in BOOLEAN
    /\ streamerLock \in Threads \cup {NoThread}
    /\ pc \in [Threads -> {"fast", "slow", "refill", "eof", "error"}]
    /\ returned \in Seq(Batches)

\* "a refill leaves at most three batches queued plus the returned batch".
AtMostThreeQueued == Len(readyBatches) <= 3

Handed == returned \o readyBatches

RecordsIn(batch) == {batch[i] : i \in DOMAIN batch}

\* Whatever threads race through the two looks, every record drained from the
\* streamer is in exactly one batch, returned or queued.
EachRecordOnce ==
    /\ UNION {RecordsIn(Handed[i]) : i \in DOMAIN Handed} = 1 .. streamed
    /\ \A i, j \in DOMAIN Handed :
          i # j => RecordsIn(Handed[i]) \cap RecordsIn(Handed[j]) = {}

\* No scan thread is told "end of stream" before every record has been
\* returned, and none after a failure: a failed query never looks complete.
NoEarlyEnd ==
    (\E t \in Threads : pc[t] = "eof") =>
        ~streamFailed /\ streamed = NumRecords /\ readyBatches = <<>>

\* All of it: the threads of a scan share the records out among them.
RecordsOnce == TypeOK /\ AtMostThreeQueued /\ EachRecordOnce /\ NoEarlyEnd

\* Every scan thread gets the end of the stream or its error.
ScanEnds == <>(\A t \in Threads : pc[t] \in {"eof", "error"})

=============================================================================
