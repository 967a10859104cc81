------------------------------ MODULE ChunkReader -----------------------------
(* PrefetchedChunkReader of raster/prefetch.rs: the single-file prefetcher.  Its  *)
(* workers take their buffers from the lock-free DecodingBufferPool, whose count  *)
(* and queue are two separate atomics: each step below is one atomic operation.   *)
EXTENDS OrderedPrefetchQueue

CONSTANTS Workers, PoolCapacity,
          MaxBatch    \* max_batch of next_chunk_batch, at least its minimum of one

Item(kind, job) == [kind |-> kind, job |-> job]
Items == [kind : {"ok", "err", "fatal"}, job : 0 .. TotalJobs]

ASSUME ReaderAssumption ==
    /\ IsFiniteSet(Workers)
    /\ PoolCapacity \in Nat
    /\ MaxBatch \in Nat \ {0}
    /\ NoItem \notin Items

VARIABLES
    pool,        \* buffers in the Injector
    count,       \* the atomic count
    wpc, wjob, nextJobIdx,
    cpc,         \* the consumer
    batch,       \* buffers still to be recycled
    current,     \* the count the consumer's push loaded
    received, outcome

poolVars == <<pool, count>>
workerVars == <<wpc, wjob, nextJobIdx>>
consumerVars == <<cpc, batch, current, received, outcome>>
readerVars == <<queueVars, poolVars, workerVars, consumerVars>>

Goto(w, pc) == wpc' = [wpc EXCEPT ![w] = pc]

Init ==
    /\ QueueInit
    /\ pool = 0 /\ count = 0
    /\ wpc = [w \in Workers |-> IF TotalJobs = 0 THEN "exited" ELSE "open"]
    /\ wjob = [w \in Workers |-> 0]
    /\ nextJobIdx = 0
    /\ cpc = "idle" /\ batch = 0 /\ current = 0 /\ received = << >> /\ outcome = "open"

-----------------------------------------------------------------------------
\* A decoder that does not open, or a panic, fails the queue.
OpenDecoder(w) ==
    /\ wpc[w] = "open"
    /\ \/ Goto(w, "poll") /\ UNCHANGED queueVars
       \/ FailQueue(Item("fatal", TotalJobs)) /\ Goto(w, "exited")
    /\ UNCHANGED <<wjob, nextJobIdx, poolVars, consumerVars>>

Claim(w) ==
    /\ wpc[w] = "poll"
    /\ IF qClosed
         THEN Goto(w, "exited") /\ UNCHANGED <<wjob, nextJobIdx>>
         ELSE /\ nextJobIdx' = nextJobIdx + 1
              /\ wjob' = [wjob EXCEPT ![w] = nextJobIdx]
              /\ Goto(w, IF nextJobIdx >= TotalJobs THEN "exited" ELSE "steal")
    /\ UNCHANGED <<queueVars, poolVars, consumerVars>>

\* pop: steal first, then take the buffer off the count.
Steal(w) ==
    /\ wpc[w] = "steal"
    /\ IF pool > 0 THEN pool' = pool - 1 /\ Goto(w, "uncount")
                   ELSE UNCHANGED pool /\ Goto(w, "decode")
    /\ UNCHANGED <<count, wjob, nextJobIdx, queueVars, consumerVars>>

Uncount(w) ==
    /\ wpc[w] = "uncount"
    /\ count' = IF count = 0 THEN 0 ELSE count - 1
    /\ Goto(w, "decode")
    /\ UNCHANGED <<pool, wjob, nextJobIdx, queueVars, consumerVars>>

\* Decoding and pushing: a failed fetch or decode is an item in the job's place.
Push(w) ==
    /\ wpc[w] = "decode"
    /\ w \notin notFull
    /\ \/ PushSleeps(w, wjob[w]) /\ UNCHANGED wpc
       \/ \E kind \in {"ok", "err"} : PushStores(wjob[w], Item(kind, wjob[w])) /\ Goto(w, "poll")
       \/ PushRefused /\ Goto(w, "exited")
       \/ FailQueue(Item("fatal", TotalJobs)) /\ Goto(w, "exited")
    /\ UNCHANGED <<wjob, nextJobIdx, poolVars, consumerVars>>

-----------------------------------------------------------------------------
Buffers(items) == Cardinality({i \in DOMAIN items : items[i].kind = "ok"})

Deliver(items) ==
    /\ received' = received \o items
    /\ batch' = Buffers(items) + batch
    /\ IF \E i \in DOMAIN items : items[i].kind # "ok"
         THEN cpc' = "close" /\ outcome' = "failed"
         ELSE cpc' = "recycle" /\ UNCHANGED outcome

\* next_chunk_batch: drain_into with a minimum of one, so it never sleeps twice.
Drain ==
    /\ cpc = "idle" /\ ~notEmpty
    /\ \/ DrainSleeps /\ UNCHANGED <<cpc, batch, received, outcome>>
       \/ DrainTerminal /\ Deliver(<<terminalItem>>)
       \/ DrainsNothing /\ cpc' = "close" /\ outcome' = "eof" /\ UNCHANGED <<batch, received>>
       \/ /\ terminalItem = NoItem
          /\ \E n \in 1 .. Capacity : IsRun(n, MaxBatch) /\ DrainTakes(n) /\ Deliver(Run(n))
    /\ UNCHANGED <<current, poolVars, workerVars>>

\* recycle_batch pushes one buffer after another: load, then compare and exchange.
PushLoads ==
    /\ cpc = "recycle"
    /\ current' = count
    /\ cpc' = IF batch = 0 THEN "idle" ELSE "exchange"
    /\ UNCHANGED <<batch, received, outcome, poolVars, workerVars, queueVars>>

\* Wrong: a store in place of the compare and exchange.
PushExchangesBlind ==
    /\ cpc = "exchange"
    /\ IF current >= PoolCapacity
         THEN cpc' = "recycle" /\ batch' = batch - 1 /\ UNCHANGED <<count, current>>
         ELSE cpc' = "inject" /\ count' = current + 1 /\ UNCHANGED <<batch, current>>
    /\ UNCHANGED <<received, outcome, pool, workerVars, queueVars>>

PushExchanges ==
    /\ cpc = "exchange"
    /\ IF current >= PoolCapacity
         THEN cpc' = "recycle" /\ batch' = batch - 1 /\ UNCHANGED <<count, current>>
         ELSE IF count = current
         THEN cpc' = "inject" /\ count' = count + 1 /\ UNCHANGED <<batch, current>>
         ELSE current' = count /\ UNCHANGED <<cpc, batch, count>>
    /\ UNCHANGED <<received, outcome, pool, workerVars, queueVars>>

PushInjects ==
    /\ cpc = "inject"
    /\ pool' = pool + 1
    /\ batch' = batch - 1
    /\ cpc' = "recycle"
    /\ UNCHANGED <<current, received, outcome, count, workerVars, queueVars>>

Cancel ==
    /\ cpc = "idle" /\ ~notEmpty
    /\ cpc' = "close" /\ outcome' = "cancelled"
    /\ UNCHANGED <<batch, current, received, poolVars, workerVars, queueVars>>

\* Drop: close the queue and join.
DropQueue ==
    /\ cpc = "close"
    /\ CloseQueue
    /\ cpc' = "join"
    /\ UNCHANGED <<batch, current, received, outcome, poolVars, workerVars>>

Join ==
    /\ cpc = "join" /\ \A w \in Workers : wpc[w] = "exited"
    /\ cpc' = "gone"
    /\ UNCHANGED <<batch, current, received, outcome, poolVars, workerVars, queueVars>>

Worker(w) == OpenDecoder(w) \/ Claim(w) \/ Steal(w) \/ Uncount(w) \/ Push(w)

Consumer == Drain \/ PushLoads \/ PushExchanges \/ PushInjects \/ Cancel \/ DropQueue \/ Join

Next == Consumer \/ \E w \in Workers : Worker(w)

Spec == /\ Init /\ [][Next]_readerVars
        /\ WF_readerVars(Consumer) /\ \A w \in Workers : WF_readerVars(Worker(w))

-----------------------------------------------------------------------------
\* Buffers taken by pop whose count has not been lowered yet, and counted by push but
\* not yet in the queue.
Uncounted == Cardinality({w \in Workers : wpc[w] = "uncount"})

\* The pool's count is never behind its queue although the two are separate atomics,
\* so the capacity bounds what the pool retains, and the saturating subtraction of pop
\* never hides a lost decrement.
PoolCounted ==
    /\ count = pool + Uncounted + (IF cpc = "inject" THEN 1 ELSE 0)
    /\ pool <= PoolCapacity

Stream == INSTANCE ChunkStream WITH Total <- TotalJobs, out <- received, state <- outcome

\* Dropping the reader joins every worker, however the stream ended.
ReaderGone == <>(cpc = "gone")

\* The single-file prefetcher delivers the chunk stream its callers count on, and its
\* Drop returns: no worker is left waiting for ring space or asleep.
ImplementsStream == Stream!Spec /\ ReaderGone

=============================================================================
