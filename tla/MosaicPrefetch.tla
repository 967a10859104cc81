---------------------------- MODULE MosaicPrefetch ----------------------------
(***************************************************************************)
(* PrefetchedMosaicReader of raster/prefetch.rs: decode workers claim      *)
(* chunks, reserve bytes in the DecodeBudget, decode, and push the result  *)
(* into the OrderedPrefetchQueue; the streamer's thread (the consumer)     *)
(* drains batches, returns the buffers and finally drops the reader.       *)
(*                                                                         *)
(* Local computation is folded into the critical section that follows it.  *)
(***************************************************************************)
EXTENDS OrderedPrefetchQueue

-----------------------------------------------------------------------------
(* The DecodeBudget: a byte budget for decoded chunk buffers.  A            *)
(* reservation is granted in job order.  acquire keeps the budget's mutex   *)
(* while it frees idle buffers one after the other, so the mutex is         *)
(* explicit: budgetLock is the worker inside that loop, and every other     *)
(* operation needs it free.                                                 *)

CONSTANTS Limit,          \* decode_budget_bytes
          IdleCapacity,   \* idle buffers kept for reuse
          NoWorker        \* the mutex is free

ASSUME BudgetAssumption ==
    /\ Limit \in Nat
    /\ IdleCapacity \in Nat

VARIABLES used,        \* bytes charged
          nextJob,     \* the job allowed to reserve
          bClosed,     \* reservations are refused
          idle,        \* capacities of the idle buffers, last in first out
          changed,     \* workers asleep on the changed condition variable
          budgetLock   \* the worker inside acquire's admission loop

budgetVars == <<used, nextJob, bClosed, idle, changed, budgetLock>>

Larger(a, b) == IF a >= b THEN a ELSE b

\* usize::saturating_sub
Saturate(n) == IF n < 0 THEN 0 ELSE n

BudgetInit ==
    /\ used = 0
    /\ nextJob = 0
    /\ bClosed = FALSE
    /\ idle = <<>>
    /\ changed = {}
    /\ budgetLock = NoWorker

BudgetFree == budgetLock = NoWorker

-----------------------------------------------------------------------------
(* acquire, first loop: wait for the job's turn, then take an idle buffer   *)
(* (its capacity is the credit) and enter the admission loop.               *)

\* Wrong: reservations are granted in any order.
IsTurnAnyOrder(job) == TRUE

IsTurn(job) == nextJob = job \/ bClosed

AcquireSleeps(w, job) ==
    /\ BudgetFree
    /\ ~IsTurn(job)
    /\ changed' = changed \cup {w}
    /\ UNCHANGED <<used, nextJob, bClosed, idle, budgetLock>>

\* The capacity of the idle buffer on top, 0 when there is none.
TopIdle == IF idle = <<>> THEN 0 ELSE idle[Len(idle)]

WithoutTop == IF idle = <<>> THEN <<>> ELSE SubSeq(idle, 1, Len(idle) - 1)

AcquireEnters(w, job) ==
    /\ BudgetFree
    /\ IsTurn(job)
    /\ idle' = WithoutTop
    /\ budgetLock' = w
    /\ UNCHANGED <<used, nextJob, bClosed, changed>>

-----------------------------------------------------------------------------
(* acquire, second loop: admit, refuse, evict an idle buffer, or sleep.     *)

\* The bytes a job needs beyond the buffer it reuses.
Extra(need, credit) == Saturate(need - credit)

Admissible(need, credit) ==
    used + Extra(need, credit) <= Limit \/ used - credit = 0

MayLoop(w) == budgetLock \in {NoWorker, w}

\* Wrong: the refused job keeps the charge of the buffer it took.
AdmitRefusedKeepsCredit(w, credit) ==
    /\ MayLoop(w)
    /\ bClosed
    /\ budgetLock' = NoWorker
    /\ UNCHANGED <<used, nextJob, bClosed, idle, changed>>

AdmitRefused(w, credit) ==
    /\ MayLoop(w)
    /\ bClosed
    /\ used' = used - credit
    /\ budgetLock' = NoWorker
    /\ UNCHANGED <<nextJob, bClosed, idle, changed>>

AdmitGrants(w, need, credit) ==
    /\ MayLoop(w)
    /\ ~bClosed
    /\ Admissible(need, credit)
    /\ used' = used + Extra(need, credit)
    /\ nextJob' = nextJob + 1
    /\ changed' = {}
    /\ budgetLock' = NoWorker
    /\ UNCHANGED <<bClosed, idle>>

AdmitEvicts(w, need, credit) ==
    /\ MayLoop(w)
    /\ ~bClosed
    /\ ~Admissible(need, credit)
    /\ idle # <<>>
    /\ used' = used - TopIdle
    /\ idle' = WithoutTop
    /\ budgetLock' = w
    /\ UNCHANGED <<nextJob, bClosed, changed>>

AdmitSleeps(w, need, credit) ==
    /\ MayLoop(w)
    /\ ~bClosed
    /\ ~Admissible(need, credit)
    /\ idle = <<>>
    /\ changed' = changed \cup {w}
    /\ budgetLock' = NoWorker
    /\ UNCHANGED <<used, nextJob, bClosed, idle>>

-----------------------------------------------------------------------------
(* settle, recycle and close.                                               *)

Settle(charged, actual) ==
    /\ BudgetFree
    /\ used' = used - charged + actual
    /\ changed' = IF actual < charged THEN {} ELSE changed
    /\ UNCHANGED <<nextJob, bClosed, idle, budgetLock>>

Recycle(bytes) ==
    /\ BudgetFree
    /\ IF bClosed \/ Len(idle) >= IdleCapacity
       THEN used' = used - bytes /\ UNCHANGED idle
       ELSE idle' = Append(idle, bytes) /\ UNCHANGED used
    /\ changed' = {}
    /\ UNCHANGED <<nextJob, bClosed, budgetLock>>

\* The bytes of a function from owners to capacities, one element per byte;
\* the sum of the capacities is their number.
Bytes(caps) == UNION {{o} \X (1 .. caps[o]) : o \in DOMAIN caps}

IdleBytes == Cardinality(Bytes(idle))

CloseBudget ==
    /\ BudgetFree
    /\ bClosed' = TRUE
    /\ used' = used - IdleBytes
    /\ idle' = <<>>
    /\ changed' = {}
    /\ UNCHANGED <<nextJob, budgetLock>>

-----------------------------------------------------------------------------
(* The workers and the consumer.                                            *)

CONSTANTS Workers,    \* the decode threads
          Need,       \* Need[j]: decoded_chunk_bytes of job j's tile
          Size,       \* Size[j]: bytes chunk j really has (edge chunks are smaller)
          MinBatch,   \* drain_into's min_batch
          MaxBatch,   \* drain_into's max_batch
          Faults      \* outcomes of a decode besides "ok": "err", "open", "panic"

Jobs == 0 .. TotalJobs - 1

\* What a drain yields: a chunk ("ok"), a decode error in its place in the
\* sequence ("err"), or the terminal error of fail() ("fatal").
Items == [kind : {"ok", "err", "fatal"}, job : 0 .. TotalJobs, cap : Nat]

ASSUME PrefetchAssumption ==
    /\ IsFiniteSet(Workers)
    /\ NoWorker \notin Workers
    /\ Need \in [Jobs -> Nat]
    /\ Size \in [Jobs -> Nat \ {0}]
    /\ \A j \in Jobs : Size[j] <= Need[j]
    /\ MinBatch \in Nat \ {0}
    /\ MaxBatch \in Nat
    /\ MinBatch <= MaxBatch
    /\ Faults \subseteq {"err", "open", "panic"}
    /\ NoItem \notin Items

VARIABLES wpc,          \* where each worker is in its loop
          wjob,         \* the job each worker has claimed
          reused,       \* capacity of the idle buffer it reuses, 0 for none
          held,         \* bytes of `used' each worker answers for
          nextJobIdx,   \* the shared atomic claim counter
          cpc,          \* where the consumer is
          batch,        \* items of the current drain not yet recycled
          received,     \* every item drain_into ever returned
          outcome       \* how the consumer's stream ended

workerVars == <<wpc, wjob, reused, held, nextJobIdx>>
consumerVars == <<cpc, batch, received, outcome>>
vars == <<queueVars, budgetVars, workerVars, consumerVars>>

Chunk(job, cap) == [kind |-> "ok", job |-> job, cap |-> cap]
DecodeError(job) == [kind |-> "err", job |-> job, cap |-> 0]
Fatal == [kind |-> "fatal", job |-> TotalJobs, cap |-> 0]

Init ==
    /\ QueueInit
    /\ BudgetInit
    /\ wpc = [w \in Workers |-> "poll"]
    /\ wjob = [w \in Workers |-> 0]
    /\ reused = [w \in Workers |-> 0]
    /\ held = [w \in Workers |-> 0]
    /\ nextJobIdx = 0
    /\ cpc = "idle"
    /\ batch = <<>>
    /\ received = <<>>
    /\ outcome = "open"

-----------------------------------------------------------------------------
(* A decode worker.                                                         *)

Goto(w, pc) == wpc' = [wpc EXCEPT ![w] = pc]
Holds(w, bytes) == held' = [held EXCEPT ![w] = bytes]

\* is_closed, then fetch_add on the claim counter.
Claim(w) ==
    /\ wpc[w] = "poll"
    /\ IF qClosed
       THEN Goto(w, "exited") /\ UNCHANGED <<wjob, nextJobIdx>>
       ELSE /\ nextJobIdx' = nextJobIdx + 1
            /\ IF nextJobIdx >= TotalJobs
               THEN Goto(w, "exited") /\ UNCHANGED wjob
               ELSE Goto(w, "turn") /\ wjob' = [wjob EXCEPT ![w] = nextJobIdx]
    /\ UNCHANGED <<reused, held, queueVars, budgetVars, consumerVars>>

AwaitTurn(w) ==
    /\ wpc[w] = "turn"
    /\ w \notin changed
    /\ \/ AcquireSleeps(w, wjob[w]) /\ UNCHANGED <<wpc, reused, held>>
       \/ /\ AcquireEnters(w, wjob[w])
          /\ Goto(w, "fit")
          /\ reused' = [reused EXCEPT ![w] = TopIdle]
          /\ Holds(w, TopIdle)
    /\ UNCHANGED <<wjob, nextJobIdx, queueVars, consumerVars>>

Admit(w) ==
    LET need == Need[wjob[w]]
    IN  /\ wpc[w] = "fit"
        /\ w \notin changed
        /\ \/ AdmitRefused(w, held[w]) /\ Goto(w, "exited") /\ Holds(w, 0)
           \/ /\ AdmitGrants(w, need, held[w])
              /\ Goto(w, "decode")
              /\ Holds(w, held[w] + Extra(need, held[w]))
           \/ /\ AdmitEvicts(w, need, held[w]) \/ AdmitSleeps(w, need, held[w])
              /\ UNCHANGED <<wpc, held>>
        /\ UNCHANGED <<wjob, reused, nextJobIdx, queueVars, consumerVars>>

\* Vec::resize on a buffer of capacity cap: enough room keeps the allocation,
\* otherwise it at least doubles.
Grown(cap, size) == IF size <= cap THEN cap ELSE Larger(2 * cap, size)

\* The capacity a decode ends with: that of the reused buffer when its sample
\* type matches, else that of a fresh exact allocation.  Chunks of one mosaic
\* have samples of one width.
DecodedCaps(w) == {Size[wjob[w]], Grown(reused[w], Size[wjob[w]])}

\* Open the decoder, fetch the payload, decode, settle to the allocation.
Decode(w) ==
    /\ wpc[w] = "decode"
    /\ \/ \E cap \in DecodedCaps(w) :
            Settle(held[w], cap) /\ Holds(w, cap) /\ Goto(w, "push")
       \/ "err" \in Faults /\ Settle(held[w], 0) /\ Holds(w, 0) /\ Goto(w, "push")
       \/ "open" \in Faults /\ Settle(held[w], 0) /\ Holds(w, 0) /\ Goto(w, "abort")
       \/ "panic" \in Faults /\ Goto(w, "abort") /\ UNCHANGED <<held, budgetVars>>
    /\ UNCHANGED <<wjob, reused, nextJobIdx, queueVars, consumerVars>>

\* A decode that produced no buffer is an error in the job's place.
Result(w) == IF held[w] = 0 THEN DecodeError(wjob[w]) ELSE Chunk(wjob[w], held[w])

Push(w) ==
    /\ wpc[w] = "push"
    /\ w \notin notFull
    /\ \/ PushSleeps(w, wjob[w]) /\ UNCHANGED <<wpc, held>>
       \/ PushStores(wjob[w], Result(w)) /\ Goto(w, "poll") /\ Holds(w, 0)
       \/ PushRefused /\ Goto(w, "refund") /\ UNCHANGED held
    /\ UNCHANGED <<wjob, reused, nextJobIdx, budgetVars, consumerVars>>

\* The queue refused the item: give its bytes back and stop.
Refund(w) ==
    /\ wpc[w] = "refund"
    /\ Settle(held[w], 0)
    /\ Holds(w, 0)
    /\ Goto(w, "exited")
    /\ UNCHANGED <<wjob, reused, nextJobIdx, queueVars, consumerVars>>

\* A decoder that does not open, or a panic: close the budget ...
Abort(w) ==
    /\ wpc[w] = "abort"
    /\ CloseBudget
    /\ Goto(w, "report")
    /\ UNCHANGED <<wjob, reused, held, nextJobIdx, queueVars, consumerVars>>

\* ... then fail the queue.
Report(w) ==
    /\ wpc[w] = "report"
    /\ FailQueue(Fatal)
    /\ Goto(w, "exited")
    /\ UNCHANGED <<wjob, reused, held, nextJobIdx, budgetVars, consumerVars>>

Worker(w) ==
    \/ Claim(w) \/ AwaitTurn(w) \/ Admit(w) \/ Decode(w) \/ Push(w)
    \/ Refund(w) \/ Abort(w) \/ Report(w)

-----------------------------------------------------------------------------
(* The consumer: the streamer's thread, which drains, processes, recycles   *)
(* the whole batch, and drops the reader at the end.                        *)

\* drain_into returns `items' in addition to what it took before it slept.
Deliver(items) ==
    /\ received' = received \o items
    /\ batch' = batch \o items
    /\ IF \E i \in DOMAIN batch' : batch'[i].kind # "ok"
       THEN cpc' = "close" /\ outcome' = "failed"
       ELSE cpc' = "process" /\ UNCHANGED outcome

\* Take n ready items; below `want' with jobs left, go on waiting.
TakeRun(n, want) ==
    IF n < want /\ nextRead + n < TotalJobs /\ ~qClosed
    THEN /\ DrainTakesAndSleeps(n)
         /\ received' = received \o Run(n)
         /\ batch' = batch \o Run(n)
         /\ cpc' = "more"
         /\ UNCHANGED outcome
    ELSE /\ DrainTakes(n)
         /\ Deliver(IF terminalItem = NoItem
                    THEN Run(n) ELSE Append(Run(n), terminalItem))

\* drain_into, phases 1 and 2.  outcome "eof" is what an empty drain reports;
\* the streamer then counts its chunks (FetchFails of HorizonStreamer).
Drain ==
    /\ cpc \in {"idle", "drain"}
    /\ ~notEmpty
    /\ \/ DrainSleeps /\ cpc' = "drain" /\ UNCHANGED <<batch, received, outcome>>
       \/ DrainTerminal /\ Deliver(<<terminalItem>>)
       \/ /\ DrainsNothing
          /\ cpc' = "close"
          /\ outcome' = "eof"
          /\ UNCHANGED <<batch, received>>
       \/ /\ terminalItem = NoItem
          /\ \E n \in 1 .. Capacity : IsRun(n, MaxBatch) /\ TakeRun(n, MinBatch)
    /\ UNCHANGED <<budgetVars, workerVars>>

\* drain_into, phase 3: woken below min_batch.  A close lets at most one more
\* item through.
DrainMore ==
    LET want == IF qClosed THEN 1 ELSE MinBatch - Len(batch)
    IN  /\ cpc = "more"
        /\ ~notEmpty
        /\ \E n \in 0 .. Capacity : IsRun(n, want) /\ TakeRun(n, want)
        /\ UNCHANGED <<budgetVars, workerVars>>

\* Aggregate the batch; an error of the aggregation also ends the stream.
Process ==
    /\ cpc = "process"
    /\ \/ cpc' = "recycle" /\ UNCHANGED outcome
       \/ cpc' = "close" /\ outcome' = "failed"
    /\ UNCHANGED <<batch, received, queueVars, budgetVars, workerVars>>

RecycleOne ==
    /\ cpc = "recycle"
    /\ Recycle(Head(batch).cap)
    /\ batch' = Tail(batch)
    /\ cpc' = IF Len(batch) = 1 THEN "idle" ELSE "recycle"
    /\ UNCHANGED <<received, outcome, queueVars, workerVars>>

\* The stream is dropped between two reads.
Cancel ==
    /\ cpc = "idle"
    /\ cpc' = "close"
    /\ outcome' = "cancelled"
    /\ UNCHANGED <<batch, received, queueVars, budgetVars, workerVars>>

\* Drop: close the queue, close the budget, join the workers.
DropQueue ==
    /\ cpc = "close"
    /\ CloseQueue
    /\ cpc' = "closeBudget"
    /\ UNCHANGED <<batch, received, outcome, budgetVars, workerVars>>

DropBudget ==
    /\ cpc = "closeBudget"
    /\ CloseBudget
    /\ cpc' = "join"
    /\ UNCHANGED <<batch, received, outcome, queueVars, workerVars>>

Join ==
    /\ cpc = "join"
    /\ \A w \in Workers : wpc[w] = "exited"
    /\ cpc' = "gone"
    /\ UNCHANGED <<batch, received, outcome, queueVars, budgetVars, workerVars>>

Consumer ==
    \/ Drain \/ DrainMore \/ Process \/ RecycleOne \/ Cancel
    \/ DropQueue \/ DropBudget \/ Join

\* Every thread has returned.
Finished == cpc = "gone" /\ UNCHANGED vars

Next == Consumer \/ (\E w \in Workers : Worker(w)) \/ Finished

\* The operating system schedules every thread that can run.
Fairness == WF_vars(Consumer) /\ \A w \in Workers : WF_vars(Worker(w))

Spec == Init /\ [][Next]_vars /\ Fairness

-----------------------------------------------------------------------------
(* Properties.                                                              *)

WorkerStates == {"poll", "turn", "fit", "decode", "push", "refund", "abort",
                 "report", "exited"}

ConsumerStates == {"idle", "drain", "more", "process", "recycle", "close",
                   "closeBudget", "join", "gone"}

QueueType ==
    /\ slots \in [0 .. Capacity - 1 -> Items \cup {NoItem}]
    /\ nextRead \in 0 .. TotalJobs
    /\ qClosed \in BOOLEAN
    /\ terminalItem \in {Fatal, NoItem}
    /\ notFull \subseteq Workers
    /\ notEmpty \in BOOLEAN

BudgetType ==
    /\ used \in Int
    /\ nextJob \in Nat
    /\ bClosed \in BOOLEAN
    /\ idle \in Seq(Nat)
    /\ changed \subseteq Workers
    /\ budgetLock \in Workers \cup {NoWorker}

WorkerType ==
    /\ wpc \in [Workers -> WorkerStates]
    /\ wjob \in [Workers -> 0 .. TotalJobs]
    /\ reused \in [Workers -> Nat]
    /\ held \in [Workers -> Nat]
    /\ nextJobIdx \in Nat

ConsumerType ==
    /\ cpc \in ConsumerStates
    /\ batch \in Seq(Items)
    /\ received \in Seq(Items)
    /\ outcome \in {"open", "eof", "failed", "cancelled"}

\* Every variable keeps its type: the ring holds items or is empty, counters
\* are numbers, the sleeping threads are workers.
TypeOK == QueueType /\ BudgetType /\ WorkerType /\ ConsumerType

\* drain_into hands the consumer job 0, 1, 2, ... without gap, repetition or
\* reordering, whatever order the workers finish in and however the ring wraps;
\* only the terminal error of fail() leaves the sequence, and it ends it.
DeliveredInOrder ==
    \A i \in DOMAIN received :
        IF received[i].kind = "fatal"
        THEN i = Len(received)
        ELSE received[i].job = i - 1

\* A push never overwrites a slot the consumer has not emptied: the ring's
\* backpressure keeps two jobs a multiple of Capacity apart from meeting.
NoOverwrite ==
    [][\A s \in DOMAIN slots : slots[s] # NoItem => slots'[s] \in {slots[s], NoItem}]_vars

\* An empty drain means the end of the raster: the consumer that never saw an
\* error has then received every chunk.  A worker's close must not hide a
\* missing chunk (OrderedPrefetchQueue::fail, drain_into's return 0).
NoSilentTruncation ==
    outcome = "eof" =>
        /\ Len(received) = TotalJobs
        /\ \A i \in DOMAIN received : received[i].kind = "ok"

CapOf(item) == IF item = NoItem THEN 0 ELSE item.cap

ByteSum(caps) == Cardinality(Bytes(caps))

SlotCaps(ring) == [s \in DOMAIN ring |-> CapOf(ring[s])]

CapsOf(items) == [i \in DOMAIN items |-> items[i].cap]

\* `used' is exactly the bytes of the buffers being decoded, queued, held by
\* the consumer and idle: no interleaving of acquire, settle, recycle and close
\* counts a buffer twice or forgets one.
BudgetBalanced ==
    used = ByteSum(held) + IdleBytes + ByteSum(SlotCaps(slots)) + ByteSum(CapsOf(batch))

\* The largest expected chunk.
LargestChunk == IF TotalJobs = 0 THEN 0
                ELSE CHOOSE n \in {Need[j] : j \in Jobs} : \A j \in Jobs : Need[j] <= n

Decoding == {w \in Workers : wpc[w] = "decode"}

\* A buffer grows only when it is smaller than the chunk, so doubling it takes
\* it past its reservation by at most this much.
MaxGrowth == Saturate(LargestChunk - 2)

\* What admission and buffer growth together guarantee of the decoded bytes: a
\* grant fits the limit or stands alone, and every decode that has settled
\* since may have exceeded its reservation once.
BudgetBound ==
    used <= Larger(Limit, LargestChunk + MaxGrowth)
            + (Cardinality(Workers) - Cardinality(Decoding)) * MaxGrowth

\* The decode budget is honest: every byte it charges is held by a worker, the idle
\* list, the ring or the consumer, whatever order acquire, settle, recycle and close
\* run in, and admission keeps the charge under the bound.
BudgetSound == BudgetBalanced /\ BudgetBound

\* The bound of docs/engineering.md: max(budget, largest chunk).
DocumentedBudgetBound == used <= Larger(Limit, LargestChunk)

\* Every stream ends and its Drop joins every worker: no worker waits forever
\* for budget, for ring space or for its turn, and the consumer is never left
\* asleep, with any number of failing workers and however early it stops.
Termination == <>(cpc = "gone")

=============================================================================
