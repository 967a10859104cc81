--------------------------- MODULE ChunkReaderProofs ---------------------------
(***************************************************************************)
(* The single-file prefetcher for every number of workers, ring slots,     *)
(* jobs and pooled buffers: the pool's two atomics stay in step, and every *)
(* step of the reader is a step of the chunk stream or leaves it alone.    *)
(***************************************************************************)
EXTENDS ChunkReader, FiniteSetTheorems

Reading == {"idle", "recycle", "exchange", "inject"}
Busy == {"steal", "uncount", "decode"}

-----------------------------------------------------------------------------
(* The pool.  A compare and exchange that succeeds saw the count it adds to, *)
(* so the bound on the loaded count is one on the count itself.              *)

PoolInv ==
    /\ pool \in Nat /\ count \in Nat /\ current \in Nat
    /\ wpc \in [Workers -> {"open", "poll", "exited"} \cup Busy]
    /\ PoolCounted
    /\ count <= PoolCapacity

\* A worker that has stolen a buffer, or taken its buffer off the count, changes the
\* number of buffers still to be counted by one.
LEMMA UncountedMoves ==
  ASSUME wpc \in [Workers -> {"open", "poll", "exited"} \cup Busy],
         NEW w \in Workers, NEW pc \in {"open", "poll", "exited"} \cup Busy,
         wpc' = [wpc EXCEPT ![w] = pc]
  PROVE  /\ Uncounted \in Nat /\ Uncounted' \in Nat
         /\ wpc[w] = "uncount" => Uncounted >= 1
         /\ wpc[w] # "uncount" /\ pc = "uncount" => Uncounted' = Uncounted + 1
         /\ wpc[w] = "uncount" /\ pc # "uncount" => Uncounted' = Uncounted - 1
         /\ wpc[w] # "uncount" /\ pc # "uncount" => Uncounted' = Uncounted
<1> DEFINE S == {v \in Workers : wpc[v] = "uncount"}
           T == {v \in Workers : wpc'[v] = "uncount"}
<1>1. IsFiniteSet(S) /\ Cardinality(S) \in Nat /\ Uncounted = Cardinality(S)
  BY ReaderAssumption, FS_Subset, FS_CardinalityType DEF Uncounted
<1>2. Uncounted' = Cardinality(T)
  BY DEF Uncounted
<1>3. CASE wpc[w] # "uncount" /\ pc = "uncount"
  <2>1. w \notin S /\ T = S \cup {w}
    BY <1>3
  <2> QED BY <1>1, <1>2, <1>3, <2>1, FS_AddElement
<1>4. CASE wpc[w] = "uncount" /\ pc # "uncount"
  <2>1. w \in S /\ T = S \ {w}
    BY <1>4
  <2>2. S # {}
    BY <2>1
  <2>3. Cardinality(T) = Cardinality(S) - 1
    BY <1>1, <2>1, FS_RemoveElement
  <2>4. Cardinality(S) # 0
    BY <1>1, <2>2, FS_EmptySet
  <2> QED BY <1>1, <1>2, <1>4, <2>3, <2>4
<1>5. CASE wpc[w] # "uncount" /\ pc # "uncount"
  <2>1. T = S
    BY <1>5
  <2> QED BY <1>1, <1>2, <1>5, <2>1
<1>6. CASE wpc[w] = "uncount" /\ pc = "uncount"
  <2>1. T = S /\ S # {}
    BY <1>6
  <2>2. Cardinality(S) # 0
    BY <1>1, <2>1, FS_EmptySet
  <2> QED BY <1>1, <1>2, <1>6, <2>1, <2>2
<1> QED BY <1>3, <1>4, <1>5, <1>6

\* A pool starts empty and counted.
LEMMA InitPoolInv == Init => PoolInv
<1> SUFFICES ASSUME Init PROVE PoolInv
  OBVIOUS
<1>1. wpc \in [Workers -> {"open", "poll", "exited"} \cup Busy]
  BY DEF Init
<1>2. {w \in Workers : wpc[w] = "uncount"} = {}
  BY DEF Init
<1>3. Uncounted = 0
  BY <1>2, FS_EmptySet DEF Uncounted
<1> QED BY <1>1, <1>3, ReaderAssumption DEF Init, PoolInv, PoolCounted

\* A step of a worker other than the two atomics of pop moves no buffer.
LEMMA WorkerKeepsPool ==
  ASSUME PoolInv, NEW w \in Workers, NEW pc \in {"open", "poll", "exited"} \cup Busy,
         Goto(w, pc), wpc[w] # "uncount", pc # "uncount",
         UNCHANGED <<pool, count, cpc, current>>
  PROVE  PoolInv'
<1>1. wpc \in [Workers -> {"open", "poll", "exited"} \cup Busy]
  BY DEF PoolInv
<1>2. Uncounted' = Uncounted
  BY <1>1, UncountedMoves DEF Goto
<1>3. wpc' \in [Workers -> {"open", "poll", "exited"} \cup Busy]
  BY <1>1 DEF Goto
<1> QED BY <1>2, <1>3 DEF PoolInv, PoolCounted

\* Neither does a step that leaves every worker, the pool and the push in hand alone.
LEMMA StillPool ==
  ASSUME PoolInv, UNCHANGED <<pool, count, wpc, current>>,
         cpc' = cpc \/ (cpc # "inject" /\ cpc' # "inject")
  PROVE  PoolInv'
<1>1. Uncounted' = Uncounted
  BY DEF Uncounted
<1> QED BY <1>1 DEF PoolInv, PoolCounted

\* Every step of a thread keeps the two atomics in step.
LEMMA NextPoolInv == PoolInv /\ [Next]_readerVars => PoolInv'
<1> SUFFICES ASSUME PoolInv, [Next]_readerVars PROVE PoolInv'
  OBVIOUS
<1>1. wpc \in [Workers -> {"open", "poll", "exited"} \cup Busy]
  BY DEF PoolInv
<1>2. ASSUME NEW w \in Workers, OpenDecoder(w) PROVE PoolInv'
  BY <1>2, WorkerKeepsPool DEF OpenDecoder, Goto, poolVars, consumerVars
<1>3. ASSUME NEW w \in Workers, Claim(w) PROVE PoolInv'
  <2>1. \E pc \in {"exited", "steal"} : Goto(w, pc)
    BY <1>3 DEF Claim
  <2> QED BY <1>3, <2>1, WorkerKeepsPool DEF Claim, Busy, poolVars, consumerVars
<1>4. ASSUME NEW w \in Workers, Steal(w) PROVE PoolInv'
  <2>1. CASE pool > 0
    <3>1. Goto(w, "uncount") /\ pool' = pool - 1 /\ UNCHANGED <<count, cpc, current>>
          /\ wpc[w] = "steal"
      BY <1>4, <2>1 DEF Steal, consumerVars
    <3>2. Uncounted \in Nat /\ Uncounted' = Uncounted + 1
      BY <1>1, <3>1, UncountedMoves DEF Goto, Busy
    <3>3. wpc' \in [Workers -> {"open", "poll", "exited"} \cup Busy]
      BY <1>1, <3>1 DEF Goto, Busy
    <3>4. pool' \in Nat /\ pool' <= pool /\ pool' + Uncounted' = pool + Uncounted
      BY <2>1, <3>1, <3>2 DEF PoolInv
    <3>5. PoolCounted'
      <4> DEFINE injecting == IF cpc = "inject" THEN 1 ELSE 0
      <4>1. injecting' = injecting /\ injecting \in Nat
        BY <3>1
      <4>2. count' = pool' + Uncounted' + injecting'
        BY <3>1, <3>2, <3>4, <4>1 DEF PoolInv, PoolCounted
      <4> QED BY <3>4, <4>2, ReaderAssumption DEF PoolInv, PoolCounted
    <3> QED BY <3>1, <3>3, <3>4, <3>5 DEF PoolInv
  <2>2. CASE ~(pool > 0)
    BY <1>4, <2>2, WorkerKeepsPool DEF Steal, Busy, consumerVars
  <2> QED BY <2>1, <2>2
<1>5. ASSUME NEW w \in Workers, Uncount(w) PROVE PoolInv'
  <2>1. Goto(w, "decode") /\ UNCHANGED <<pool, cpc, current>> /\ wpc[w] = "uncount"
    BY <1>5 DEF Uncount, consumerVars
  <2>2. Uncounted \in Nat /\ Uncounted >= 1 /\ Uncounted' = Uncounted - 1
    <3>1. "decode" \in {"open", "poll", "exited"} \cup Busy /\ "decode" # "uncount"
      BY DEF Busy
    <3>2. wpc' = [wpc EXCEPT ![w] = "decode"]
      BY <2>1 DEF Goto
    <3> QED BY <1>1, <2>1, <3>1, <3>2, UncountedMoves
  <2>3. wpc' \in [Workers -> {"open", "poll", "exited"} \cup Busy]
    BY <1>1, <2>1 DEF Goto, Busy
  <2>4. count >= 1 /\ count' = count - 1
    BY <1>5, <2>2 DEF PoolInv, PoolCounted, Uncount
  <2> QED BY <2>1, <2>2, <2>3, <2>4, ReaderAssumption DEF PoolInv, PoolCounted
<1>6. ASSUME NEW w \in Workers, Push(w) PROVE PoolInv'
  <2>1. CASE UNCHANGED wpc
    BY <1>6, <2>1, StillPool DEF Push, poolVars, consumerVars
  <2>2. CASE \E pc \in {"poll", "exited"} : Goto(w, pc)
    BY <1>6, <2>2, WorkerKeepsPool DEF Push, poolVars, consumerVars
  <2> QED BY <1>6, <2>1, <2>2 DEF Push
<1>7. CASE Drain
  <2>1. cpc = "idle" /\ cpc' # "inject" /\ UNCHANGED <<pool, count, wpc, current>>
    BY <1>7 DEF Drain, Deliver, poolVars, workerVars
  <2> QED BY <2>1, StillPool
<1>8. CASE PushLoads
  <2>1. Uncounted' = Uncounted
    BY <1>8 DEF PushLoads, workerVars, Uncounted
  <2> QED BY <1>8, <2>1 DEF PushLoads, PoolInv, PoolCounted, poolVars, workerVars
<1>9. CASE PushExchanges
  <2>1. Uncounted' = Uncounted
    BY <1>9 DEF PushExchanges, workerVars, Uncounted
  <2>2. Uncounted \in Nat
    BY ReaderAssumption, FS_Subset, FS_CardinalityType DEF Uncounted
  <2> QED BY <1>9, <2>1, <2>2, ReaderAssumption
          DEF PushExchanges, PoolInv, PoolCounted, poolVars, workerVars
<1>10. CASE PushInjects
  <2>1. Uncounted' = Uncounted
    BY <1>10 DEF PushInjects, workerVars, Uncounted
  <2>2. Uncounted \in Nat
    BY ReaderAssumption, FS_Subset, FS_CardinalityType DEF Uncounted
  <2> QED BY <1>10, <2>1, <2>2, ReaderAssumption
          DEF PushInjects, PoolInv, PoolCounted, poolVars, workerVars
<1>11. CASE Cancel
  BY <1>11, StillPool DEF Cancel, poolVars, workerVars
<1>12. CASE DropQueue
  BY <1>12, StillPool DEF DropQueue, poolVars, workerVars
<1>13. CASE Join
  BY <1>13, StillPool DEF Join, poolVars, workerVars
<1>14. CASE UNCHANGED readerVars
  BY <1>14, StillPool DEF readerVars, poolVars, workerVars, consumerVars
<1> QED BY <1>2, <1>3, <1>4, <1>5, <1>6, <1>7, <1>8, <1>9, <1>10, <1>11, <1>12, <1>13, <1>14
        DEF Next, Consumer, Worker

\* The pool's count is never behind its queue, and its capacity bounds what it
\* retains, although pop and push each change the two in separate atomic steps.
THEOREM ReaderPoolCounted == Spec => []PoolCounted
<1>1. PoolInv => PoolCounted
  BY DEF PoolInv
<1> QED BY <1>1, InitPoolInv, NextPoolInv, PTL DEF Spec

-----------------------------------------------------------------------------
(* The ring.  A job is with one worker or in one slot, and never in two      *)
(* places; while the consumer reads, both lie at or after the read position. *)

TypeInv ==
    /\ slots \in [0 .. Capacity - 1 -> Items \cup {NoItem}]
    /\ nextRead \in 0 .. TotalJobs
    /\ qClosed \in BOOLEAN
    /\ terminalItem \in {NoItem, Item("fatal", TotalJobs)}
    /\ wpc \in [Workers -> {"open", "poll", "exited"} \cup Busy]
    /\ wjob \in [Workers -> Nat]
    /\ nextJobIdx \in Nat
    /\ cpc \in Reading \cup {"close", "join", "gone"}
    /\ received \in Seq(Items)
    /\ outcome \in {"open", "eof", "failed", "cancelled"}

WorkersApart ==
    /\ \A w \in Workers : wpc[w] \in Busy => wjob[w] < nextJobIdx /\ wjob[w] < TotalJobs
    /\ \A v, w \in Workers : wpc[v] \in Busy /\ wpc[w] \in Busy /\ wjob[v] = wjob[w] => v = w

RingApart ==
    \A s \in 0 .. Capacity - 1 : slots[s] # NoItem =>
        /\ slots[s].kind \in {"ok", "err"}
        /\ slots[s].job < nextJobIdx
        /\ \A w \in Workers : wpc[w] \in Busy => wjob[w] # slots[s].job

ReadInOrder ==
    cpc \in Reading =>
        /\ outcome = "open"
        /\ Len(received) = nextRead
        /\ nextRead <= nextJobIdx
        /\ qClosed => terminalItem # NoItem
        /\ \A w \in Workers : wpc[w] \in Busy => nextRead <= wjob[w]
        /\ \A s \in 0 .. Capacity - 1 : slots[s] # NoItem =>
              /\ s = Slot(slots[s].job)
              /\ nextRead <= slots[s].job
              /\ slots[s].job < nextRead + Capacity

StreamInv == TypeInv /\ WorkersApart /\ RingApart /\ ReadInOrder

\* What the ring holds is no empty slot.
LEMMA FatalItem == Item("fatal", TotalJobs) \in Items /\ Item("fatal", TotalJobs) # NoItem
BY QueueAssumption, ReaderAssumption DEF Item, Items

\* The reader starts with nothing delivered.
LEMMA InitStreamInv == Init => StreamInv
<1> SUFFICES ASSUME Init PROVE StreamInv
  OBVIOUS
<1>1. TypeInv
  BY QueueAssumption DEF Init, QueueInit, TypeInv, Reading
<1>2. \A s \in 0 .. Capacity - 1 : slots[s] = NoItem
  BY DEF Init, QueueInit
<1>3. \A w \in Workers : wpc[w] \notin Busy
  BY DEF Init, Busy
<1>4. Len(received) = nextRead /\ outcome = "open" /\ ~qClosed /\ nextRead <= nextJobIdx
  BY DEF Init, QueueInit
<1>5. WorkersApart /\ RingApart /\ ReadInOrder
  BY <1>2, <1>3, <1>4 DEF WorkersApart, RingApart, ReadInOrder
<1> QED BY <1>1, <1>5 DEF StreamInv

\* A worker's step that leaves the ring and its job alone: it only matters whether
\* the worker still has a job.
LEMMA WorkerKeepsStream ==
  ASSUME StreamInv, NEW w \in Workers, NEW pc \in {"open", "poll", "exited"} \cup Busy,
         Goto(w, pc), pc \in Busy => wpc[w] \in Busy,
         UNCHANGED <<queueVars, wjob, nextJobIdx, consumerVars>>
  PROVE  StreamInv'
<1>1. wpc \in [Workers -> {"open", "poll", "exited"} \cup Busy]
  BY DEF StreamInv, TypeInv
<1>2. /\ wpc' \in [Workers -> {"open", "poll", "exited"} \cup Busy]
      /\ \A v \in Workers : wpc'[v] \in Busy => wpc[v] \in Busy
  BY <1>1 DEF Goto
<1>3. TypeInv'
  BY <1>2 DEF StreamInv, TypeInv, queueVars, consumerVars
<1>4. WorkersApart'
  BY <1>2 DEF StreamInv, WorkersApart
<1>5. RingApart'
  BY <1>2 DEF StreamInv, RingApart, queueVars
<1>6. ReadInOrder'
  BY <1>2 DEF StreamInv, ReadInOrder, queueVars, consumerVars
<1> QED BY <1>3, <1>4, <1>5, <1>6 DEF StreamInv

\* fail closes the queue under the reader's feet; the error it leaves is seen first.
LEMMA FailKeepsStream ==
  ASSUME StreamInv, NEW w \in Workers, Goto(w, "exited"),
         FailQueue(Item("fatal", TotalJobs)),
         UNCHANGED <<wjob, nextJobIdx, consumerVars>>
  PROVE  StreamInv'
<1>1. /\ wpc \in [Workers -> {"open", "poll", "exited"} \cup Busy]
      /\ qClosed \in BOOLEAN /\ terminalItem \in {NoItem, Item("fatal", TotalJobs)}
  BY DEF StreamInv, TypeInv
<1>2. /\ wpc' \in [Workers -> {"open", "poll", "exited"} \cup Busy]
      /\ \A v \in Workers : wpc'[v] \in Busy => wpc[v] \in Busy
  BY <1>1 DEF Goto, Busy
<1>3. UNCHANGED <<slots, nextRead>> /\ qClosed'
      /\ terminalItem' = IF qClosed THEN terminalItem ELSE Item("fatal", TotalJobs)
  BY DEF FailQueue
<1>4. TypeInv'
  BY <1>1, <1>2, <1>3 DEF StreamInv, TypeInv, FailQueue, consumerVars
<1>5. WorkersApart'
  BY <1>2 DEF StreamInv, WorkersApart
<1>6. RingApart'
  BY <1>2, <1>3 DEF StreamInv, RingApart
<1>7. cpc \in Reading => terminalItem' # NoItem
  BY <1>3, FatalItem DEF StreamInv, ReadInOrder
<1>8. ReadInOrder'
  BY <1>2, <1>3, <1>7 DEF StreamInv, ReadInOrder, consumerVars
<1> QED BY <1>4, <1>5, <1>6, <1>8 DEF StreamInv

\* A worker takes the next job, one that no worker and no slot has.
LEMMA ClaimKeepsStream ==
  ASSUME StreamInv, NEW w \in Workers, wpc[w] = "poll", ~qClosed,
         nextJobIdx' = nextJobIdx + 1,
         wjob' = [wjob EXCEPT ![w] = nextJobIdx],
         Goto(w, IF nextJobIdx >= TotalJobs THEN "exited" ELSE "steal"),
         UNCHANGED <<queueVars, consumerVars>>
  PROVE  StreamInv'
<1>1. /\ wpc \in [Workers -> {"open", "poll", "exited"} \cup Busy]
      /\ wjob \in [Workers -> Nat] /\ nextJobIdx \in Nat /\ nextRead \in Nat
      /\ \A s \in 0 .. Capacity - 1 : slots[s] # NoItem => slots[s].job \in Nat
  BY QueueAssumption DEF StreamInv, TypeInv, Items
<1>2. /\ wpc' \in [Workers -> {"open", "poll", "exited"} \cup Busy]
      /\ wjob' \in [Workers -> Nat] /\ nextJobIdx' \in Nat /\ nextJobIdx < nextJobIdx'
      /\ wjob'[w] = nextJobIdx
      /\ wpc'[w] \in Busy => nextJobIdx < TotalJobs
      /\ \A v \in Workers \ {w} : wpc'[v] = wpc[v] /\ wjob'[v] = wjob[v]
  BY <1>1, QueueAssumption DEF Goto, Busy
<1>3. TypeInv'
  BY <1>2 DEF StreamInv, TypeInv, queueVars, consumerVars
<1>4. WorkersApart'
  <2>1. \A v \in Workers \ {w} : wpc[v] \in Busy =>
           wjob[v] < nextJobIdx /\ wjob[v] < TotalJobs
    BY DEF StreamInv, WorkersApart
  <2>2. ASSUME NEW v \in Workers, wpc'[v] \in Busy
        PROVE  wjob'[v] < nextJobIdx' /\ wjob'[v] < TotalJobs
    BY <1>1, <1>2, <2>1, <2>2, QueueAssumption
  <2>3. ASSUME NEW u \in Workers, NEW v \in Workers, wpc'[u] \in Busy, wpc'[v] \in Busy,
               wjob'[u] = wjob'[v]
        PROVE  u = v
    <3>1. \A x \in Workers \ {w} : wpc'[x] \in Busy => wjob'[x] # nextJobIdx
      BY <1>1, <1>2, <2>1
    <3>2. CASE u # w /\ v # w
      BY <1>2, <2>3, <3>2 DEF StreamInv, WorkersApart
    <3> QED BY <1>2, <2>3, <3>1, <3>2
  <2> QED BY <2>2, <2>3 DEF WorkersApart
<1>5. RingApart'
  <2>1. ASSUME NEW s \in 0 .. Capacity - 1, slots[s] # NoItem
        PROVE  /\ slots[s].kind \in {"ok", "err"}
               /\ slots[s].job < nextJobIdx'
               /\ \A v \in Workers : wpc'[v] \in Busy => wjob'[v] # slots[s].job
    <3>1. /\ slots[s].kind \in {"ok", "err"}
          /\ slots[s].job < nextJobIdx
          /\ \A v \in Workers : wpc[v] \in Busy => wjob[v] # slots[s].job
      BY <2>1 DEF StreamInv, RingApart
    <3> QED BY <1>1, <1>2, <2>1, <3>1
  <2> QED BY <2>1 DEF RingApart, queueVars
<1>6. ReadInOrder'
  <2>1. ASSUME cpc \in Reading, NEW v \in Workers, wpc'[v] \in Busy
        PROVE  nextRead <= wjob'[v]
    BY <1>2, <2>1 DEF StreamInv, ReadInOrder
  <2>2. cpc \in Reading => nextRead <= nextJobIdx'
    BY <1>1, <1>2 DEF StreamInv, ReadInOrder
  <2> QED BY <2>1, <2>2 DEF StreamInv, ReadInOrder, queueVars, consumerVars
<1> QED BY <1>3, <1>4, <1>5, <1>6 DEF StreamInv

\* A worker stores its item in the slot of its job; the job is no longer its own.
LEMMA StoreKeepsStream ==
  ASSUME StreamInv, NEW w \in Workers, wpc[w] = "decode", NEW kind \in {"ok", "err"},
         PushStores(wjob[w], Item(kind, wjob[w])), Goto(w, "poll"),
         UNCHANGED <<wjob, nextJobIdx, consumerVars>>
  PROVE  StreamInv'
<1> DEFINE job == wjob[w]
           item == Item(kind, job)
<1>1. /\ wpc \in [Workers -> {"open", "poll", "exited"} \cup Busy]
      /\ job \in Nat /\ job < TotalJobs /\ job < nextJobIdx
      /\ wpc[w] \in Busy
  BY DEF StreamInv, TypeInv, WorkersApart, Busy
<1>2. item \in Items /\ item # NoItem /\ item.kind \in {"ok", "err"} /\ item.job = job
      /\ Slot(job) \in 0 .. Capacity - 1
  BY <1>1, QueueAssumption, ReaderAssumption, SlotType DEF Item, Items
<1>3. /\ slots \in [0 .. Capacity - 1 -> Items \cup {NoItem}]
      /\ slots' = [slots EXCEPT ![Slot(job)] = item]
      /\ UNCHANGED <<nextRead, qClosed, terminalItem>>
      /\ ~qClosed /\ job < nextRead + Capacity
  BY <1>1, QueueAssumption DEF StreamInv, TypeInv, PushStores, MustWait
<1>4. /\ wpc' \in [Workers -> {"open", "poll", "exited"} \cup Busy]
      /\ wpc'[w] \notin Busy
      /\ \A v \in Workers : wpc'[v] \in Busy => v # w /\ wpc[v] \in Busy
  BY <1>1 DEF Goto, Busy
<1> HIDE DEF item
<1>5. TypeInv'
  BY <1>2, <1>3, <1>4 DEF StreamInv, TypeInv, consumerVars
<1>6. WorkersApart'
  BY <1>4 DEF StreamInv, WorkersApart
<1>7. RingApart'
  <2>1. ASSUME NEW s \in 0 .. Capacity - 1, slots'[s] # NoItem
        PROVE  /\ slots'[s].kind \in {"ok", "err"}
               /\ slots'[s].job < nextJobIdx
               /\ \A v \in Workers : wpc'[v] \in Busy => wjob[v] # slots'[s].job
    <3>1. CASE s = Slot(job)
      <4>1. slots'[s] = item
        BY <1>2, <1>3, <3>1
      <4>2. \A v \in Workers : wpc'[v] \in Busy => wjob[v] # job
        BY <1>1, <1>4 DEF StreamInv, WorkersApart
      <4> QED BY <1>1, <1>2, <4>1, <4>2
    <3>2. CASE s # Slot(job)
      <4>1. slots'[s] = slots[s]
        BY <1>3, <3>2
      <4> QED BY <1>4, <2>1, <4>1 DEF StreamInv, RingApart
    <3> QED BY <3>1, <3>2
  <2> QED BY <2>1 DEF RingApart
<1>8. ReadInOrder'
  <2>1. ASSUME cpc \in Reading, NEW s \in 0 .. Capacity - 1, slots'[s] # NoItem
        PROVE  /\ s = Slot(slots'[s].job)
               /\ nextRead <= slots'[s].job
               /\ slots'[s].job < nextRead + Capacity
    <3>1. CASE s = Slot(job)
      <4>1. slots'[s] = item
        BY <1>2, <1>3, <3>1
      <4>2. nextRead <= job
        BY <1>1, <2>1 DEF StreamInv, ReadInOrder
      <4> QED BY <1>2, <1>3, <3>1, <4>1, <4>2
    <3>2. CASE s # Slot(job)
      <4>1. slots'[s] = slots[s]
        BY <1>3, <3>2
      <4> QED BY <2>1, <4>1 DEF StreamInv, ReadInOrder
    <3> QED BY <3>1, <3>2
  <2>2. ASSUME cpc \in Reading, NEW v \in Workers, wpc'[v] \in Busy
        PROVE  nextRead <= wjob[v]
    BY <1>4, <2>2 DEF StreamInv, ReadInOrder
  <2> QED BY <1>3, <2>1, <2>2 DEF StreamInv, ReadInOrder, consumerVars
<1> QED BY <1>5, <1>6, <1>7, <1>8 DEF StreamInv

\* The consumer's steps that touch neither the ring nor what it has received.
LEMMA ConsumerKeepsStream ==
  ASSUME StreamInv, UNCHANGED <<slots, nextRead, terminalItem, workerVars, received>>,
         \/ cpc \in Reading /\ cpc' \in Reading /\ UNCHANGED <<qClosed, outcome>>
         \/ /\ cpc' \in {"close", "join", "gone"}
            /\ qClosed' \in BOOLEAN
            /\ outcome' \in {"open", "eof", "failed", "cancelled"}
  PROVE  StreamInv'
<1>1. TypeInv'
  BY DEF StreamInv, TypeInv, workerVars
<1>2. WorkersApart'
  BY DEF StreamInv, WorkersApart, workerVars
<1>3. RingApart'
  BY DEF StreamInv, RingApart, workerVars
<1>4. ReadInOrder'
  BY DEF StreamInv, ReadInOrder, workerVars, Reading
<1> QED BY <1>1, <1>2, <1>3, <1>4 DEF StreamInv


\* The terminal item is handed out with nothing to follow it.
LEMMA TerminalEndsStream ==
  ASSUME StreamInv, cpc = "idle", DrainTerminal, Deliver(<<terminalItem>>),
         UNCHANGED workerVars
  PROVE  /\ StreamInv'
         /\ received' = Append(received, Item("fatal", TotalJobs))
         /\ outcome' = "failed"
<1>1. terminalItem = Item("fatal", TotalJobs) /\ terminalItem.kind = "fatal"
  BY DEF DrainTerminal, StreamInv, TypeInv, Item
<1>2. received \in Seq(Items) /\ terminalItem \in Items
  BY <1>1, FatalItem DEF StreamInv, TypeInv
<1>3. received' = Append(received, terminalItem) /\ received' \in Seq(Items)
  BY <1>2 DEF Deliver
<1>4. cpc' = "close" /\ outcome' = "failed"
  <2>1. <<terminalItem>>[1].kind # "ok" /\ 1 \in DOMAIN <<terminalItem>>
    BY <1>1
  <2> QED BY <2>1 DEF Deliver
<1>5. UNCHANGED <<slots, qClosed, workerVars>> /\ nextRead' = TotalJobs /\ terminalItem' = NoItem
  BY DEF DrainTerminal
<1>6. TypeInv'
  BY <1>3, <1>4, <1>5, QueueAssumption DEF StreamInv, TypeInv, workerVars
<1>7. WorkersApart' /\ RingApart'
  BY <1>5 DEF StreamInv, WorkersApart, RingApart, workerVars
<1>8. ReadInOrder'
  BY <1>4 DEF ReadInOrder, Reading
<1> QED BY <1>1, <1>3, <1>4, <1>6, <1>7, <1>8 DEF StreamInv

\* While the consumer reads, the ready run is the next items of the stream.
LEMMA RunContinues ==
  ASSUME StreamInv, cpc = "idle", NEW n \in 1 .. Capacity, IsRun(n, MaxBatch)
  PROVE  /\ Run(n) \in Seq(Items) /\ Len(Run(n)) = n
         /\ nextRead + n \in 0 .. TotalJobs
         /\ WithoutRun(n) \in [0 .. Capacity - 1 -> Items \cup {NoItem}]
         /\ \A k \in 0 .. n - 1 : /\ Slot(nextRead + k) \in 0 .. Capacity - 1
                                  /\ slots[Slot(nextRead + k)] # NoItem
                                  /\ slots[Slot(nextRead + k)].job = nextRead + k
         /\ Run(n) \in Stream!Continuations(n)
         /\ Stream!HasError(Run(n)) <=> \E i \in DOMAIN Run(n) : Run(n)[i].kind # "ok"
<1>1. /\ slots \in [0 .. Capacity - 1 -> Items \cup {NoItem}]
      /\ nextRead \in 0 .. TotalJobs /\ nextRead \in Nat
      /\ MaxBatch \in Int /\ n \in 0 .. Capacity
      /\ Len(received) = nextRead
  BY QueueAssumption, ReaderAssumption DEF StreamInv, TypeInv, ReadInOrder, Reading
<1>2. /\ Run(n) \in Seq(Items) /\ Len(Run(n)) = n
      /\ \A i \in 1 .. n : Run(n)[i] = slots[Slot(nextRead + i - 1)]
      /\ WithoutRun(n) \in [0 .. Capacity - 1 -> Items \cup {NoItem}]
      /\ nextRead + n \in 0 .. TotalJobs
  BY <1>1, RunOfItems
<1>3. \A s \in 0 .. Capacity - 1 : slots[s] # NoItem =>
         /\ slots[s].job \in Nat
         /\ s = Slot(slots[s].job)
         /\ nextRead <= slots[s].job
         /\ slots[s].job < nextRead + Capacity
  BY <1>1 DEF StreamInv, ReadInOrder, Reading, Items
<1>4. \A k \in 0 .. n - 1 : /\ Slot(nextRead + k) \in 0 .. Capacity - 1
                            /\ slots[Slot(nextRead + k)] # NoItem
                            /\ slots[Slot(nextRead + k)].job = nextRead + k
  BY <1>1, <1>3, RunInOrder
<1>5. \A i \in 1 .. n : /\ Run(n)[i] \in Items
                        /\ Run(n)[i].job = nextRead + i - 1
                        /\ Run(n)[i].kind \in {"ok", "err"}
  <2> TAKE i \in 1 .. n
  <2>1. i - 1 \in 0 .. n - 1 /\ nextRead + (i - 1) = nextRead + i - 1
    BY <1>1
  <2>2. slots[Slot(nextRead + i - 1)].kind \in {"ok", "err"}
    BY <1>4, <2>1 DEF StreamInv, RingApart
  <2> QED BY <1>2, <1>4, <2>1, <2>2
<1>6. Run(n) \in Stream!Continuations(n)
  <2> DEFINE kinds == [i \in 1 .. n |-> Run(n)[i].kind]
             items == [i \in 1 .. n |-> [kind |-> kinds[i], job |-> Len(received) + i - 1]]
  <2>1. kinds \in [1 .. n -> {"ok", "err"}]
    BY <1>5
  <2>2. \A i \in 1 .. n : Run(n)[i] = [kind |-> kinds[i], job |-> Len(received) + i - 1]
    BY <1>1, <1>5 DEF Items
  <2>3. Run(n) = items
    BY <2>2 DEF Run
  <2> HIDE DEF kinds
  <2> QED BY <2>1, <2>3 DEF Stream!Continuations
<1>7. DOMAIN Run(n) = 1 .. n
  BY DEF Run
<1>8. Stream!HasError(Run(n)) <=> \E i \in DOMAIN Run(n) : Run(n)[i].kind # "ok"
  BY <1>5, <1>7 DEF Stream!HasError
<1> QED BY <1>2, <1>4, <1>6, <1>8

\* Taking the run leaves the later jobs, and the workers' own, after the new position.
LEMMA TakeKeepsStream ==
  ASSUME StreamInv, cpc = "idle", terminalItem = NoItem,
         NEW n \in 1 .. Capacity, IsRun(n, MaxBatch), DrainTakes(n), Deliver(Run(n)),
         UNCHANGED workerVars
  PROVE  StreamInv'
<1>1. /\ Run(n) \in Seq(Items) /\ Len(Run(n)) = n
      /\ nextRead + n \in 0 .. TotalJobs
      /\ WithoutRun(n) \in [0 .. Capacity - 1 -> Items \cup {NoItem}]
      /\ \A k \in 0 .. n - 1 : /\ Slot(nextRead + k) \in 0 .. Capacity - 1
                               /\ slots[Slot(nextRead + k)] # NoItem
                               /\ slots[Slot(nextRead + k)].job = nextRead + k
  BY RunContinues
<1>2. /\ slots' = WithoutRun(n) /\ nextRead' = nextRead + n /\ terminalItem' = NoItem
      /\ qClosed' = qClosed /\ received' = received \o Run(n)
  BY DEF DrainTakes, Deliver
<1>3. /\ nextRead \in Nat /\ n \in Nat /\ received \in Seq(Items)
      /\ nextRead <= nextJobIdx /\ nextJobIdx \in Nat
      /\ outcome = "open" /\ Len(received) = nextRead /\ ~qClosed
      /\ wjob \in [Workers -> Nat]
      /\ \A s \in 0 .. Capacity - 1 : slots[s] # NoItem => slots[s].job \in Nat
  BY QueueAssumption DEF StreamInv, TypeInv, ReadInOrder, Reading, Items
<1>4. /\ cpc' \in {"close", "recycle"}
      /\ outcome' \in {"open", "failed"}
      /\ cpc' = "recycle" => outcome' = "open"
  BY <1>3 DEF Deliver
<1>5. received' \in Seq(Items) /\ Len(received') = nextRead'
  <2>1. \A p, q \in Seq(Items) : p \o q \in Seq(Items) /\ Len(p \o q) = Len(p) + Len(q)
    OBVIOUS
  <2>2. Len(received \o Run(n)) = Len(received) + n
    BY <1>1, <1>3, <2>1
  <2> QED BY <1>1, <1>2, <1>3, <2>1, <2>2
<1>6. TypeInv'
  BY <1>1, <1>2, <1>4, <1>5 DEF StreamInv, TypeInv, workerVars, Reading
<1>7. \A s \in 0 .. Capacity - 1 : slots'[s] # NoItem =>
         /\ slots'[s] = slots[s]
         /\ \A k \in 0 .. n - 1 : s # Slot(nextRead + k)
  BY <1>2 DEF WithoutRun
<1>8. WorkersApart' /\ RingApart'
  BY <1>7 DEF StreamInv, WorkersApart, RingApart, workerVars
<1>9. nextRead' <= nextJobIdx
  <2>1. n - 1 \in 0 .. n - 1 /\ nextRead + (n - 1) = nextRead + n - 1
    BY <1>3
  <2>2. slots[Slot(nextRead + (n - 1))].job < nextJobIdx
    BY <1>1, <2>1 DEF StreamInv, RingApart
  <2>3. nextRead + (n - 1) < nextJobIdx
    BY <1>1, <2>1, <2>2
  <2> QED BY <1>2, <1>3, <2>3
<1>10. ASSUME NEW v \in Workers, wpc[v] \in Busy
       PROVE  nextRead' <= wjob[v]
  <2>1. nextRead <= wjob[v] /\ wjob[v] \in Nat
    BY <1>3, <1>10 DEF StreamInv, ReadInOrder, Reading
  <2>2. \A k \in 0 .. n - 1 : wjob[v] # nextRead + k
    BY <1>1, <1>10 DEF StreamInv, RingApart
  <2>3. wjob[v] - nextRead \notin 0 .. n - 1
    BY <1>3, <2>1, <2>2
  <2> QED BY <1>2, <1>3, <2>1, <2>3
<1>11. ASSUME NEW s \in 0 .. Capacity - 1, slots'[s] # NoItem
       PROVE  /\ s = Slot(slots'[s].job)
              /\ nextRead' <= slots'[s].job
              /\ slots'[s].job < nextRead' + Capacity
  <2> DEFINE j == slots[s].job
  <2>1. slots'[s] = slots[s] /\ \A k \in 0 .. n - 1 : s # Slot(nextRead + k)
    BY <1>7, <1>11
  <2>2. s = Slot(j) /\ nextRead <= j /\ j < nextRead + Capacity /\ j \in Nat
    BY <1>3, <1>11, <2>1 DEF StreamInv, ReadInOrder, Reading
  <2> HIDE DEF j
  <2>3. j - nextRead \notin 0 .. n - 1
    <3>1. SUFFICES ASSUME j - nextRead \in 0 .. n - 1 PROVE FALSE
      OBVIOUS
    <3>2. nextRead + (j - nextRead) = j
      BY <1>3, <2>2
    <3> QED BY <2>1, <2>2, <3>1, <3>2
  <2>4. nextRead + n <= j /\ j < nextRead + n + Capacity
    BY <1>3, <2>2, <2>3, QueueAssumption
  <2> QED BY <1>2, <2>1, <2>2, <2>4 DEF j
<1>12. ReadInOrder'
  BY <1>2, <1>3, <1>4, <1>5, <1>9, <1>10, <1>11 DEF ReadInOrder, workerVars, Reading
<1> QED BY <1>6, <1>8, <1>12 DEF StreamInv

-----------------------------------------------------------------------------
(* The steps of the reader, and what the caller sees of each.                *)

\* A worker's step keeps the invariant and leaves the chunk stream alone.
LEMMA WorkerStep ==
  ASSUME StreamInv, NEW w \in Workers, Worker(w)
  PROVE  StreamInv' /\ UNCHANGED <<received, outcome>>
<1>1. UNCHANGED consumerVars
  BY DEF Worker, OpenDecoder, Claim, Steal, Uncount, Push
<1> SUFFICES StreamInv'
  BY <1>1 DEF consumerVars
<1>2. CASE OpenDecoder(w)
  <2>1. CASE Goto(w, "poll") /\ UNCHANGED queueVars
    BY <1>1, <1>2, <2>1, WorkerKeepsStream DEF OpenDecoder, Busy
  <2>2. CASE FailQueue(Item("fatal", TotalJobs)) /\ Goto(w, "exited")
    BY <1>1, <1>2, <2>2, FailKeepsStream DEF OpenDecoder
  <2> QED BY <1>2, <2>1, <2>2 DEF OpenDecoder
<1>3. CASE Claim(w)
  <2>1. CASE qClosed
    BY <1>1, <1>3, <2>1, WorkerKeepsStream DEF Claim, Busy
  <2>2. CASE ~qClosed
    BY <1>1, <1>3, <2>2, ClaimKeepsStream DEF Claim
  <2> QED BY <2>1, <2>2
<1>4. CASE Steal(w)
  <2>1. \E pc \in {"uncount", "decode"} : Goto(w, pc)
    BY <1>4 DEF Steal
  <2> QED BY <1>1, <1>4, <2>1, WorkerKeepsStream DEF Steal, Busy
<1>5. CASE Uncount(w)
  BY <1>1, <1>5, WorkerKeepsStream DEF Uncount, Busy
<1>6. CASE Push(w)
  <2>1. wpc[w] = "decode" /\ UNCHANGED <<wjob, nextJobIdx>>
    BY <1>6 DEF Push
  <2>2. CASE PushSleeps(w, wjob[w]) /\ UNCHANGED wpc
    <3>1. UNCHANGED <<slots, nextRead, qClosed, terminalItem, wpc>>
      BY <2>2 DEF PushSleeps
    <3>2. TypeInv' /\ WorkersApart' /\ RingApart' /\ ReadInOrder'
      BY <1>1, <2>1, <3>1
         DEF StreamInv, TypeInv, WorkersApart, RingApart, ReadInOrder, consumerVars
    <3> QED BY <3>2 DEF StreamInv
  <2>3. CASE \E kind \in {"ok", "err"} :
                PushStores(wjob[w], Item(kind, wjob[w])) /\ Goto(w, "poll")
    BY <1>1, <2>1, <2>3, StoreKeepsStream
  <2>4. CASE PushRefused /\ Goto(w, "exited")
    BY <1>1, <2>1, <2>4, WorkerKeepsStream DEF PushRefused, Busy
  <2>5. CASE FailQueue(Item("fatal", TotalJobs)) /\ Goto(w, "exited")
    BY <1>1, <2>1, <2>5, FailKeepsStream
  <2> QED BY <1>6, <2>2, <2>3, <2>4, <2>5 DEF Push
<1> QED BY <1>2, <1>3, <1>4, <1>5, <1>6 DEF Worker

\* A step of the draining thread keeps the invariant and is one of the chunk stream's.
LEMMA DrainStep ==
  ASSUME StreamInv, Drain
  PROVE  StreamInv' /\ [Stream!Next]_(Stream!streamVars)
<1>1. /\ cpc = "idle" /\ UNCHANGED <<poolVars, workerVars>>
      /\ outcome = "open" /\ Len(received) = nextRead
      /\ qClosed => terminalItem # NoItem
  BY DEF Drain, StreamInv, ReadInOrder, Reading
<1>2. CASE DrainSleeps /\ UNCHANGED <<cpc, batch, received, outcome>>
  <2>1. StreamInv'
    BY <1>1, <1>2, ConsumerKeepsStream DEF DrainSleeps, Reading
  <2> QED BY <1>2, <2>1 DEF Stream!streamVars
<1>3. CASE DrainTerminal /\ Deliver(<<terminalItem>>)
  <2>1. /\ StreamInv'
        /\ received' = Append(received, Item("fatal", TotalJobs)) /\ outcome' = "failed"
    BY <1>1, <1>3, TerminalEndsStream
  <2>2. Stream!DeliverFatal
    BY <1>1, <2>1 DEF Stream!DeliverFatal, Item
  <2> QED BY <2>1, <2>2 DEF Stream!Next
<1>4. CASE DrainsNothing /\ cpc' = "close" /\ outcome' = "eof" /\ UNCHANGED <<batch, received>>
  <2>1. UNCHANGED queueVars /\ nextRead = TotalJobs
    BY <1>1, <1>4, QueueAssumption DEF DrainsNothing, StreamInv, TypeInv
  <2>2. StreamInv'
    <3>1. qClosed' \in BOOLEAN
      BY <2>1 DEF queueVars, StreamInv, TypeInv
    <3> QED BY <1>1, <1>4, <2>1, <3>1, ConsumerKeepsStream DEF queueVars
  <2>3. Stream!End
    BY <1>1, <1>4, <2>1 DEF Stream!End
  <2> QED BY <2>2, <2>3 DEF Stream!Next
<1>5. ASSUME terminalItem = NoItem, NEW n \in 1 .. Capacity, IsRun(n, MaxBatch),
             DrainTakes(n), Deliver(Run(n))
      PROVE  StreamInv' /\ [Stream!Next]_(Stream!streamVars)
  <2>1. StreamInv'
    BY <1>1, <1>5, TakeKeepsStream
  <2>2. /\ Run(n) \in Stream!Continuations(n)
        /\ Stream!HasError(Run(n)) <=> \E i \in DOMAIN Run(n) : Run(n)[i].kind # "ok"
        /\ nextRead + n \in 0 .. TotalJobs
    BY <1>1, <1>5, RunContinues
  <2>3. /\ received' = received \o Run(n)
        /\ outcome' = IF Stream!HasError(Run(n)) THEN "failed" ELSE "open"
    BY <1>1, <1>5, <2>2 DEF Deliver
  <2>4. n \in 1 .. TotalJobs /\ Len(received) + n <= TotalJobs
    BY <1>1, <2>2, QueueAssumption DEF StreamInv, TypeInv
  <2>5. Stream!Deliver(n)
    BY <1>1, <2>2, <2>3, <2>4 DEF Stream!Deliver
  <2> QED BY <2>1, <2>4, <2>5 DEF Stream!Next
<1> QED BY <1>2, <1>3, <1>4, <1>5 DEF Drain

\* Every step keeps the invariant.
LEMMA NextStreamInv ==
  ASSUME StreamInv, [Next]_readerVars
  PROVE  StreamInv' /\ [Stream!Next]_(Stream!streamVars)
<1>1. qClosed \in BOOLEAN /\ outcome \in {"open", "eof", "failed", "cancelled"}
  BY DEF StreamInv, TypeInv
<1>2. ASSUME NEW w \in Workers, Worker(w)
      PROVE  StreamInv' /\ [Stream!Next]_(Stream!streamVars)
  BY <1>2, WorkerStep DEF Stream!streamVars
<1>3. CASE Drain
  BY <1>3, DrainStep
<1>4. CASE PushLoads \/ PushExchanges \/ PushInjects
  <2>1. cpc \in Reading /\ cpc' \in Reading
    BY <1>4 DEF PushLoads, PushExchanges, PushInjects, Reading
  <2>2. UNCHANGED <<slots, nextRead, terminalItem, qClosed, workerVars, received, outcome>>
    BY <1>4 DEF PushLoads, PushExchanges, PushInjects, queueVars
  <2> QED BY <2>1, <2>2, ConsumerKeepsStream DEF Stream!streamVars
<1>5. CASE Cancel
  <2>1. outcome = "open"
    BY <1>5 DEF Cancel, StreamInv, ReadInOrder, Reading
  <2>2. Stream!Stop
    BY <1>5, <2>1 DEF Cancel, Stream!Stop
  <2>3. StreamInv'
    BY <1>1, <1>5, ConsumerKeepsStream DEF Cancel, queueVars
  <2> QED BY <2>2, <2>3 DEF Stream!Next
<1>6. CASE DropQueue
  <2>1. StreamInv'
    BY <1>1, <1>6, ConsumerKeepsStream DEF DropQueue, CloseQueue
  <2> QED BY <1>6, <2>1 DEF DropQueue, Stream!streamVars
<1>7. CASE Join
  <2>1. StreamInv'
    BY <1>1, <1>7, ConsumerKeepsStream DEF Join, queueVars
  <2> QED BY <1>7, <2>1 DEF Join, Stream!streamVars
<1>8. CASE UNCHANGED readerVars
  <2>1. TypeInv' /\ WorkersApart' /\ RingApart' /\ ReadInOrder'
    BY <1>8 DEF StreamInv, TypeInv, WorkersApart, RingApart, ReadInOrder,
                readerVars, queueVars, workerVars, consumerVars
  <2> QED BY <1>8, <2>1 DEF StreamInv, readerVars, consumerVars, Stream!streamVars
<1> QED BY <1>2, <1>3, <1>4, <1>5, <1>6, <1>7, <1>8 DEF Next, Consumer

\* The single-file prefetcher delivers the chunk stream its callers count on: every
\* step hands on the next chunks in job order, ends the stream after the last one or
\* with an error, or is not seen at all.
THEOREM ReaderStepsStream == Spec => Stream!Init /\ [][Stream!Next]_(Stream!streamVars)
<1>1. Init => Stream!Init
  BY DEF Init, Stream!Init
<1> QED BY <1>1, InitStreamInv, NextStreamInv, PTL DEF Spec

=============================================================================
