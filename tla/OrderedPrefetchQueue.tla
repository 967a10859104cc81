------------------------- MODULE OrderedPrefetchQueue -------------------------
(***************************************************************************)
(* The bounded ring buffer of raster/prefetch.rs that hands decoded chunks *)
(* from the decode workers to the one consumer in job order.               *)
(*                                                                         *)
(* Every operator below is one critical section of the queue's mutex.  A   *)
(* condition variable is the set of threads asleep on it; notify_all       *)
(* empties the set, and a thread in the set takes no step.  Spurious       *)
(* wake-ups are left out: every wait re-tests its condition in a loop.     *)
(***************************************************************************)
EXTENDS Integers, Sequences, FiniteSets, TLAPS

CONSTANTS Capacity,     \* ring slots; the code uses max(requested, 16)
          TotalJobs,    \* jobs the workers deliver, numbered 0 .. TotalJobs-1
          NoItem        \* an empty slot, or no terminal item

ASSUME QueueAssumption ==
    /\ Capacity \in Nat \ {0}
    /\ TotalJobs \in Nat

VARIABLES slots,         \* the ring: job j goes to slot j % Capacity
          nextRead,      \* the job the consumer takes next
          qClosed,       \* no more pushes are accepted
          terminalItem,  \* an error to deliver out of order
          notFull,       \* workers asleep on the not_full condition variable
          notEmpty       \* the consumer is asleep on not_empty

queueVars == <<slots, nextRead, qClosed, terminalItem, notFull, notEmpty>>

Slot(job) == job % Capacity

QueueInit ==
    /\ slots = [s \in 0 .. Capacity - 1 |-> NoItem]
    /\ nextRead = 0
    /\ qClosed = FALSE
    /\ terminalItem = NoItem
    /\ notFull = {}
    /\ notEmpty = FALSE

-----------------------------------------------------------------------------
(* push: a worker deposits the result of a job.                            *)

\* Wrong: one job too many is let into the ring.
MustWaitOffByOne(job) == job > nextRead + Capacity /\ ~qClosed

MustWait(job) == job >= nextRead + Capacity /\ ~qClosed

PushSleeps(w, job) ==
    /\ MustWait(job)
    /\ notFull' = notFull \cup {w}
    /\ UNCHANGED <<slots, nextRead, qClosed, terminalItem, notEmpty>>

PushStores(job, item) ==
    /\ ~qClosed
    /\ ~MustWait(job)
    /\ slots' = [slots EXCEPT ![Slot(job)] = item]
    /\ notEmpty' = IF job = nextRead THEN FALSE ELSE notEmpty
    /\ UNCHANGED <<nextRead, qClosed, terminalItem, notFull>>

PushRefused == qClosed /\ UNCHANGED queueVars

-----------------------------------------------------------------------------
(* close and fail: both wake everyone; only the first closer's error stays. *)

CloseQueue ==
    /\ qClosed' = TRUE
    /\ notFull' = {}
    /\ notEmpty' = FALSE
    /\ UNCHANGED <<slots, nextRead, terminalItem>>

\* Wrong: the error is dropped, only the close remains.
FailQueueDropsItem(item) == CloseQueue

FailQueue(item) ==
    /\ terminalItem' = IF qClosed THEN terminalItem ELSE item
    /\ qClosed' = TRUE
    /\ notFull' = {}
    /\ notEmpty' = FALSE
    /\ UNCHANGED <<slots, nextRead>>

-----------------------------------------------------------------------------
(* drain_into: the consumer takes a batch.  The wait for the first item     *)
(* and the wait for min_batch items release the mutex, so the operation is  *)
(* split there.                                                             *)

HeadReady == slots[Slot(nextRead)] # NoItem

\* Nothing to take yet: the test of both wait loops of drain_into.
DrainMustWait == nextRead < TotalJobs /\ ~HeadReady /\ ~qClosed

\* n is the length of the contiguous run of ready jobs, cut at max.
IsRun(n, max) ==
    /\ n <= max
    /\ nextRead + n <= TotalJobs
    /\ \A i \in 0 .. n - 1 : slots[Slot(nextRead + i)] # NoItem
    /\ \/ n = max
       \/ n = Capacity
       \/ nextRead + n = TotalJobs
       \/ slots[Slot(nextRead + n)] = NoItem

Run(n) == [i \in 1 .. n |-> slots[Slot(nextRead + i - 1)]]

WithoutRun(n) ==
    [s \in 0 .. Capacity - 1 |->
        IF \E i \in 0 .. n - 1 : s = Slot(nextRead + i) THEN NoItem ELSE slots[s]]

DrainSleeps ==
    /\ DrainMustWait
    /\ notEmpty' = TRUE
    /\ UNCHANGED <<slots, nextRead, qClosed, terminalItem, notFull>>

\* The terminal item overtakes everything that is still in the ring.
DrainTerminal ==
    /\ terminalItem # NoItem
    /\ nextRead' = TotalJobs
    /\ terminalItem' = NoItem
    /\ UNCHANGED <<slots, qClosed, notFull, notEmpty>>

DrainsNothing ==
    /\ terminalItem = NoItem
    /\ nextRead >= TotalJobs \/ (qClosed /\ ~HeadReady)
    /\ UNCHANGED queueVars

\* Wrong: the read position runs ahead of what was taken.
DrainTakesSkips(n) ==
    /\ slots' = WithoutRun(n)
    /\ nextRead' = IF terminalItem = NoItem THEN nextRead + n + 1 ELSE TotalJobs
    /\ terminalItem' = NoItem
    /\ notFull' = {}
    /\ UNCHANGED <<qClosed, notEmpty>>

\* Take n items and return to the caller: a terminal item that arrived while
\* the consumer slept in phase 3 ends the batch.
DrainTakes(n) ==
    /\ slots' = WithoutRun(n)
    /\ nextRead' = IF terminalItem = NoItem THEN nextRead + n ELSE TotalJobs
    /\ terminalItem' = NoItem
    /\ notFull' = {}
    /\ UNCHANGED <<qClosed, notEmpty>>

\* Take n items, fewer than min_batch, and sleep for more; the released
\* capacity is published before sleeping.
DrainTakesAndSleeps(n) ==
    /\ slots' = WithoutRun(n)
    /\ nextRead' = nextRead + n
    /\ notFull' = {}
    /\ notEmpty' = TRUE
    /\ UNCHANGED <<qClosed, terminalItem>>

-----------------------------------------------------------------------------
(* Facts about the operators, for the proofs about the prefetchers.         *)

\* Every job has a slot of the ring.
LEMMA SlotType ==
  ASSUME NEW job \in Nat
  PROVE  Slot(job) \in 0 .. Capacity - 1
BY QueueAssumption DEF Slot

\* Two jobs of one window of Capacity jobs that share a slot are the same job.
LEMMA SlotInjective ==
  ASSUME NEW low \in Nat, NEW a \in Nat, NEW b \in Nat,
         low <= a, a < low + Capacity, low <= b, b < low + Capacity,
         Slot(a) = Slot(b)
  PROVE  a = b
<1> DEFINE qa == a \div Capacity
           qb == b \div Capacity
<1>1. /\ a = Capacity * qa + (a % Capacity) /\ qa \in Int
      /\ b = Capacity * qb + (b % Capacity) /\ qb \in Int
      /\ a % Capacity = b % Capacity
      /\ a % Capacity \in Nat
  BY QueueAssumption DEF Slot
<1>2. a - b = Capacity * (qa - qb)
  BY <1>1, QueueAssumption
<1> HIDE DEF qa, qb
<1>3. CASE qa - qb >= 1
  <2>1. Capacity * (qa - qb) >= Capacity
    BY <1>1, <1>3, QueueAssumption
  <2> QED BY <2>1, <1>2, QueueAssumption
<1>4. CASE qa - qb <= -1
  <2>1. Capacity * (qa - qb) <= -Capacity
    BY <1>1, <1>4, QueueAssumption
  <2> QED BY <2>1, <1>2, QueueAssumption
<1>5. CASE qa - qb = 0
  BY <1>1, <1>2, <1>5, QueueAssumption
<1> QED BY <1>1, <1>3, <1>4, <1>5

\* The ready run of length n is a sequence of n of the ring's items, and emptying
\* it leaves a ring.
LEMMA RunOfItems ==
  ASSUME NEW S, slots \in [0 .. Capacity - 1 -> S \cup {NoItem}],
         nextRead \in 0 .. TotalJobs,
         NEW max \in Int, NEW n \in 0 .. Capacity, IsRun(n, max)
  PROVE  /\ Run(n) \in Seq(S)
         /\ Len(Run(n)) = n
         /\ \A i \in 1 .. n : Run(n)[i] = slots[Slot(nextRead + i - 1)]
         /\ WithoutRun(n) \in [0 .. Capacity - 1 -> S \cup {NoItem}]
         /\ nextRead + n \in 0 .. TotalJobs
<1>1. n \in Nat /\ nextRead \in Nat
  BY QueueAssumption
<1>2. \A i \in 1 .. n : slots[Slot(nextRead + i - 1)] \in S
  <2> TAKE i \in 1 .. n
  <2>1. i - 1 \in 0 .. n - 1 /\ nextRead + (i - 1) = nextRead + i - 1
        /\ nextRead + i - 1 \in Nat
    BY <1>1
  <2>2. slots[Slot(nextRead + i - 1)] # NoItem
    BY <2>1 DEF IsRun
  <2>3. Slot(nextRead + i - 1) \in 0 .. Capacity - 1
    BY <1>1, <2>1, SlotType
  <2> QED BY <2>2, <2>3
<1>3. Run(n) \in [1 .. n -> S]
  BY <1>2 DEF Run
<1>4. Run(n) \in Seq(S) /\ Len(Run(n)) = n
  BY <1>1, <1>3
<1>5. \A i \in 1 .. n : Run(n)[i] = slots[Slot(nextRead + i - 1)]
  BY DEF Run
<1>6. WithoutRun(n) \in [0 .. Capacity - 1 -> S \cup {NoItem}]
  BY DEF WithoutRun
<1>7. nextRead + n \in 0 .. TotalJobs
  BY <1>1, QueueAssumption DEF IsRun
<1> QED BY <1>4, <1>5, <1>6, <1>7

\* If every item of the ring is in the slot of its job, and the jobs lie in the
\* window of Capacity jobs from nextRead on, the ready run is the next n jobs.
LEMMA RunInOrder ==
  ASSUME nextRead \in Nat, NEW max \in Int, NEW n \in 0 .. Capacity, IsRun(n, max),
         \A s \in 0 .. Capacity - 1 : slots[s] # NoItem =>
            /\ slots[s].job \in Nat
            /\ s = Slot(slots[s].job)
            /\ nextRead <= slots[s].job
            /\ slots[s].job < nextRead + Capacity
  PROVE  \A k \in 0 .. n - 1 :
            /\ Slot(nextRead + k) \in 0 .. Capacity - 1
            /\ slots[Slot(nextRead + k)] # NoItem
            /\ slots[Slot(nextRead + k)].job = nextRead + k
<1> TAKE k \in 0 .. n - 1
<1> DEFINE s == Slot(nextRead + k)
           j == slots[s].job
<1>1. n \in Nat /\ nextRead + k \in Nat /\ k < Capacity /\ s \in 0 .. Capacity - 1
  BY QueueAssumption, SlotType
<1>2. slots[s] # NoItem
  BY DEF IsRun
<1>3. j \in Nat /\ s = Slot(j) /\ nextRead <= j /\ j < nextRead + Capacity
  BY <1>1, <1>2
<1>4. nextRead <= nextRead + k /\ nextRead + k < nextRead + Capacity
  BY <1>1, QueueAssumption
<1> HIDE DEF j
<1>5. Slot(j) = Slot(nextRead + k)
  BY <1>3
<1> HIDE DEF s
<1>6. j = nextRead + k
  BY <1>1, <1>3, <1>4, <1>5, SlotInjective
<1> QED BY <1>1, <1>2, <1>6 DEF j, s

\* A slot of the window is free for the job it is the slot of, when no item of the
\* ring has that job.
LEMMA WindowSlotFree ==
  ASSUME nextRead \in Nat, NEW job \in Nat, nextRead <= job, job < nextRead + Capacity,
         \A s \in 0 .. Capacity - 1 : slots[s] # NoItem =>
            /\ slots[s].job \in Nat
            /\ slots[s].job # job
            /\ s = Slot(slots[s].job)
            /\ nextRead <= slots[s].job
            /\ slots[s].job < nextRead + Capacity
  PROVE  slots[Slot(job)] = NoItem
<1> SUFFICES ASSUME slots[Slot(job)] # NoItem PROVE FALSE
  OBVIOUS
<1> DEFINE k == slots[Slot(job)].job
<1>1. Slot(job) \in 0 .. Capacity - 1
  BY SlotType
<1>2. k \in Nat /\ k # job /\ Slot(job) = Slot(k) /\ nextRead <= k /\ k < nextRead + Capacity
  BY <1>1
<1> HIDE DEF k
<1> QED BY <1>2, SlotInjective

=============================================================================
