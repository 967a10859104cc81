------------------------ MODULE RemoteChunkQueueProofs ------------------------
(***************************************************************************)
(* What RemoteChunkQueue's runs check on two workers, two clients and three *)
(* ranges, for every number of each: the memory account, the ownership of   *)
(* ranges, what clients are told, and that waited-for chunks stay.          *)
(*                                                                          *)
(* The inductive invariant has three parts besides the types.  JobsInv ties *)
(* the state of a range to its chunks and to its worker, ClientInv ties the *)
(* demand counters to the clients asleep, and MemoryInv says who may hold a *)
(* share of a response.  Each part is kept by every action on its own, given *)
(* the others in the state before.                                          *)
(*                                                                          *)
(* The last sections are about CoalesceRanges, the loop of the same file    *)
(* that plans the ranges the queue downloads.                               *)
(***************************************************************************)
EXTENDS RemoteChunkQueue, CoalesceRanges, FiniteSetTheorems, WellFoundedInduction, TLAPS

Busy(w) == worker[w] \in {"fetch", "store", "failing"}

\* A ready chunk's range counts as downloaded.
ReadyFinished == \A k \in DOMAIN ready : jobs[RangeOf(k)] = "Finished"

\* An untaken chunk of a downloaded range is ready, unless no response covered it.
FinishedFound ==
    \A k \in remaining : jobs[RangeOf(k)] = "Finished" => k \in DOMAIN ready \/ k \in uncovered

\* A downloading worker owns its range.
BusyOwns ==
    /\ \A w \in FetchWorkers : Busy(w) => job[w] \in Ranges /\ jobs[job[w]] = "InFlight"
    /\ \A v, w \in FetchWorkers : v # w /\ Busy(v) /\ Busy(w) => job[v] # job[w]

\* A demanded range is with nobody.
DemandOpen == \A i \in DOMAIN demanded : jobs[demanded[i]] \in {"Pending", "Evicted"}

DemandOnce == \A i, j \in DOMAIN demanded : i # j => demanded[i] # demanded[j]

\* What a response about to be stored did not cover has been noted.
ShortKnown ==
    \A w \in FetchWorkers : worker[w] = "store" =>
        \A i \in received[w] + 1 .. Len(ChunkSlices[job[w]]) :
            ChunkSlices[job[w]][i] \in uncovered

JobsInv ==
    ReadyFinished /\ FinishedFound /\ BusyOwns /\ DemandOpen /\ DemandOnce /\ ShortKnown

Waiters(r) == {c \in Clients : client[c] = "wait" /\ RangeOf(wanted[c]) = r}

\* active_demands counts the clients that wait.
WaitersCounted ==
    \A r \in Ranges : IsFiniteSet(Waiters(r)) /\ requested[r] = Cardinality(Waiters(r))

WaitsScheduled == \A c \in Clients : client[c] = "wait" => wanted[c] \in Scheduled

\* A chunk in a client's hands is nobody else's to take.
TakenGone == \A c \in Clients : client[c] = "chunk" => wanted[c] \notin remaining

ClientInv == WaitersCounted /\ WaitsScheduled /\ TakenGone /\ HonestNone /\ TakenOnce

\* Who holds a share of a response, and when.
WorkerShares ==
    \A w \in FetchWorkers :
        /\ worker[w] \notin {"fetch", "store"} => response[w] = NoResponse
        /\ worker[w] = "fetch" => response[w] # NoResponse
        /\ worker[w] = "store" => (response[w] = NoResponse <=> received[w] = 0)
        /\ worker[w] \notin {"evict", "unused"} => dropping[w] = {}

ClientShares == \A c \in Clients : client[c] = "chunk" <=> payload[c] # NoResponse

FiniteShares == IsFiniteSet(Alive) /\ IsFiniteSet(Bytes(Alive))

MemoryInv == WorkerShares /\ ClientShares /\ FiniteShares /\ HeldBalanced /\ HeldBound

RemoteInv == TypeOK /\ JobsInv /\ ClientInv /\ MemoryInv

--------------------------------------------------------------------------------
(* Facts about the operators.                                                   *)

\* A set of naturals that is not empty has a least member.
LEMMA HasLeast ==
    ASSUME NEW S \in SUBSET Nat, S # {}
    PROVE  \E n \in S : \A m \in S : n <= m
<1> DEFINE less == OpToRel(<, Nat)
<1>1. PICK n \in S : \A m \in S : <<m, n>> \notin less
  <2>1. IsWellFoundedOn(less, Nat)
    BY NatLessThanWellFounded
  <2> HIDE DEF less
  <2> QED BY <2>1, WFMin
<1>2. \A m \in S : ~(m < n)
  <2> TAKE m \in S
  <2>1. <<m, n>> \in less <=> m < n
    BY DEF OpToRel
  <2> QED BY <1>1, <2>1
<1> QED BY <1>2

\* FiniteSetsExt's Min picks a member.
LEMMA MinIsMember ==
    ASSUME NEW S \in SUBSET Nat, S # {}
    PROVE  Min(S) \in S
BY HasLeast DEF Min

\* So does its Max, on a bounded set.
LEMMA MaxIsMember ==
    ASSUME NEW N \in Nat, NEW S \in SUBSET (1 .. N), S # {}
    PROVE  Max(S) \in S
<1> DEFINE T == {n \in Nat : \E r \in S : n = N - r}
<1>1. T \in SUBSET Nat /\ T # {}
  <2>1. PICK r \in S : TRUE
    OBVIOUS
  <2>2. N - r \in T
    BY <2>1
  <2> QED BY <2>2
<1>2. PICK n \in T : \A m \in T : n <= m
  BY <1>1, HasLeast
<1>3. PICK r \in S : n = N - r
  BY <1>2
<1>4. \A q \in S : r >= q
  <2> TAKE q \in S
  <2>1. N - q \in T
    OBVIOUS
  <2>2. n <= N - q
    BY <1>2, <2>1
  <2> QED BY <1>3, <2>2
<1> QED BY <1>4 DEF Max

\* A scheduled chunk belongs to a range that carries it.
LEMMA RangeOfScheduled ==
    ASSUME RemoteQueueAssumption, NEW k \in Scheduled
    PROVE  RangeOf(k) \in Ranges /\ k \in SlicesOf(RangeOf(k))
<1> DEFINE S == {r \in Ranges : k \in SlicesOf(r)}
<1>1. Len(ChunkSlices) \in Nat /\ S \in SUBSET (1 .. Len(ChunkSlices))
  BY DEF RemoteQueueAssumption, Ranges
<1>2. S # {}
  BY DEF Scheduled
<1> HIDE DEF S
<1>3. Max(S) \in S
  BY <1>1, <1>2, MaxIsMember
<1> USE DEF S
<1> QED BY <1>3 DEF RangeOf

\* The name of a new response is not in use.
LEMMA NewResponseIsNew ==
    ASSUME IsFiniteSet(Alive), NEW r \in Ranges
    PROVE  NewResponse(r) \in Responses \ Alive /\ NewResponse(r)[1] = r
<1> DEFINE top == Cardinality(Alive) + 1
<1>1. top \in Nat /\ Cardinality(Alive) < top
  BY FS_CardinalityType
<1>2. \E n \in 1 .. top : <<r, n>> \notin Alive
  <2> SUFFICES ASSUME \A n \in 1 .. top : <<r, n>> \in Alive PROVE FALSE
    OBVIOUS
  <2> DEFINE f == [n \in 1 .. top |-> <<r, n>>]
  <2>1. f \in [1 .. top -> Alive]
    OBVIOUS
  <2>2. IsFiniteSet(1 .. top) /\ Cardinality(1 .. top) = top
    BY <1>1, FS_Interval
  <2>3. PICK x, y \in 1 .. top : x # y /\ f[x] = f[y]
    <3> HIDE DEF f
    <3> QED BY <1>1, <2>1, <2>2, FS_PigeonHole
  <2> QED BY <2>3
<1> DEFINE n == CHOOSE m \in 1 .. top : <<r, m>> \notin Alive
<1>3. n \in 1 .. top /\ <<r, n>> \notin Alive
  BY <1>2
<1>4. NewResponse(r) = <<r, n>>
  BY DEF NewResponse
<1> HIDE DEF n
<1>5. n \in Nat \ {0}
  BY <1>1, <1>3
<1> QED BY <1>3, <1>4, <1>5 DEF Responses

\* One response has as many bytes as its range.
LEMMA BytesOfOne ==
    ASSUME NEW p, NEW n \in Nat
    PROVE  IsFiniteSet({p} \X (1 .. n)) /\ Cardinality({p} \X (1 .. n)) = n
<1> DEFINE f == [i \in 1 .. n |-> <<p, i>>]
<1>1. f \in [1 .. n -> {p} \X (1 .. n)]
  OBVIOUS
<1>3. f \in Injection(1 .. n, {p} \X (1 .. n))
  BY <1>1 DEF Injection, IsInjective
<1>4. f \in Surjection(1 .. n, {p} \X (1 .. n))
  <2>1. ASSUME NEW t \in {p} \X (1 .. n) PROVE \E i \in 1 .. n : f[i] = t
    <3>1. t[2] \in 1 .. n /\ t = <<p, t[2]>>
      OBVIOUS
    <3> QED BY <3>1
  <2> HIDE DEF f
  <2> QED BY <1>1, <2>1 DEF Surjection
<1>2. ExistsBijection(1 .. n, {p} \X (1 .. n))
  BY <1>3, <1>4 DEF ExistsBijection, Bijection
<1> QED BY <1>2, FS_CountingElements, FS_NatBijection

\* A response that joins the ones alive adds its own bytes.
LEMMA BytesAdd ==
    ASSUME RemoteQueueAssumption, NEW A, IsFiniteSet(Bytes(A)), NEW p \in Responses, p \notin A
    PROVE  /\ IsFiniteSet(Bytes(A \cup {p}))
           /\ RangeBytes[p[1]] \in Nat \ {0}
           /\ Cardinality(Bytes(A \cup {p})) = Cardinality(Bytes(A)) + RangeBytes[p[1]]
<1> DEFINE own == {p} \X (1 .. RangeBytes[p[1]])
<1>1. RangeBytes[p[1]] \in Nat \ {0}
  BY DEF RemoteQueueAssumption, Responses
<1>2. IsFiniteSet(own) /\ Cardinality(own) = RangeBytes[p[1]]
  BY <1>1, BytesOfOne
<1>3. Bytes(A \cup {p}) = Bytes(A) \cup own
  BY Zenon DEF Bytes
<1>4. Bytes(A) \cap own = {}
  <2>1. ASSUME NEW x \in Bytes(A) PROVE x[1] \in A
    <3>1. PICK q \in A : x \in {q} \X (1 .. RangeBytes[q[1]])
      BY Zenon DEF Bytes
    <3> QED BY <3>1
  <2>2. \A x \in own : x[1] = p
    OBVIOUS
  <2> QED BY <2>1, <2>2
<1> HIDE DEF own
<1>5. Cardinality({}) = 0 /\ Cardinality(Bytes(A)) \in Nat
  BY FS_EmptySet, FS_CardinalityType
<1>6. /\ IsFiniteSet(Bytes(A) \cup own)
      /\ Cardinality(Bytes(A) \cup own) =
            Cardinality(Bytes(A)) + Cardinality(own) - Cardinality(Bytes(A) \cap own)
  BY <1>2, FS_Union
<1>7. Cardinality(Bytes(A) \cap own) = 0
  BY <1>4, <1>5
<1>8. Cardinality(Bytes(A) \cup own) = Cardinality(Bytes(A)) + RangeBytes[p[1]]
  BY <1>1, <1>2, <1>5, <1>6, <1>7
<1> QED BY <1>1, <1>3, <1>6, <1>8

\* A response that leaves the ones alive takes its own bytes with it.
LEMMA BytesRemove ==
    ASSUME RemoteQueueAssumption, NEW A, IsFiniteSet(Bytes(A)), NEW p \in Responses, p \in A
    PROVE  /\ IsFiniteSet(Bytes(A \ {p}))
           /\ RangeBytes[p[1]] \in Nat \ {0}
           /\ Cardinality(Bytes(A \ {p})) \in Nat
           /\ Cardinality(Bytes(A)) = Cardinality(Bytes(A \ {p})) + RangeBytes[p[1]]
<1>1. Bytes(A \ {p}) \in SUBSET Bytes(A)
  BY DEF Bytes
<1>2. IsFiniteSet(Bytes(A \ {p}))
  BY <1>1, FS_Subset
<1>3. (A \ {p}) \cup {p} = A
  OBVIOUS
<1>4. Cardinality(Bytes(A \ {p})) \in Nat
  BY <1>2, FS_CardinalityType
<1> DEFINE B == A \ {p}
<1>5. p \notin B /\ IsFiniteSet(Bytes(B)) /\ B \cup {p} = A
  BY <1>2, <1>3
<1> HIDE DEF B
<1>6. /\ RangeBytes[p[1]] \in Nat \ {0}
      /\ Cardinality(Bytes(B \cup {p})) = Cardinality(Bytes(B)) + RangeBytes[p[1]]
  BY <1>5, BytesAdd
<1> QED BY <1>2, <1>4, <1>5, <1>6 DEF B

\* What a worker claims next is nobody's: a demanded range, or one never claimed.
LEMMA CandidateOpen ==
    ASSUME TypeOK, DemandOpen, HasCandidate
    PROVE  Candidate \in Ranges /\ jobs[Candidate] \in {"Pending", "Evicted"}
<1>1. CASE demanded # <<>>
  <2>1. demanded \in Seq(Ranges) /\ 1 \in DOMAIN demanded /\ Head(demanded) = demanded[1]
    BY <1>1 DEF TypeOK
  <2> QED BY <1>1, <2>1 DEF Candidate, DemandOpen
<1>2. CASE demanded = <<>>
  <2>1. PendingRanges # {} /\ PendingRanges \in SUBSET Nat
    BY <1>2 DEF HasCandidate, PendingRanges, Ranges
  <2>2. Min(PendingRanges) \in PendingRanges
    BY <2>1, MinIsMember
  <2> QED BY <1>2, <2>2 DEF Candidate, PendingRanges
<1> QED BY <1>1, <1>2

\* The claim takes the head of the demand queue, so it is not demanded any more.
LEMMA ClaimedLeavesDemand ==
    ASSUME TypeOK, DemandOpen, DemandOnce, demanded # <<>>
    PROVE  /\ Tail(demanded) \in Seq(Ranges)
           /\ \A i \in DOMAIN Tail(demanded) :
                 /\ i + 1 \in DOMAIN demanded
                 /\ Tail(demanded)[i] = demanded[i + 1]
                 /\ Tail(demanded)[i] # Candidate
<1>1. demanded \in Seq(Ranges) /\ demanded # <<>>
  BY DEF TypeOK
<1>2. /\ Tail(demanded) \in Seq(Ranges)
      /\ Len(demanded) \in Nat /\ 1 \in DOMAIN demanded
      /\ Head(demanded) = demanded[1]
      /\ \A i \in DOMAIN Tail(demanded) :
            i + 1 \in DOMAIN demanded /\ Tail(demanded)[i] = demanded[i + 1] /\ i + 1 # 1
  BY <1>1
<1> QED BY <1>2 DEF Candidate, DemandOnce

--------------------------------------------------------------------------------
(* Types.                                                                       *)

\* Dropping a share leaves a number and wakes threads at most.
LEMMA DropShareType ==
    ASSUME RemoteQueueAssumption, held \in Nat, NEW p \in Responses, DropShare(p)
    PROVE  held' \in Nat /\ sleeping' \subseteq sleeping
<1>1. RangeBytes[p[1]] \in Nat
  BY DEF RemoteQueueAssumption, Responses
<1> QED BY <1>1 DEF DropShare, Minus

\* A new queue is well typed.
LEMMA TypesInit ==
    ASSUME RemoteQueueAssumption, Init
    PROVE  TypeOK
<1>1. ready \in [DOMAIN ready -> Responses] /\ DOMAIN ready \subseteq remaining
  BY DEF Init
<1>2. demanded \in Seq(Ranges)
  BY DEF Init
<1> QED BY <1>1, <1>2 DEF Init, TypeOK

\* The claim loop keeps the types.
LEMMA ClaimLoopTypes ==
    ASSUME RemoteQueueAssumption, TypeOK, JobsInv, MemoryInv, NEW w \in FetchWorkers,
           Exit(w) \/ Claim(w) \/ Evict(w) \/ DropEvicted(w) \/ Sleep(w)
    PROVE  TypeOK'
<1>1. CASE Exit(w)
  BY <1>1 DEF Exit, TypeOK, queueVars, clientVars
<1>2. CASE Claim(w)
  <2>1. Candidate \in Ranges
    BY <1>2, CandidateOpen DEF Claim, JobsInv
  <2>2. NewResponse(Candidate) \in Responses
    BY <2>1, NewResponseIsNew DEF MemoryInv, FiniteShares
  <2>3. demanded' \in Seq(Ranges)
    BY <1>2 DEF Claim, TypeOK
  <2>4. held' \in Nat
    BY <1>2, <2>1 DEF Claim, TypeOK, RemoteQueueAssumption
  <2>5. /\ jobs' \in [Ranges -> {"Pending", "InFlight", "Finished", "Evicted"}]
        /\ worker' \in [FetchWorkers -> {"claim", "evict", "fetch", "store", "unused",
                                         "failing", "exited"}]
        /\ job' \in [FetchWorkers -> Ranges \cup {0}]
        /\ response' \in [FetchWorkers -> Responses \cup {NoResponse}]
    BY <1>2, <2>1, <2>2 DEF Claim, TypeOK
  <2> QED BY <1>2, <2>3, <2>4, <2>5 DEF Claim, TypeOK, clientVars
<1>3. CASE Evict(w)
  <2>1. ready' \in [DOMAIN ready' -> Responses] /\ DOMAIN ready' \subseteq remaining'
    BY <1>3 DEF Evict, TypeOK
  <2>2. jobs' \in [Ranges -> {"Pending", "InFlight", "Finished", "Evicted"}]
    BY <1>3 DEF Evict, TypeOK
  <2>3. {ready[k] : k \in Victims} \in SUBSET Responses
    BY DEF Victims, TypeOK
  <2>4. dropping' \in [FetchWorkers -> SUBSET Responses]
    BY <1>3, <2>3 DEF Evict, TypeOK
  <2>5. worker' \in [FetchWorkers -> {"claim", "evict", "fetch", "store", "unused",
                                      "failing", "exited"}]
    BY <1>3 DEF Evict, TypeOK
  <2> QED BY <1>3, <2>1, <2>2, <2>4, <2>5 DEF Evict, TypeOK, clientVars
<1>4. CASE DropEvicted(w)
  <2>1. PICK p \in dropping[w] :
           /\ dropping' = [dropping EXCEPT ![w] = @ \ {p}]
           /\ worker' = [worker EXCEPT ![w] = IF dropping[w] = {p} THEN "claim" ELSE "evict"]
           /\ UNCHANGED <<ready, remaining, jobs, requested, demanded, failed,
                          shutdown, job, response, received, uncovered, clientVars>>
           /\ DropShare(p)
    BY <1>4 DEF DropEvicted
  <2>2. p \in Responses
    BY <2>1 DEF TypeOK
  <2>3. held' \in Nat /\ sleeping' \subseteq sleeping
    BY <2>1, <2>2, DropShareType DEF TypeOK
  <2>4. dropping' \in [FetchWorkers -> SUBSET Responses]
    BY <2>1 DEF TypeOK
  <2> QED BY <2>1, <2>3, <2>4 DEF TypeOK, clientVars
<1>5. CASE Sleep(w)
  BY <1>5 DEF Sleep, TypeOK, queueVars, workerVars, clientVars
<1> QED BY <1>1, <1>2, <1>3, <1>4, <1>5

\* A download keeps the types.
LEMMA DownloadTypes ==
    ASSUME RemoteQueueAssumption, TypeOK, JobsInv, MemoryInv, NEW w \in FetchWorkers,
           \/ Receive(w) \/ Store(w) \/ DropUnused(w) \/ Announce(w)
           \/ FetchFails(w) \/ PublishError(w)
    PROVE  TypeOK'
<1>1. CASE Receive(w)
  <2> DEFINE slices == ChunkSlices[job[w]]
  <2>1. PICK n \in (IF CanBeShort THEN 0 ELSE Len(slices)) .. Len(slices) :
           /\ received' = [received EXCEPT ![w] = n]
           /\ uncovered' = uncovered \cup {slices[i] : i \in n + 1 .. Len(slices)}
           /\ worker' = [worker EXCEPT ![w] = "store"]
           /\ UNCHANGED <<ready, remaining, jobs, requested, demanded, failed,
                          shutdown, job, dropping, clientVars>>
           /\ IF n > 0
              THEN UNCHANGED <<response, held, sleeping>>
              ELSE /\ response' = [response EXCEPT ![w] = NoResponse]
                   /\ DropShare(response[w])
    BY <1>1 DEF Receive
  <2>2. job[w] \in Ranges /\ response[w] \in Responses
    BY <1>1 DEF Receive, JobsInv, BusyOwns, Busy, MemoryInv, WorkerShares, TypeOK
  <2>3. slices \in Seq(SlicesOf(job[w]))
    BY <2>2 DEF RemoteQueueAssumption
  <2>4. Len(slices) \in Nat /\ n \in Nat
    BY <2>3
  <2>5. {slices[i] : i \in n + 1 .. Len(slices)} \subseteq Scheduled
    <3>1. \A i \in n + 1 .. Len(slices) : slices[i] \in SlicesOf(job[w])
      BY <2>3, <2>4
    <3> QED BY <2>2, <3>1 DEF Scheduled
  <2>6. held' \in Nat /\ sleeping' \subseteq sleeping
           /\ response' \in [FetchWorkers -> Responses \cup {NoResponse}]
    <3>1. CASE n > 0
      BY <2>1, <3>1 DEF TypeOK
    <3>2. CASE ~(n > 0)
      BY <2>1, <2>2, <3>2, DropShareType DEF TypeOK
    <3> QED BY <3>1, <3>2
  <2>7. received' \in [FetchWorkers -> Nat] /\ uncovered' \subseteq Scheduled
    BY <2>1, <2>4, <2>5 DEF TypeOK
  <2> QED BY <2>1, <2>6, <2>7 DEF TypeOK, clientVars
<1>2. CASE Store(w)
  <2>1. response[w] \in Responses \/ (Stored(w) = {} /\ Sliced(w) = {})
    <3>1. response[w] \in Responses \/ received[w] = 0
      BY <1>2 DEF Store, TypeOK, MemoryInv, WorkerShares
    <3>2. 1 .. 0 = {}
      OBVIOUS
    <3> QED BY <3>1, <3>2 DEF Sliced, Stored
  <2>2. /\ ready' \in [DOMAIN ready' -> Responses]
        /\ DOMAIN ready' \subseteq remaining'
    <3>1. /\ DOMAIN ready' = DOMAIN ready \cup Stored(w)
          /\ \A k \in DOMAIN ready' : ready'[k] = IF k \in Stored(w) THEN response[w] ELSE ready[k]
          /\ ready' = [k \in DOMAIN ready' |-> ready'[k]]
          /\ remaining' = remaining
      BY <1>2 DEF Store
    <3>2. Stored(w) \subseteq remaining
      BY DEF Stored
    <3>3. \A k \in DOMAIN ready' : ready'[k] \in Responses
      BY <2>1, <3>1 DEF TypeOK
    <3>4. ready' \in [DOMAIN ready' -> Responses]
      BY <3>1, <3>3
    <3>5. DOMAIN ready' \subseteq remaining'
      BY <3>1, <3>2 DEF TypeOK
    <3> QED BY <3>4, <3>5
  <2>3. dropping' \in [FetchWorkers -> SUBSET Responses]
    BY <1>2, <2>1 DEF Store, TypeOK
  <2>4. jobs' \in [Ranges -> {"Pending", "InFlight", "Finished", "Evicted"}]
    BY <1>2 DEF Store, TypeOK
  <2>5. /\ response' \in [FetchWorkers -> Responses \cup {NoResponse}]
        /\ worker' \in [FetchWorkers -> {"claim", "evict", "fetch", "store", "unused",
                                         "failing", "exited"}]
    BY <1>2 DEF Store, TypeOK
  <2> QED BY <1>2, <2>2, <2>3, <2>4, <2>5 DEF Store, TypeOK, clientVars
<1>3. CASE DropUnused(w)
  <2>1. PICK p \in dropping[w] :
           /\ dropping' = [dropping EXCEPT ![w] = @ \ {p}]
           /\ UNCHANGED <<ready, remaining, jobs, requested, demanded, failed,
                          shutdown, worker, job, response, received, uncovered, clientVars>>
           /\ DropShare(p)
    BY <1>3 DEF DropUnused
  <2>2. p \in Responses
    BY <2>1 DEF TypeOK
  <2>3. held' \in Nat /\ sleeping' \subseteq sleeping
    BY <2>1, <2>2, DropShareType DEF TypeOK
  <2>4. dropping' \in [FetchWorkers -> SUBSET Responses]
    BY <2>1 DEF TypeOK
  <2> QED BY <2>1, <2>3, <2>4 DEF TypeOK, clientVars
<1>4. CASE Announce(w)
  BY <1>4 DEF Announce, TypeOK, queueVars, clientVars
<1>5. CASE FetchFails(w)
  <2>1. response[w] \in Responses
    BY <1>5 DEF FetchFails, MemoryInv, WorkerShares, TypeOK
  <2>2. held' \in Nat /\ sleeping' \subseteq sleeping
    BY <1>5, <2>1, DropShareType DEF FetchFails, TypeOK
  <2> QED BY <1>5, <2>2 DEF FetchFails, TypeOK, clientVars
<1>6. CASE PublishError(w)
  BY <1>6 DEF PublishError, TypeOK, clientVars
<1> QED BY <1>1, <1>2, <1>3, <1>4, <1>5, <1>6

\* An answer keeps the types of what it touches.
LEMMA AnswerTypes ==
    ASSUME TypeOK, NEW c \in Clients, NEW k \in Scheduled,
           NEW verdict \in {"chunk", "none", "error"}, verdict = "chunk" => k \in DOMAIN ready,
           Answer(c, k, verdict)
    PROVE  /\ ready' \in [DOMAIN ready' -> Responses] /\ DOMAIN ready' \subseteq remaining'
           /\ remaining' \subseteq Scheduled
           /\ client' \in [Clients -> {"idle", "wait", "chunk", "none", "error", "left"}]
           /\ payload' \in [Clients -> Responses \cup {NoResponse}]
<1>1. client' \in [Clients -> {"idle", "wait", "chunk", "none", "error", "left"}]
  BY DEF Answer, TypeOK
<1>2. CASE verdict = "chunk"
  <2>1. /\ ready' = [j \in DOMAIN ready \ {k} |-> ready[j]]
        /\ remaining' = remaining \ {k}
        /\ payload' = [payload EXCEPT ![c] = ready[k]]
    BY <1>2 DEF Answer
  <2>2. ready[k] \in Responses
    BY <1>2 DEF TypeOK
  <2>3. ready' \in [DOMAIN ready' -> Responses] /\ DOMAIN ready' \subseteq remaining'
    BY <2>1 DEF TypeOK
  <2> QED BY <1>1, <2>1, <2>2, <2>3 DEF TypeOK
<1>3. CASE verdict # "chunk"
  BY <1>1, <1>3 DEF Answer, TypeOK
<1> QED BY <1>2, <1>3

\* The verdicts of get_chunk_payload's loop.
LEMMA VerdictType ==
    ASSUME NEW k, Verdict(k) # "wait"
    PROVE  Verdict(k) \in {"chunk", "none", "error"} /\ (Verdict(k) = "chunk" => k \in DOMAIN ready)
BY DEF Verdict

\* The clients keep the types.
LEMMA ClientTypes ==
    ASSUME RemoteQueueAssumption, TypeOK, ClientInv, MemoryInv, NEW c \in Clients,
           Answered(c) \/ WaitsOn(c) \/ Finish(c) \/ Request(c) \/ TryGet(c) \/ Leave(c)
    PROVE  TypeOK'
<1>1. CASE Answered(c)
  <2>1. wanted[c] \in Scheduled /\ RangeOf(wanted[c]) \in Ranges
    BY <1>1, RangeOfScheduled DEF Answered, ClientInv, WaitsScheduled
  <2>2. Verdict(wanted[c]) # "wait" /\ Answer(c, wanted[c], Verdict(wanted[c]))
    BY <1>1 DEF Answered, Answer
  <2>3. /\ ready' \in [DOMAIN ready' -> Responses] /\ DOMAIN ready' \subseteq remaining'
        /\ remaining' \subseteq Scheduled
        /\ client' \in [Clients -> {"idle", "wait", "chunk", "none", "error", "left"}]
        /\ payload' \in [Clients -> Responses \cup {NoResponse}]
    BY <2>1, <2>2, VerdictType, AnswerTypes
  <2>4. requested[RangeOf(wanted[c])] - 1 \in Nat
    <3> DEFINE r == RangeOf(wanted[c])
    <3>1. IsFiniteSet(Waiters(r)) /\ requested[r] = Cardinality(Waiters(r)) /\ c \in Waiters(r)
      BY <1>1, <2>1 DEF Answered, ClientInv, WaitersCounted, Waiters
    <3>2. Cardinality(Waiters(r)) \in Nat /\ Cardinality(Waiters(r)) # 0
      BY <3>1, FS_CardinalityType, FS_EmptySet
    <3> QED BY <3>1, <3>2
  <2>5. requested' \in [Ranges -> Nat]
    BY <1>1, <2>4 DEF Answered, TypeOK
  <2> QED BY <1>1, <2>3, <2>5 DEF Answered, TypeOK, workerVars
<1>2. CASE WaitsOn(c)
  BY <1>2 DEF WaitsOn, TypeOK, queueVars, workerVars, clientVars
<1>3. CASE Finish(c)
  <2>1. held' \in Nat /\ sleeping' \subseteq sleeping
    <3>1. CASE client[c] = "chunk"
      <4>1. payload[c] \in Responses
        BY <3>1 DEF MemoryInv, ClientShares, TypeOK
      <4> QED BY <1>3, <3>1, <4>1, DropShareType DEF Finish, TypeOK
    <3>2. CASE client[c] # "chunk"
      BY <1>3, <3>2 DEF Finish, TypeOK
    <3> QED BY <3>1, <3>2
  <2>2. /\ client' \in [Clients -> {"idle", "wait", "chunk", "none", "error", "left"}]
        /\ wanted' \in [Clients -> Scheduled \cup {NoChunk}]
        /\ payload' \in [Clients -> Responses \cup {NoResponse}]
    BY <1>3 DEF Finish, TypeOK
  <2> QED BY <1>3, <2>1, <2>2 DEF Finish, TypeOK, workerVars
<1>4. CASE Request(c)
  <2>1. PICK k \in Scheduled :
          /\ wanted' = [wanted EXCEPT ![c] = k]
          /\ demanded' = IF IsNewDemand(k) THEN Append(demanded, RangeOf(k)) ELSE demanded
          /\ \/ /\ Answer(c, k, Verdict(k))
                /\ sleeping' = {}
                /\ UNCHANGED requested
             \/ /\ Verdict(k) = "wait"
                /\ client' = [client EXCEPT ![c] = "wait"]
                /\ requested' = [requested EXCEPT ![RangeOf(k)] = @ + 1]
                /\ sleeping' = (IF IsNewDemand(k) THEN {} ELSE sleeping) \cup {c}
                /\ UNCHANGED <<ready, remaining, payload>>
    BY <1>4 DEF Request
  <2>2. RangeOf(k) \in Ranges
    BY RangeOfScheduled
  <2>3. demanded' \in Seq(Ranges) /\ wanted' \in [Clients -> Scheduled \cup {NoChunk}]
    BY <2>1, <2>2 DEF TypeOK
  <2>4. CASE /\ Answer(c, k, Verdict(k))
             /\ sleeping' = {}
             /\ UNCHANGED requested
    <3>1. Verdict(k) # "wait"
      BY <2>4 DEF Answer
    <3>2. /\ ready' \in [DOMAIN ready' -> Responses] /\ DOMAIN ready' \subseteq remaining'
          /\ remaining' \subseteq Scheduled
          /\ client' \in [Clients -> {"idle", "wait", "chunk", "none", "error", "left"}]
          /\ payload' \in [Clients -> Responses \cup {NoResponse}]
      BY <2>4, <3>1, VerdictType, AnswerTypes
    <3> QED BY <1>4, <2>3, <2>4, <3>2 DEF Request, TypeOK, workerVars
  <2>5. CASE /\ client' = [client EXCEPT ![c] = "wait"]
             /\ requested' = [requested EXCEPT ![RangeOf(k)] = @ + 1]
             /\ sleeping' = (IF IsNewDemand(k) THEN {} ELSE sleeping) \cup {c}
             /\ UNCHANGED <<ready, remaining, payload>>
    <3>1. requested' \in [Ranges -> Nat]
      BY <2>2, <2>5 DEF TypeOK
    <3>2. client' \in [Clients -> {"idle", "wait", "chunk", "none", "error", "left"}]
      BY <2>5 DEF TypeOK
    <3>3. sleeping' \subseteq FetchWorkers \cup Clients
      BY <2>5 DEF TypeOK
    <3> QED BY <1>4, <2>3, <2>5, <3>1, <3>2, <3>3 DEF Request, TypeOK, workerVars
  <2> QED BY <2>1, <2>4, <2>5
<1>5. CASE TryGet(c)
  <2>1. CASE \E k \in DOMAIN ready :
                /\ wanted' = [wanted EXCEPT ![c] = k]
                /\ Answer(c, k, "chunk")
    <3>1. PICK k \in DOMAIN ready : wanted' = [wanted EXCEPT ![c] = k] /\ Answer(c, k, "chunk")
      BY <2>1
    <3>2. k \in Scheduled
      BY DEF TypeOK
    <3>3. /\ ready' \in [DOMAIN ready' -> Responses] /\ DOMAIN ready' \subseteq remaining'
          /\ remaining' \subseteq Scheduled
          /\ client' \in [Clients -> {"idle", "wait", "chunk", "none", "error", "left"}]
          /\ payload' \in [Clients -> Responses \cup {NoResponse}]
      BY <3>1, <3>2, AnswerTypes
    <3>4. wanted' \in [Clients -> Scheduled \cup {NoChunk}]
      BY <3>1, <3>2 DEF TypeOK
    <3> QED BY <1>5, <3>3, <3>4 DEF TryGet, TypeOK, workerVars
  <2>2. CASE UNCHANGED <<ready, remaining, clientVars>>
    BY <1>5, <2>2 DEF TryGet, TypeOK, workerVars, clientVars
  <2> QED BY <1>5, <2>1, <2>2 DEF TryGet
<1>6. CASE Leave(c)
  BY <1>6 DEF Leave, TypeOK, queueVars, workerVars
<1> QED BY <1>1, <1>2, <1>3, <1>4, <1>5, <1>6

--------------------------------------------------------------------------------
(* The ranges and their workers.                                                *)

\* A new queue satisfies JobsInv.
LEMMA JobsInit ==
    ASSUME RemoteQueueAssumption, Init
    PROVE  JobsInv
<1>1. DOMAIN ready = {} /\ DOMAIN demanded = {}
  BY DEF Init
<1>2. FinishedFound
  BY RangeOfScheduled DEF Init, FinishedFound
<1> QED BY <1>1, <1>2 DEF Init, JobsInv, ReadyFinished, BusyOwns, Busy, DemandOpen, DemandOnce,
                         ShortKnown

\* A worker that only leaves its download, or moves on with it, disturbs nothing.
LEMMA JobsQuiet ==
    ASSUME TypeOK, JobsInv, UNCHANGED <<ready, remaining, jobs, demanded, uncovered>>,
           \A v \in FetchWorkers : Busy(v)' => Busy(v) /\ job'[v] = job[v],
           \A v \in FetchWorkers :
              worker'[v] = "store" => worker[v] = "store" /\ received'[v] = received[v]
    PROVE  JobsInv'
<1>1. BusyOwns'
  BY DEF JobsInv, BusyOwns
<1>2. ShortKnown'
  <2> SUFFICES ASSUME NEW v \in FetchWorkers, worker'[v] = "store"
               PROVE  \A i \in received'[v] + 1 .. Len(ChunkSlices[job'[v]]) :
                         ChunkSlices[job'[v]][i] \in uncovered'
    BY DEF ShortKnown
  <2>1. worker[v] = "store" /\ received'[v] = received[v] /\ job'[v] = job[v]
    BY DEF Busy
  <2> QED BY <2>1 DEF JobsInv, ShortKnown
<1> QED BY <1>1, <1>2 DEF JobsInv, ReadyFinished, FinishedFound, DemandOpen, DemandOnce

\* The claimed range was with nobody, and is no longer demanded.
LEMMA JobsClaim ==
    ASSUME RemoteQueueAssumption, TypeOK, JobsInv, NEW w \in FetchWorkers, Claim(w)
    PROVE  JobsInv'
<1> DEFINE r == Candidate
<1>1. r \in Ranges /\ jobs[r] \in {"Pending", "Evicted"}
  BY CandidateOpen DEF Claim, JobsInv
<1>2. /\ jobs' = [jobs EXCEPT ![r] = "InFlight"]
      /\ worker' = [worker EXCEPT ![w] = "fetch"]
      /\ job' = [job EXCEPT ![w] = r]
      /\ UNCHANGED <<ready, remaining, received, uncovered>>
      /\ demanded' = IF demanded = <<>> THEN demanded ELSE Tail(demanded)
  BY DEF Claim
<1> HIDE DEF r
<1>3. ReadyFinished'
  BY <1>1, <1>2 DEF JobsInv, ReadyFinished, TypeOK
<1>4. FinishedFound'
  BY <1>1, <1>2 DEF JobsInv, FinishedFound, TypeOK
<1>5. BusyOwns'
  BY <1>1, <1>2 DEF JobsInv, BusyOwns, Busy, TypeOK
<1>6. DemandOpen' /\ DemandOnce'
  <2>1. CASE demanded = <<>>
    <3>1. DOMAIN demanded' = {}
      BY <1>2, <2>1
    <3> QED BY <3>1 DEF DemandOpen, DemandOnce
  <2>2. CASE demanded # <<>>
    <3>1. /\ demanded' = Tail(demanded)
          /\ \A i \in DOMAIN Tail(demanded) :
                /\ i + 1 \in DOMAIN demanded
                /\ Tail(demanded)[i] = demanded[i + 1]
                /\ Tail(demanded)[i] # r
      BY <1>2, <2>2, ClaimedLeavesDemand DEF JobsInv, r
    <3>2. \A i \in DOMAIN demanded : demanded[i] \in Ranges
      BY DEF TypeOK
    <3>3. DemandOpen'
      BY <1>2, <3>1, <3>2 DEF JobsInv, DemandOpen, TypeOK
    <3>4. ASSUME NEW i \in DOMAIN demanded', NEW j \in DOMAIN demanded', i # j
          PROVE  demanded'[i] # demanded'[j]
      <4>1. DOMAIN demanded \subseteq Int /\ DOMAIN demanded' \subseteq Int
        BY <3>1 DEF TypeOK
      <4>2. i + 1 # j + 1
        BY <4>1, <3>4
      <4> QED BY <3>1, <3>4, <4>2 DEF JobsInv, DemandOnce
    <3> QED BY <3>3, <3>4 DEF DemandOnce
  <2> QED BY <2>1, <2>2
<1>7. ShortKnown'
  BY <1>2 DEF JobsInv, ShortKnown, TypeOK
<1> QED BY <1>3, <1>4, <1>5, <1>6, <1>7 DEF JobsInv

\* Eviction takes every chunk of the ranges it marks, and no chunk of another range.
LEMMA JobsEvict ==
    ASSUME RemoteQueueAssumption, TypeOK, JobsInv, NEW w \in FetchWorkers, Evict(w)
    PROVE  JobsInv'
<1>1. /\ DOMAIN ready' = DOMAIN ready \ Victims
      /\ jobs' = [r \in Ranges |-> IF r \in EvictedRanges THEN "Evicted" ELSE jobs[r]]
      /\ worker' = [worker EXCEPT ![w] = "evict"]
      /\ UNCHANGED <<remaining, demanded, job, received, uncovered>>
  BY DEF Evict
<1>2. \A k \in remaining : RangeOf(k) \in Ranges
  BY RangeOfScheduled DEF TypeOK
<1>3. \A k \in DOMAIN ready : k \in Victims <=> RangeOf(k) \in EvictedRanges
  BY DEF Victims, EvictedRanges
<1>4. \A r \in EvictedRanges : jobs[r] = "Finished"
  BY DEF EvictedRanges, Victims, JobsInv, ReadyFinished
<1>5. ReadyFinished'
  BY <1>1, <1>2, <1>3 DEF JobsInv, ReadyFinished, TypeOK
<1>6. FinishedFound'
  BY <1>1, <1>2, <1>3 DEF JobsInv, FinishedFound, TypeOK
<1>7. BusyOwns'
  BY <1>1, <1>4 DEF JobsInv, BusyOwns, Busy, TypeOK
<1>8. DemandOpen' /\ DemandOnce'
  <2>1. \A i \in DOMAIN demanded : demanded[i] \in Ranges
    BY DEF TypeOK
  <2> QED BY <1>1, <1>4, <2>1 DEF JobsInv, DemandOpen, DemandOnce
<1>9. ShortKnown'
  BY <1>1 DEF JobsInv, ShortKnown, TypeOK
<1> QED BY <1>5, <1>6, <1>7, <1>8, <1>9 DEF JobsInv

\* A response too short for some slices is noted before the worker may store it.
LEMMA JobsReceive ==
    ASSUME RemoteQueueAssumption, TypeOK, JobsInv, NEW w \in FetchWorkers, Receive(w)
    PROVE  JobsInv'
<1> DEFINE slices == ChunkSlices[job[w]]
<1>1. PICK n \in (IF CanBeShort THEN 0 ELSE Len(slices)) .. Len(slices) :
         /\ received' = [received EXCEPT ![w] = n]
         /\ uncovered' = uncovered \cup {slices[i] : i \in n + 1 .. Len(slices)}
         /\ worker' = [worker EXCEPT ![w] = "store"]
         /\ UNCHANGED <<ready, remaining, jobs, demanded, job>>
  BY DEF Receive
<1>2. worker[w] = "fetch"
  BY DEF Receive
<1>3. BusyOwns'
  BY <1>1, <1>2 DEF JobsInv, BusyOwns, Busy, TypeOK
<1>4. FinishedFound'
  BY <1>1 DEF JobsInv, FinishedFound
<1>5. ShortKnown'
  <2> SUFFICES ASSUME NEW v \in FetchWorkers, worker'[v] = "store"
               PROVE  \A i \in received'[v] + 1 .. Len(ChunkSlices[job'[v]]) :
                         ChunkSlices[job'[v]][i] \in uncovered'
    BY DEF ShortKnown
  <2>1. CASE v = w
    <3>1. received'[v] = n /\ job'[v] = job[w]
      BY <1>1, <2>1 DEF TypeOK
    <3> QED BY <1>1, <3>1
  <2>2. CASE v # w
    <3>1. received'[v] = received[v] /\ job'[v] = job[v] /\ worker[v] = "store"
      BY <1>1, <2>2 DEF TypeOK
    <3> QED BY <1>1, <3>1 DEF JobsInv, ShortKnown
  <2> QED BY <2>1, <2>2
<1> QED BY <1>1, <1>3, <1>4, <1>5 DEF JobsInv, ReadyFinished, DemandOpen, DemandOnce

\* When a range is marked Finished its untaken chunks are ready or noted as uncovered.
LEMMA JobsStore ==
    ASSUME RemoteQueueAssumption, TypeOK, JobsInv, NEW w \in FetchWorkers, Store(w)
    PROVE  JobsInv'
<1> DEFINE r == job[w]
<1>1. /\ DOMAIN ready' = DOMAIN ready \cup Stored(w)
      /\ jobs' = [jobs EXCEPT ![r] = "Finished"]
      /\ worker' = [worker EXCEPT ![w] = "unused"]
      /\ UNCHANGED <<remaining, demanded, job, received, uncovered>>
  BY DEF Store
<1>2. /\ worker[w] = "store" /\ Busy(w)
      /\ r \in Ranges /\ jobs[r] = "InFlight"
  BY DEF Store, Busy, JobsInv, BusyOwns
<1>3. \A k \in Stored(w) : RangeOf(k) = r /\ k \in remaining
  BY DEF Stored
<1>4. \A k \in remaining : RangeOf(k) \in Ranges /\ k \in SlicesOf(RangeOf(k))
  BY RangeOfScheduled DEF TypeOK
<1>5. \A k \in remaining : RangeOf(k) = r => k \in DOMAIN ready' \/ k \in uncovered
  <2> SUFFICES ASSUME NEW k \in remaining, RangeOf(k) = r, k \notin uncovered
               PROVE  k \in DOMAIN ready'
    OBVIOUS
  <2>1. ChunkSlices[r] \in Seq(SlicesOf(r))
    BY <1>2 DEF RemoteQueueAssumption
  <2>2. PICK i \in DOMAIN ChunkSlices[r] : k = ChunkSlices[r][i]
    BY <1>4 DEF SlicesOf
  <2>3. i \in 1 .. Len(ChunkSlices[r]) /\ received[w] \in Nat
    BY <2>1 DEF TypeOK
  <2>4. ~(i \in received[w] + 1 .. Len(ChunkSlices[r]))
    BY <1>2, <2>2 DEF JobsInv, ShortKnown
  <2>5. i \in 1 .. received[w]
    BY <2>3, <2>4
  <2>6. k \in Sliced(w)
    BY <2>2, <2>5 DEF Sliced
  <2> QED BY <1>1, <2>6 DEF Stored
<1> HIDE DEF r
<1>6. ReadyFinished'
  BY <1>1, <1>2, <1>3, <1>4 DEF JobsInv, ReadyFinished, TypeOK
<1>7. FinishedFound'
  <2> SUFFICES ASSUME NEW k \in remaining, jobs'[RangeOf(k)] = "Finished"
               PROVE  k \in DOMAIN ready' \/ k \in uncovered
    BY <1>1 DEF FinishedFound
  <2>1. CASE RangeOf(k) = r
    BY <2>1, <1>5
  <2>2. CASE RangeOf(k) # r
    BY <2>2, <1>1, <1>4 DEF JobsInv, FinishedFound, TypeOK
  <2> QED BY <2>1, <2>2
<1>8. BusyOwns'
  <2>1. \A v \in FetchWorkers : Busy(v)' => v # w /\ Busy(v) /\ job[v] # r
    BY <1>1, <1>2 DEF r, JobsInv, BusyOwns, Busy, TypeOK
  <2> QED BY <1>1, <2>1 DEF JobsInv, BusyOwns, TypeOK
<1>9. DemandOpen' /\ DemandOnce'
  <2>1. \A i \in DOMAIN demanded : demanded[i] \in Ranges
    BY DEF TypeOK
  <2> QED BY <1>1, <1>2, <2>1 DEF JobsInv, DemandOpen, DemandOnce, TypeOK
<1>10. ShortKnown'
  BY <1>1 DEF JobsInv, ShortKnown, TypeOK
<1> QED BY <1>6, <1>7, <1>8, <1>9, <1>10 DEF JobsInv

\* A client takes a chunk out of the queue for good, and may demand a range that is
\* with nobody.
LEMMA JobsTaken ==
    ASSUME TypeOK, JobsInv, NEW taken, NEW r \in Ranges,
           DOMAIN ready' = DOMAIN ready \ taken, remaining' = remaining \ taken,
           UNCHANGED <<jobs, workerVars>>,
           \/ demanded' = demanded
           \/ /\ demanded' = Append(demanded, r)
              /\ jobs[r] \in {"Pending", "Evicted"}
              /\ \A i \in DOMAIN demanded : demanded[i] # r
    PROVE  JobsInv'
<1>1. DemandOpen' /\ DemandOnce'
  <2>1. CASE demanded' = demanded
    BY <2>1 DEF JobsInv, DemandOpen, DemandOnce
  <2>2. CASE /\ demanded' = Append(demanded, r)
             /\ jobs[r] \in {"Pending", "Evicted"}
             /\ \A i \in DOMAIN demanded : demanded[i] # r
    <3>1. /\ DOMAIN demanded' = DOMAIN demanded \cup {Len(demanded) + 1}
          /\ Len(demanded) + 1 \notin DOMAIN demanded
          /\ demanded'[Len(demanded) + 1] = r
          /\ \A i \in DOMAIN demanded : demanded'[i] = demanded[i]
      BY <2>2 DEF TypeOK
    <3> QED BY <2>2, <3>1 DEF JobsInv, DemandOpen, DemandOnce
  <2> QED BY <2>1, <2>2
<1>2. BusyOwns' /\ ShortKnown'
  BY DEF JobsInv, BusyOwns, Busy, ShortKnown, workerVars
<1>3. FinishedFound'
  BY DEF JobsInv, FinishedFound, workerVars
<1>4. ReadyFinished'
  BY DEF JobsInv, ReadyFinished
<1> QED BY <1>1, <1>2, <1>3, <1>4 DEF JobsInv

\* An answer takes the chunk asked for, or nothing.
LEMMA AnswerTakes ==
    ASSUME NEW c \in Clients, NEW k, NEW verdict, Answer(c, k, verdict)
    PROVE  \E taken : DOMAIN ready' = DOMAIN ready \ taken /\ remaining' = remaining \ taken
<1>1. CASE verdict = "chunk"
  <2>1. DOMAIN ready' = DOMAIN ready \ {k} /\ remaining' = remaining \ {k}
    BY <1>1 DEF Answer
  <2> QED BY <2>1
<1>2. CASE verdict # "chunk"
  <2>1. DOMAIN ready' = DOMAIN ready \ {} /\ remaining' = remaining \ {}
    BY <1>2 DEF Answer
  <2> QED BY <2>1
<1> QED BY <1>1, <1>2

\* Every step of a fetch worker keeps JobsInv.
LEMMA JobsWorker ==
    ASSUME RemoteQueueAssumption, TypeOK, JobsInv, NEW w \in FetchWorkers, WorkerStep(w)
    PROVE  JobsInv'
<1> USE DEF queueVars
<1>1. CASE Exit(w)
  BY <1>1, JobsQuiet DEF Exit, Busy, TypeOK
<1>2. CASE Claim(w)
  BY <1>2, JobsClaim
<1>3. CASE Evict(w)
  BY <1>3, JobsEvict
<1>4. CASE DropEvicted(w)
  BY <1>4, JobsQuiet DEF DropEvicted, Busy, TypeOK
<1>5. CASE Sleep(w)
  BY <1>5, JobsQuiet DEF Sleep, Busy, workerVars
<1>6. CASE Receive(w)
  BY <1>6, JobsReceive
<1>7. CASE Store(w)
  BY <1>7, JobsStore
<1>8. CASE DropUnused(w)
  BY <1>8, JobsQuiet DEF DropUnused, Busy
<1>9. CASE Announce(w)
  BY <1>9, JobsQuiet DEF Announce, Busy, TypeOK
<1>10. CASE FetchFails(w)
  BY <1>10, JobsQuiet DEF FetchFails, Busy, TypeOK
<1>11. CASE PublishError(w)
  BY <1>11, JobsQuiet DEF PublishError, Busy, TypeOK
<1> QED BY <1>1, <1>2, <1>3, <1>4, <1>5, <1>6, <1>7, <1>8, <1>9, <1>10, <1>11 DEF WorkerStep

\* Every step of a client, and the cancellation, keeps JobsInv.
LEMMA JobsClient ==
    ASSUME RemoteQueueAssumption, TypeOK, JobsInv, ClientInv, NEW c \in Clients,
           ClientStep(c) \/ Request(c) \/ TryGet(c) \/ Leave(c)
    PROVE  JobsInv'
<1>1. CASE Answered(c)
  <2>1. PICK taken :
           DOMAIN ready' = DOMAIN ready \ taken /\ remaining' = remaining \ taken
    BY <1>1, AnswerTakes DEF Answered
  <2>2. RangeOf(wanted[c]) \in Ranges /\ demanded' = demanded /\ UNCHANGED <<jobs, workerVars>>
    BY <1>1, RangeOfScheduled DEF Answered, ClientInv, WaitsScheduled
  <2> QED BY <2>1, <2>2, JobsTaken
<1>2. CASE WaitsOn(c)
  BY <1>2, JobsQuiet DEF WaitsOn, Busy, queueVars, workerVars
<1>3. CASE Finish(c)
  BY <1>3, JobsQuiet DEF Finish, Busy, workerVars
<1>4. CASE Request(c)
  <2>1. PICK k \in Scheduled :
          /\ demanded' = IF IsNewDemand(k) THEN Append(demanded, RangeOf(k)) ELSE demanded
          /\ \/ Answer(c, k, Verdict(k))
             \/ UNCHANGED <<ready, remaining>>
    BY <1>4 DEF Request
  <2>2. RangeOf(k) \in Ranges
    BY RangeOfScheduled
  <2>3. PICK taken :
           DOMAIN ready' = DOMAIN ready \ taken /\ remaining' = remaining \ taken
    <3>1. CASE Answer(c, k, Verdict(k))
      BY <3>1, AnswerTakes
    <3>2. CASE UNCHANGED <<ready, remaining>>
      <4>1. DOMAIN ready' = DOMAIN ready \ {} /\ remaining' = remaining \ {}
        BY <3>2
      <4> QED BY <4>1
    <3> QED BY <2>1, <3>1, <3>2
  <2>4. UNCHANGED <<jobs, workerVars>>
    BY <1>4 DEF Request
  <2> QED BY <2>1, <2>2, <2>3, <2>4, JobsTaken DEF IsNewDemand
<1>5. CASE TryGet(c)
  <2>1. UNCHANGED <<jobs, demanded, workerVars>>
    BY <1>5 DEF TryGet
  <2>2. CASE \E k \in DOMAIN ready : Answer(c, k, "chunk")
    <3>1. PICK k \in DOMAIN ready : Answer(c, k, "chunk")
      BY <2>2
    <3>2. RangeOf(k) \in Ranges
      BY RangeOfScheduled DEF TypeOK
    <3>3. PICK taken :
             DOMAIN ready' = DOMAIN ready \ taken /\ remaining' = remaining \ taken
      BY <3>1, AnswerTakes
    <3> QED BY <2>1, <3>2, <3>3, JobsTaken
  <2>3. CASE UNCHANGED <<ready, remaining>>
    BY <2>1, <2>3, JobsQuiet DEF Busy, workerVars
  <2> QED BY <1>5, <2>2, <2>3 DEF TryGet
<1>6. CASE Leave(c)
  BY <1>6, JobsQuiet DEF Leave, Busy, queueVars, workerVars
<1> QED BY <1>1, <1>2, <1>3, <1>4, <1>5, <1>6 DEF ClientStep

--------------------------------------------------------------------------------
(* The clients.                                                                 *)

\* A new queue has no clients inside it.
LEMMA ClientsInit ==
    ASSUME Init
    PROVE  ClientInv
<1>1. \A r : Waiters(r) = {}
  BY DEF Init, Waiters
<1>2. WaitersCounted
  BY <1>1, FS_EmptySet DEF WaitersCounted, Init
<1> QED BY <1>2 DEF Init, ClientInv, WaitsScheduled, TakenGone, HonestNone, TakenOnce

\* Clients are not disturbed while nobody takes a chunk.
LEMMA ClientsQuiet ==
    ASSUME ClientInv, UNCHANGED <<client, wanted, requested, remaining>>,
           shutdown => shutdown', uncovered \subseteq uncovered'
    PROVE  ClientInv'
<1>1. \A r : Waiters(r)' = Waiters(r)
  BY DEF Waiters
<1>2. WaitersCounted'
  BY <1>1 DEF ClientInv, WaitersCounted
<1> QED BY <1>2 DEF ClientInv, WaitsScheduled, TakenGone, HonestNone, TakenOnce

\* "none" is heard of a chunk that was taken, of a cancelled queue, or of a chunk that
\* no response covered.
LEMMA NoneIsHonest ==
    ASSUME JobsInv, NEW k \in Scheduled, Verdict(k) = "none"
    PROVE  k \notin remaining \/ shutdown \/ k \in uncovered
BY DEF Verdict, JobsInv, FinishedFound

\* What clients hold and were told stays true when one of them is answered.
LEMMA AnswerHonest ==
    ASSUME TypeOK, JobsInv, ClientInv, NEW c \in Clients, NEW k \in Scheduled,
           NEW verdict \in {"chunk", "none", "error"},
           verdict = Verdict(k) \/ (verdict = "chunk" /\ k \in DOMAIN ready),
           client[c] \in {"idle", "wait"}, Answer(c, k, verdict),
           \A d \in Clients : wanted'[d] = IF d = c THEN k ELSE wanted[d],
           UNCHANGED <<shutdown, uncovered>>
    PROVE  TakenGone' /\ HonestNone' /\ TakenOnce'
<1>1. \A d \in Clients : client'[d] = IF d = c THEN verdict ELSE client[d]
  BY DEF Answer, TypeOK
<1>2. verdict = "none" => k \notin remaining \/ shutdown \/ k \in uncovered
  BY NoneIsHonest
<1>3. verdict = "chunk" => k \in remaining
  BY DEF Verdict, TypeOK
<1>4. remaining' = IF verdict = "chunk" THEN remaining \ {k} ELSE remaining
  BY DEF Answer
<1>5. TakenGone'
  BY <1>1, <1>4 DEF ClientInv, TakenGone
<1>6. HonestNone'
  BY <1>1, <1>2, <1>4 DEF ClientInv, HonestNone
<1>7. TakenOnce'
  BY <1>1, <1>3 DEF ClientInv, TakenGone, TakenOnce
<1> QED BY <1>5, <1>6, <1>7

\* The demand counters stay right while nobody starts or stops waiting.
LEMMA WaitersSame ==
    ASSUME ClientInv, UNCHANGED requested,
           \A d \in Clients : client'[d] = "wait" <=> client[d] = "wait",
           \A d \in Clients : client[d] = "wait" => wanted'[d] = wanted[d]
    PROVE  WaitersCounted' /\ WaitsScheduled'
<1>1. \A r : Waiters(r)' = Waiters(r)
  BY DEF Waiters
<1> QED BY <1>1 DEF ClientInv, WaitersCounted, WaitsScheduled

\* A client that goes to sleep is counted, once.
LEMMA WaiterJoins ==
    ASSUME RemoteQueueAssumption, TypeOK, ClientInv, NEW c \in Clients, NEW k \in Scheduled,
           client[c] = "idle", client' = [client EXCEPT ![c] = "wait"],
           wanted' = [wanted EXCEPT ![c] = k],
           requested' = [requested EXCEPT ![RangeOf(k)] = @ + 1]
    PROVE  WaitersCounted' /\ WaitsScheduled'
<1>1. RangeOf(k) \in Ranges
  BY RangeOfScheduled
<1>2. /\ \A d \in Clients : client'[d] = IF d = c THEN "wait" ELSE client[d]
      /\ \A d \in Clients : wanted'[d] = IF d = c THEN k ELSE wanted[d]
      /\ \A r \in Ranges : requested'[r] = IF r = RangeOf(k) THEN requested[r] + 1 ELSE requested[r]
  BY <1>1 DEF TypeOK
<1>3. WaitsScheduled'
  BY <1>2 DEF ClientInv, WaitsScheduled
<1>4. ASSUME NEW r \in Ranges
      PROVE  IsFiniteSet(Waiters(r)') /\ requested'[r] = Cardinality(Waiters(r)')
  <2>1. IsFiniteSet(Waiters(r)) /\ requested[r] = Cardinality(Waiters(r))
    BY DEF ClientInv, WaitersCounted
  <2>2. CASE r = RangeOf(k)
    <3>1. Waiters(r)' = Waiters(r) \cup {c} /\ c \notin Waiters(r)
      BY <1>2, <2>2 DEF Waiters
    <3>2. /\ IsFiniteSet(Waiters(r) \cup {c})
          /\ Cardinality(Waiters(r) \cup {c}) = Cardinality(Waiters(r)) + 1
      BY <2>1, <3>1, FS_AddElement
    <3> QED BY <1>2, <2>1, <2>2, <3>1, <3>2
  <2>3. CASE r # RangeOf(k)
    <3>1. Waiters(r)' = Waiters(r)
      BY <1>2, <2>3 DEF Waiters
    <3> QED BY <1>2, <2>1, <2>3, <3>1
  <2> QED BY <2>2, <2>3
<1> QED BY <1>3, <1>4 DEF WaitersCounted

\* A client that is answered is no longer counted.
LEMMA WaiterLeaves ==
    ASSUME RemoteQueueAssumption, TypeOK, ClientInv, NEW c \in Clients,
           client[c] = "wait", UNCHANGED wanted, NEW verdict, verdict # "wait",
           client' = [client EXCEPT ![c] = verdict],
           requested' = [requested EXCEPT ![RangeOf(wanted[c])] = @ - 1]
    PROVE  WaitersCounted' /\ WaitsScheduled'
<1> DEFINE q == RangeOf(wanted[c])
<1>1. q \in Ranges
  BY RangeOfScheduled DEF ClientInv, WaitsScheduled
<1>2. /\ \A d \in Clients : client'[d] = IF d = c THEN verdict ELSE client[d]
      /\ \A r \in Ranges : requested'[r] = IF r = q THEN requested[r] - 1 ELSE requested[r]
  BY <1>1 DEF TypeOK
<1>3. WaitsScheduled'
  BY <1>2 DEF ClientInv, WaitsScheduled
<1>4. ASSUME NEW r \in Ranges
      PROVE  IsFiniteSet(Waiters(r)') /\ requested'[r] = Cardinality(Waiters(r)')
  <2>1. IsFiniteSet(Waiters(r)) /\ requested[r] = Cardinality(Waiters(r))
    BY DEF ClientInv, WaitersCounted
  <2>2. CASE r = q
    <3>1. Waiters(r)' = Waiters(r) \ {c} /\ c \in Waiters(r)
      BY <1>2, <2>2 DEF Waiters
    <3>2. /\ IsFiniteSet(Waiters(r) \ {c})
          /\ Cardinality(Waiters(r) \ {c}) = Cardinality(Waiters(r)) - 1
      BY <2>1, <3>1, FS_RemoveElement
    <3> QED BY <1>2, <2>1, <2>2, <3>1, <3>2
  <2>3. CASE r # q
    <3>1. Waiters(r)' = Waiters(r)
      BY <1>2, <2>3 DEF Waiters
    <3> QED BY <1>2, <2>1, <2>3, <3>1
  <2> QED BY <2>2, <2>3
<1> QED BY <1>3, <1>4 DEF WaitersCounted

\* Every step of a fetch worker leaves the clients alone.
LEMMA ClientsWorker ==
    ASSUME ClientInv, NEW w \in FetchWorkers, WorkerStep(w)
    PROVE  ClientInv'
<1>1. /\ UNCHANGED <<client, wanted, requested, remaining, shutdown>>
      /\ uncovered \subseteq uncovered'
  BY DEF WorkerStep, Exit, Claim, Evict, DropEvicted, Sleep, Receive, Store, DropUnused,
         Announce, FetchFails, PublishError, queueVars, workerVars, clientVars
<1> QED BY <1>1, ClientsQuiet

\* Every step of a client, and the cancellation, keeps ClientInv.
LEMMA ClientsClient ==
    ASSUME RemoteQueueAssumption, TypeOK, JobsInv, ClientInv, NEW c \in Clients,
           ClientStep(c) \/ Request(c) \/ TryGet(c) \/ Leave(c)
    PROVE  ClientInv'
<1>1. CASE Answered(c)
  <2> DEFINE k == wanted[c]
  <2>1. /\ k \in Scheduled /\ client[c] = "wait" /\ Verdict(k) # "wait"
        /\ Answer(c, k, Verdict(k)) /\ UNCHANGED <<wanted, shutdown, uncovered>>
        /\ requested' = [requested EXCEPT ![RangeOf(k)] = @ - 1]
        /\ client' = [client EXCEPT ![c] = Verdict(k)]
    BY <1>1 DEF Answered, Answer, ClientInv, WaitsScheduled, workerVars
  <2>2. TakenGone' /\ HonestNone' /\ TakenOnce'
    BY <2>1, VerdictType, AnswerHonest
  <2>3. WaitersCounted' /\ WaitsScheduled'
    BY <2>1, WaiterLeaves
  <2> QED BY <2>2, <2>3 DEF ClientInv
<1>2. CASE WaitsOn(c)
  BY <1>2, ClientsQuiet DEF WaitsOn, queueVars, workerVars, clientVars
<1>3. CASE Finish(c)
  <2>1. /\ \A d \in Clients : client'[d] = IF d = c THEN "idle" ELSE client[d]
        /\ \A d \in Clients : d # c => wanted'[d] = wanted[d]
        /\ client[c] # "wait"
        /\ UNCHANGED <<requested, remaining, shutdown, uncovered>>
    BY <1>3 DEF Finish, TypeOK, workerVars
  <2>2. WaitersCounted' /\ WaitsScheduled'
    BY <2>1, WaitersSame
  <2> QED BY <2>1, <2>2 DEF ClientInv, TakenGone, HonestNone, TakenOnce
<1>4. CASE Request(c)
  <2>1. PICK k \in Scheduled :
          /\ wanted' = [wanted EXCEPT ![c] = k]
          /\ \/ /\ Answer(c, k, Verdict(k))
                /\ UNCHANGED requested
             \/ /\ client' = [client EXCEPT ![c] = "wait"]
                /\ requested' = [requested EXCEPT ![RangeOf(k)] = @ + 1]
                /\ UNCHANGED <<ready, remaining, payload>>
    BY <1>4 DEF Request
  <2>2. /\ client[c] = "idle" /\ UNCHANGED <<shutdown, uncovered>>
        /\ \A d \in Clients : wanted'[d] = IF d = c THEN k ELSE wanted[d]
    BY <1>4, <2>1 DEF Request, workerVars, TypeOK
  <2>3. CASE Answer(c, k, Verdict(k)) /\ UNCHANGED requested
    <3>1. Verdict(k) # "wait" /\ client' = [client EXCEPT ![c] = Verdict(k)]
      BY <2>3 DEF Answer
    <3>2. TakenGone' /\ HonestNone' /\ TakenOnce'
      BY <2>2, <2>3, <3>1, VerdictType, AnswerHonest
    <3>3. WaitersCounted' /\ WaitsScheduled'
      BY <2>2, <2>3, <3>1, WaitersSame DEF TypeOK
    <3> QED BY <3>2, <3>3 DEF ClientInv
  <2>4. CASE /\ client' = [client EXCEPT ![c] = "wait"]
             /\ requested' = [requested EXCEPT ![RangeOf(k)] = @ + 1]
             /\ UNCHANGED <<ready, remaining, payload>>
    <3>1. WaitersCounted' /\ WaitsScheduled'
      BY <2>1, <2>2, <2>4, WaiterJoins
    <3>2. \A d \in Clients : client'[d] = IF d = c THEN "wait" ELSE client[d]
      BY <2>4 DEF TypeOK
    <3>3. TakenGone' /\ HonestNone' /\ TakenOnce'
      BY <2>2, <2>4, <3>2 DEF ClientInv, TakenGone, HonestNone, TakenOnce
    <3> QED BY <3>1, <3>3 DEF ClientInv
  <2> QED BY <2>1, <2>3, <2>4
<1>5. CASE TryGet(c)
  <2>1. UNCHANGED <<requested, shutdown, uncovered>> /\ client[c] = "idle"
    BY <1>5 DEF TryGet, workerVars
  <2>2. CASE \E k \in DOMAIN ready :
                /\ wanted' = [wanted EXCEPT ![c] = k]
                /\ Answer(c, k, "chunk")
    <3>1. PICK k \in DOMAIN ready : wanted' = [wanted EXCEPT ![c] = k] /\ Answer(c, k, "chunk")
      BY <2>2
    <3>2. /\ k \in Scheduled
          /\ \A d \in Clients : wanted'[d] = IF d = c THEN k ELSE wanted[d]
          /\ \A d \in Clients : client'[d] = IF d = c THEN "chunk" ELSE client[d]
      BY <3>1 DEF TypeOK, Answer
    <3>3. TakenGone' /\ HonestNone' /\ TakenOnce'
      BY <2>1, <3>1, <3>2, AnswerHonest
    <3>4. WaitersCounted' /\ WaitsScheduled'
      BY <2>1, <3>2, WaitersSame
    <3> QED BY <3>3, <3>4 DEF ClientInv
  <2>3. CASE UNCHANGED <<ready, remaining, clientVars>>
    BY <2>1, <2>3, ClientsQuiet DEF clientVars
  <2> QED BY <1>5, <2>2, <2>3 DEF TryGet
<1>6. CASE Leave(c)
  <2>1. /\ \A d \in Clients : client'[d] = IF d = c THEN "left" ELSE client[d]
        /\ client[c] = "idle"
        /\ UNCHANGED <<wanted, requested, remaining, shutdown, uncovered>>
    BY <1>6 DEF Leave, TypeOK, queueVars, workerVars
  <2>2. WaitersCounted' /\ WaitsScheduled'
    BY <2>1, WaitersSame
  <2> QED BY <2>1, <2>2 DEF ClientInv, TakenGone, HonestNone, TakenOnce
<1> QED BY <1>1, <1>2, <1>3, <1>4, <1>5, <1>6 DEF ClientStep

--------------------------------------------------------------------------------
(* The memory account.                                                          *)

\* Somebody holds a share of p.
Shared(p) ==
    \/ \E w \in FetchWorkers : response[w] = p \/ p \in dropping[w]
    \/ \E c \in Clients : payload[c] = p
    \/ \E k \in DOMAIN ready : ready[k] = p

\* A response is alive while somebody holds a share of it.
LEMMA AliveShared ==
    \A p : p \in Alive <=> p # NoResponse /\ Shared(p)
BY Zenon DEF Alive, Shared

\* The same after a step.
LEMMA AliveSharedAfter ==
    \A p : p \in Alive' <=> p # NoResponse /\ Shared(p)'
BY Zenon DEF Alive, Shared

\* Who is alive has the type of a response.
LEMMA AliveType ==
    ASSUME TypeOK
    PROVE  Alive \subseteq Responses
<1>1. \A p : Shared(p) => p \in Responses \cup {NoResponse}
  BY DEF Shared, TypeOK
<1> QED BY <1>1, AliveShared

\* Shares that only change hands keep the account.
LEMMA AccountKept ==
    ASSUME MemoryInv, held' = held, \A p : p # NoResponse => (Shared(p)' <=> Shared(p))
    PROVE  FiniteShares' /\ HeldBalanced' /\ HeldBound'
<1>1. Alive' = Alive
  BY AliveShared, AliveSharedAfter
<1> QED BY <1>1 DEF MemoryInv, FiniteShares, HeldBalanced, HeldBound, Bytes

\* The last share gives the bytes back, and no other share does: Arc's count in
\* ResponseLease's Drop.
LEMMA AccountDrop ==
    ASSUME RemoteQueueAssumption, TypeOK, MemoryInv, NEW p \in Responses, Shared(p), DropShare(p),
           \A q : q # NoResponse /\ q # p => (Shared(q)' <=> Shared(q))
    PROVE  FiniteShares' /\ HeldBalanced' /\ HeldBound'
<1>1. p # NoResponse
  BY DEF RemoteQueueAssumption
<1>2. p \in Alive
  BY <1>1, AliveShared
<1>3. CASE p \in Alive'
  <2>1. Alive' = Alive
    BY <1>2, <1>3, AliveShared, AliveSharedAfter
  <2>2. held' = held
    BY <1>3 DEF DropShare
  <2> QED BY <2>1, <2>2 DEF MemoryInv, FiniteShares, HeldBalanced, HeldBound, Bytes
<1>4. CASE p \notin Alive'
  <2>1. Alive' = Alive \ {p}
    BY <1>2, <1>4, AliveShared, AliveSharedAfter
  <2>2. /\ IsFiniteSet(Bytes(Alive \ {p}))
        /\ RangeBytes[p[1]] \in Nat \ {0}
        /\ Cardinality(Bytes(Alive \ {p})) \in Nat
        /\ held = Cardinality(Bytes(Alive \ {p})) + RangeBytes[p[1]]
    BY <1>2, BytesRemove DEF MemoryInv, FiniteShares, HeldBalanced
  <2>3. held' = Cardinality(Bytes(Alive \ {p}))
    BY <1>4, <2>2 DEF DropShare, Minus
  <2>4. Bytes(Alive)' = Bytes(Alive \ {p})
    BY <2>1 DEF Bytes
  <2>5. IsFiniteSet(Alive \ {p})
    BY FS_RemoveElement DEF MemoryInv, FiniteShares
  <2>6. HeldBound'
    <3>1. CASE held <= MaxBytes
      BY <2>2, <2>3, <3>1 DEF HeldBound, RemoteQueueAssumption
    <3>2. CASE Cardinality(Alive) = 1
      <4>1. \E x : Alive = {x}
        BY <3>2, FS_Singleton DEF MemoryInv, FiniteShares
      <4>2. Alive \ {p} = {}
        BY <1>2, <4>1
      <4>3. Bytes(Alive \ {p}) = {}
        BY <4>2 DEF Bytes
      <4>4. held' = 0
        BY <2>3, <4>3, FS_EmptySet
      <4> QED BY <4>4 DEF HeldBound, RemoteQueueAssumption
    <3> QED BY <3>1, <3>2 DEF MemoryInv, HeldBound
  <2> QED BY <2>1, <2>2, <2>3, <2>4, <2>5, <2>6 DEF FiniteShares, HeldBalanced
<1> QED BY <1>3, <1>4

\* A new queue holds nothing.
LEMMA MemoryInit ==
    ASSUME RemoteQueueAssumption, Init
    PROVE  MemoryInv
<1>1. DOMAIN ready = {}
  BY DEF Init
<1>2. \A p : ~(p # NoResponse /\ Shared(p))
  BY <1>1 DEF Init, Shared
<1>3. Alive = {}
  BY <1>2, AliveShared
<1>4. Bytes({}) = {}
  BY DEF Bytes
<1>5. Bytes(Alive) = {}
  BY <1>3, <1>4
<1>6. FiniteShares
  BY <1>3, <1>5, FS_EmptySet DEF FiniteShares
<1>7. HeldBalanced
  BY <1>5, FS_EmptySet DEF HeldBalanced, Init
<1>8. HeldBound
  BY DEF HeldBound, Init, RemoteQueueAssumption
<1> QED BY <1>6, <1>7, <1>8 DEF Init, MemoryInv, WorkerShares, ClientShares

\* A claim reserves the bytes of its range, which fit, or finds nothing held.
LEMMA MemoryClaim ==
    ASSUME RemoteQueueAssumption, TypeOK, JobsInv, MemoryInv, NEW w \in FetchWorkers, Claim(w)
    PROVE  MemoryInv'
<1> DEFINE r == Candidate
           p == NewResponse(r)
<1>1. r \in Ranges
  BY CandidateOpen DEF Claim, JobsInv
<1>2. p \in Responses /\ p \notin Alive /\ p[1] = r
  BY <1>1, NewResponseIsNew DEF MemoryInv, FiniteShares
<1>3. /\ Fits(r) /\ held' = held + RangeBytes[r]
      /\ worker' = [worker EXCEPT ![w] = "fetch"]
      /\ response' = [response EXCEPT ![w] = p]
      /\ UNCHANGED <<ready, dropping, received, client, payload>>
      /\ worker[w] = "claim"
  BY DEF Claim, InClaim, clientVars
<1> HIDE DEF r, p
<1>4. p # NoResponse
  BY <1>2 DEF RemoteQueueAssumption
<1>5. WorkerShares' /\ ClientShares'
  BY <1>3, <1>4 DEF MemoryInv, WorkerShares, ClientShares, TypeOK
<1>6. Alive' = Alive \cup {p}
  <2>1. \A v \in FetchWorkers : response'[v] = IF v = w THEN p ELSE response[v]
    BY <1>3 DEF TypeOK
  <2>2. response[w] = NoResponse
    BY <1>3 DEF MemoryInv, WorkerShares
  <2>3. \A q : q # NoResponse => (Shared(q)' <=> Shared(q) \/ q = p)
    BY <1>3, <2>1, <2>2 DEF Shared
  <2> QED BY <1>4, <2>3, AliveShared, AliveSharedAfter
<1>7. /\ IsFiniteSet(Bytes(Alive \cup {p}))
      /\ RangeBytes[r] \in Nat \ {0}
      /\ Cardinality(Bytes(Alive \cup {p})) = Cardinality(Bytes(Alive)) + RangeBytes[r]
  BY <1>2, BytesAdd DEF MemoryInv, FiniteShares
<1>8. Bytes(Alive)' = Bytes(Alive \cup {p})
  BY <1>6 DEF Bytes
<1>9. IsFiniteSet(Alive \cup {p})
  BY FS_AddElement DEF MemoryInv, FiniteShares
<1>10. HeldBalanced' /\ FiniteShares'
  BY <1>3, <1>6, <1>7, <1>8, <1>9 DEF HeldBalanced, FiniteShares, MemoryInv
<1>11. HeldBound'
  <2>1. CASE held = 0
    <3>1. Alive = {}
      <4>1. Bytes(Alive) = {}
        BY <2>1, FS_EmptySet DEF MemoryInv, HeldBalanced, FiniteShares
      <4>2. ASSUME NEW q \in Alive PROVE FALSE
        <5>1. q \in Responses
          BY <4>2, AliveType
        <5>2. RangeBytes[q[1]] \in Nat \ {0}
          BY <5>1 DEF RemoteQueueAssumption, Responses
        <5>3. <<q, 1>> \in {q} \X (1 .. RangeBytes[q[1]])
          BY <5>2
        <5>4. <<q, 1>> \in Bytes(Alive)
          BY <4>2, <5>3, Zenon DEF Bytes
        <5> QED BY <4>1, <5>4
      <4> QED BY <4>2
    <3>2. Alive' = {p}
      BY <1>6, <3>1
    <3> QED BY <3>2, FS_Singleton DEF HeldBound
  <2>2. CASE RangeBytes[r] <= Minus(MaxBytes, held)
    BY <1>3, <1>7, <2>2 DEF HeldBound, Minus, TypeOK, RemoteQueueAssumption
  <2> QED BY <1>3, <2>1, <2>2 DEF Fits
<1> QED BY <1>5, <1>10, <1>11 DEF MemoryInv

\* Nothing about shares changes.
LEMMA MemoryQuiet ==
    ASSUME MemoryInv, UNCHANGED <<held, ready, response, payload>>,
           \A v \in FetchWorkers : dropping'[v] = dropping[v]
    PROVE  FiniteShares' /\ HeldBalanced' /\ HeldBound'
<1>1. \A p : Shared(p)' <=> Shared(p)
  BY DEF Shared
<1> QED BY <1>1, AccountKept

\* An eviction hands the shares of the queue to the worker, which drops them later.
LEMMA MemoryEvict ==
    ASSUME RemoteQueueAssumption, TypeOK, MemoryInv, NEW w \in FetchWorkers, Evict(w)
    PROVE  MemoryInv'
<1>1. /\ \A v \in FetchWorkers :
            dropping'[v] = IF v = w THEN {ready[k] : k \in Victims} ELSE dropping[v]
      /\ \A v \in FetchWorkers : worker'[v] = IF v = w THEN "evict" ELSE worker[v]
      /\ DOMAIN ready' = DOMAIN ready \ Victims
      /\ \A k \in DOMAIN ready' : ready'[k] = ready[k]
      /\ worker[w] = "claim"
      /\ UNCHANGED <<held, response, received, client, payload>>
  BY DEF Evict, InClaim, TypeOK, clientVars
<1>2. dropping[w] = {}
  BY <1>1 DEF MemoryInv, WorkerShares
<1>3. \A p : Shared(p)' <=> Shared(p)
  <2> TAKE p
  <2>1. (\E k \in DOMAIN ready : ready[k] = p) <=>
           p \in dropping'[w] \/ \E k \in DOMAIN ready' : ready'[k] = p
    <3>1. p \in dropping'[w] <=> \E k \in Victims : ready[k] = p
      <4>1. dropping'[w] = {ready[k] : k \in Victims}
        BY <1>1
      <4> QED BY <4>1, Zenon
    <3>2. Victims \subseteq DOMAIN ready
      BY DEF Victims
    <3> QED BY <1>1, <3>1, <3>2
  <2>2. (\E v \in FetchWorkers : p \in dropping'[v]) <=>
           p \in dropping'[w] \/ \E v \in FetchWorkers : p \in dropping[v]
    BY <1>1, <1>2
  <2> QED BY <1>1, <2>1, <2>2 DEF Shared
<1>4. FiniteShares' /\ HeldBalanced' /\ HeldBound'
  BY <1>1, <1>3, AccountKept
<1>5. WorkerShares' /\ ClientShares'
  BY <1>1 DEF MemoryInv, WorkerShares, ClientShares
<1> QED BY <1>4, <1>5 DEF MemoryInv

\* A worker drops a share it was left with.
LEMMA MemoryDrop ==
    ASSUME RemoteQueueAssumption, TypeOK, MemoryInv, NEW w \in FetchWorkers,
           DropEvicted(w) \/ DropUnused(w)
    PROVE  MemoryInv'
<1>1. PICK p \in dropping[w] :
         /\ dropping' = [dropping EXCEPT ![w] = @ \ {p}]
         /\ DropShare(p)
         /\ worker' = worker \/ worker' = [worker EXCEPT ![w] =
                                  IF dropping[w] = {p} THEN "claim" ELSE "evict"]
  BY DEF DropEvicted, DropUnused
<1>2. /\ UNCHANGED <<ready, response, received, client, payload>>
      /\ worker[w] \in {"evict", "unused"}
  BY DEF DropEvicted, DropUnused, clientVars
<1>3. p \in Responses /\ \A v \in FetchWorkers :
         dropping'[v] = IF v = w THEN dropping[w] \ {p} ELSE dropping[v]
  BY <1>1 DEF TypeOK
<1>4. Shared(p) /\ \A q : q # NoResponse /\ q # p => (Shared(q)' <=> Shared(q))
  BY <1>2, <1>3 DEF Shared
<1>5. FiniteShares' /\ HeldBalanced' /\ HeldBound'
  BY <1>1, <1>3, <1>4, AccountDrop
<1>6. \A v \in FetchWorkers : \/ worker'[v] = worker[v]
                              \/ v = w /\ worker'[w] = "evict"
                              \/ v = w /\ worker'[w] = "claim" /\ dropping'[w] = {}
  BY <1>1, <1>3 DEF TypeOK
<1>7. WorkerShares'
  <2> SUFFICES ASSUME NEW v \in FetchWorkers
               PROVE  /\ worker'[v] \notin {"fetch", "store"} => response'[v] = NoResponse
                      /\ worker'[v] = "fetch" => response'[v] # NoResponse
                      /\ worker'[v] = "store" => (response'[v] = NoResponse <=> received'[v] = 0)
                      /\ worker'[v] \notin {"evict", "unused"} => dropping'[v] = {}
    BY DEF WorkerShares
  <2>1. CASE worker'[v] = worker[v]
    BY <1>2, <1>3, <2>1 DEF MemoryInv, WorkerShares
  <2>2. CASE v = w /\ worker'[w] = "evict"
    BY <1>2, <2>2 DEF MemoryInv, WorkerShares
  <2>3. CASE v = w /\ worker'[w] = "claim" /\ dropping'[w] = {}
    BY <1>2, <2>3 DEF MemoryInv, WorkerShares
  <2> QED BY <1>6, <2>1, <2>2, <2>3
<1>8. ClientShares'
  BY <1>2 DEF MemoryInv, ClientShares
<1> QED BY <1>5, <1>7, <1>8 DEF MemoryInv

\* A failed download, and one too short for any chunk, gives its bytes back.
LEMMA ResponseDropped ==
    ASSUME RemoteQueueAssumption, TypeOK, MemoryInv, NEW w \in FetchWorkers,
           worker[w] = "fetch", response' = [response EXCEPT ![w] = NoResponse],
           UNCHANGED <<ready, dropping, payload>>, DropShare(response[w])
    PROVE  FiniteShares' /\ HeldBalanced' /\ HeldBound'
<1>1. response[w] \in Responses /\ Shared(response[w])
  BY DEF TypeOK, MemoryInv, WorkerShares, Shared
<1>2. \A v \in FetchWorkers : response'[v] = IF v = w THEN NoResponse ELSE response[v]
  BY DEF TypeOK
<1>3. \A q : q # NoResponse /\ q # response[w] => (Shared(q)' <=> Shared(q))
  BY <1>2 DEF Shared
<1> QED BY <1>1, <1>3, AccountDrop

\* A response arrives, or is too short for any of its slices.
LEMMA MemoryReceive ==
    ASSUME RemoteQueueAssumption, TypeOK, MemoryInv, NEW w \in FetchWorkers, Receive(w)
    PROVE  MemoryInv'
<1>1. PICK n \in (IF CanBeShort THEN 0 ELSE Len(ChunkSlices[job[w]])) .. Len(ChunkSlices[job[w]]) :
         /\ received' = [received EXCEPT ![w] = n]
         /\ IF n > 0
            THEN UNCHANGED <<response, held, sleeping>>
            ELSE /\ response' = [response EXCEPT ![w] = NoResponse]
                 /\ DropShare(response[w])
  BY DEF Receive
<1>2. /\ worker[w] = "fetch"
      /\ worker' = [worker EXCEPT ![w] = "store"]
      /\ UNCHANGED <<ready, dropping, client, payload>>
  BY DEF Receive, clientVars
<1>3. n > 0 \/ n = 0
  BY <1>1 DEF Receive
<1>4. FiniteShares' /\ HeldBalanced' /\ HeldBound'
  <2>1. CASE n > 0
    BY <1>1, <1>2, <2>1, MemoryQuiet
  <2>2. CASE n = 0
    BY <1>1, <1>2, <2>2, ResponseDropped
  <2> QED BY <1>3, <2>1, <2>2
<1>5. /\ \A v \in FetchWorkers : worker'[v] = IF v = w THEN "store" ELSE worker[v]
      /\ \A v \in FetchWorkers : received'[v] = IF v = w THEN n ELSE received[v]
      /\ \A v \in FetchWorkers :
            response'[v] = IF v = w /\ n = 0 THEN NoResponse ELSE response[v]
  BY <1>1, <1>2, <1>3 DEF TypeOK
<1>6. WorkerShares' /\ ClientShares'
  BY <1>2, <1>3, <1>5 DEF MemoryInv, WorkerShares, ClientShares
<1> QED BY <1>4, <1>6 DEF MemoryInv

\* Stored chunks share the response; what nobody wants keeps the worker's own share.
LEMMA MemoryStore ==
    ASSUME RemoteQueueAssumption, TypeOK, MemoryInv, NEW w \in FetchWorkers, Store(w)
    PROVE  MemoryInv'
<1>1. /\ worker[w] = "store"
      /\ DOMAIN ready' = DOMAIN ready \cup Stored(w)
      /\ \A k \in DOMAIN ready' :
            ready'[k] = IF k \in Stored(w) THEN response[w] ELSE ready[k]
      /\ \A v \in FetchWorkers :
            dropping'[v] = IF v # w THEN dropping[v]
                           ELSE IF Stored(w) = Sliced(w) THEN {} ELSE {response[w]}
      /\ \A v \in FetchWorkers : response'[v] = IF v = w THEN NoResponse ELSE response[v]
      /\ \A v \in FetchWorkers : worker'[v] = IF v = w THEN "unused" ELSE worker[v]
      /\ UNCHANGED <<held, received, client, payload>>
  BY DEF Store, TypeOK, clientVars
<1>2. dropping[w] = {} /\ (response[w] = NoResponse <=> received[w] = 0) /\ received[w] \in Nat
  BY <1>1 DEF MemoryInv, WorkerShares, TypeOK
<1>3. /\ Stored(w) \subseteq Sliced(w) /\ Stored(w) \cap DOMAIN ready = {}
      /\ received[w] > 0 => Sliced(w) # {}
      /\ received[w] = 0 => Sliced(w) = {}
  <2>1. Stored(w) \subseteq Sliced(w) /\ Stored(w) \cap DOMAIN ready = {}
    BY DEF Stored
  <2>2. ASSUME received[w] > 0 PROVE Sliced(w) # {}
    <3>1. 1 \in 1 .. received[w]
      BY <1>2, <2>2
    <3>2. ChunkSlices[job[w]][1] \in Sliced(w)
      BY <3>1 DEF Sliced
    <3> QED BY <3>2
  <2>3. ASSUME received[w] = 0 PROVE Sliced(w) = {}
    BY <2>3 DEF Sliced
  <2> QED BY <2>1, <2>2, <2>3
<1>4. \A p : p # NoResponse => (Shared(p)' <=> Shared(p))
  <2> TAKE p
  <2> HAVE p # NoResponse
  <2>1. (\E k \in DOMAIN ready' : ready'[k] = p) <=>
           (\E k \in DOMAIN ready : ready[k] = p) \/ (Stored(w) # {} /\ p = response[w])
    BY <1>1, <1>3
  <2>2. (\E v \in FetchWorkers : p \in dropping'[v]) <=>
           (\E v \in FetchWorkers : p \in dropping[v])
             \/ (Stored(w) # Sliced(w) /\ p = response[w])
    BY <1>1, <1>2
  <2>3. (\E v \in FetchWorkers : response[v] = p) <=>
           (\E v \in FetchWorkers : response'[v] = p) \/ p = response[w]
    BY <1>1
  <2>4. p = response[w] => Stored(w) # {} \/ Stored(w) # Sliced(w)
    BY <1>2, <1>3
  <2>5. UNCHANGED payload
    BY <1>1
  <2> QED BY <2>1, <2>2, <2>3, <2>4, <2>5 DEF Shared
<1>5. FiniteShares' /\ HeldBalanced' /\ HeldBound'
  BY <1>1, <1>4, AccountKept
<1>6. WorkerShares' /\ ClientShares'
  BY <1>1 DEF MemoryInv, WorkerShares, ClientShares
<1> QED BY <1>5, <1>6 DEF MemoryInv

\* Every step of a fetch worker keeps the memory account.
LEMMA MemoryWorker ==
    ASSUME RemoteQueueAssumption, TypeOK, JobsInv, MemoryInv, NEW w \in FetchWorkers, WorkerStep(w)
    PROVE  MemoryInv'
<1>1. CASE Exit(w) \/ Announce(w) \/ PublishError(w) \/ Sleep(w)
  <2>1. /\ UNCHANGED <<held, ready, response, dropping, client, payload>>
        /\ \A v \in FetchWorkers :
              \/ worker'[v] = worker[v] /\ received'[v] = received[v]
              \/ /\ worker[v] \notin {"fetch", "store"} /\ dropping[v] = {}
                 /\ worker'[v] \notin {"fetch", "store"}
    <3>1. CASE Exit(w)
      BY <3>1 DEF Exit, InClaim, TypeOK, MemoryInv, WorkerShares, queueVars, clientVars
    <3>2. CASE Announce(w)
      BY <3>2 DEF Announce, TypeOK, queueVars, clientVars
    <3>3. CASE PublishError(w)
      BY <3>3 DEF PublishError, TypeOK, MemoryInv, WorkerShares, queueVars, clientVars
    <3>4. CASE Sleep(w)
      BY <3>4 DEF Sleep, queueVars, clientVars, workerVars
    <3> QED BY <1>1, <3>1, <3>2, <3>3, <3>4
  <2>2. FiniteShares' /\ HeldBalanced' /\ HeldBound'
    BY <2>1, MemoryQuiet
  <2>3. WorkerShares'
    BY <2>1 DEF MemoryInv, WorkerShares
  <2>4. ClientShares'
    BY <2>1 DEF MemoryInv, ClientShares
  <2> QED BY <2>2, <2>3, <2>4 DEF MemoryInv
<1>2. CASE FetchFails(w)
  <2>1. FiniteShares' /\ HeldBalanced' /\ HeldBound'
    BY <1>2, ResponseDropped DEF FetchFails, clientVars
  <2>2. /\ \A v \in FetchWorkers : worker'[v] = IF v = w THEN "failing" ELSE worker[v]
        /\ \A v \in FetchWorkers : response'[v] = IF v = w THEN NoResponse ELSE response[v]
        /\ worker[w] = "fetch" /\ UNCHANGED <<received, dropping, client, payload>>
    BY <1>2 DEF FetchFails, TypeOK, clientVars
  <2>3. WorkerShares' /\ ClientShares'
    BY <2>2 DEF MemoryInv, WorkerShares, ClientShares
  <2> QED BY <2>1, <2>3 DEF MemoryInv
<1> QED BY <1>1, <1>2, MemoryClaim, MemoryEvict, MemoryDrop, MemoryReceive, MemoryStore
        DEF WorkerStep

\* A chunk that leaves the queue takes its share along.
LEMMA MemoryAnswer ==
    ASSUME RemoteQueueAssumption, TypeOK, MemoryInv, NEW c \in Clients, NEW k, NEW verdict,
           verdict \in {"chunk", "none", "error"},
           Answer(c, k, verdict), client[c] # "chunk", verdict = "chunk" => k \in DOMAIN ready,
           UNCHANGED <<held, worker, response, received, dropping>>
    PROVE  MemoryInv'
<1>1. \A d \in Clients : client'[d] = IF d = c THEN verdict ELSE client[d]
  BY DEF Answer, TypeOK
<1>2. payload[c] = NoResponse
  BY DEF MemoryInv, ClientShares
<1>3. WorkerShares'
  BY DEF MemoryInv, WorkerShares
<1>4. CASE verdict # "chunk"
  <2>1. UNCHANGED <<ready, payload>>
    BY <1>4 DEF Answer
  <2>2. FiniteShares' /\ HeldBalanced' /\ HeldBound'
    BY <2>1, MemoryQuiet
  <2>3. ClientShares'
    BY <1>1, <1>2, <1>4, <2>1 DEF MemoryInv, ClientShares
  <2> QED BY <1>3, <2>2, <2>3 DEF MemoryInv
<1>5. CASE verdict = "chunk"
  <2>1. /\ DOMAIN ready' = DOMAIN ready \ {k}
        /\ \A j \in DOMAIN ready' : ready'[j] = ready[j]
        /\ \A d \in Clients : payload'[d] = IF d = c THEN ready[k] ELSE payload[d]
        /\ k \in DOMAIN ready
    BY <1>5 DEF Answer, TypeOK
  <2>2. ready[k] # NoResponse
    BY <2>1 DEF TypeOK, RemoteQueueAssumption
  <2>3. \A p : p # NoResponse => (Shared(p)' <=> Shared(p))
    <3> TAKE p
    <3> HAVE p # NoResponse
    <3>1. (\E j \in DOMAIN ready : ready[j] = p) <=>
             (\E j \in DOMAIN ready' : ready'[j] = p) \/ p = ready[k]
      BY <2>1
    <3>2. (\E d \in Clients : payload'[d] = p) <=>
             (\E d \in Clients : payload[d] = p) \/ p = ready[k]
      BY <1>2, <2>1
    <3> QED BY <3>1, <3>2 DEF Shared
  <2>4. FiniteShares' /\ HeldBalanced' /\ HeldBound'
    BY <2>3, AccountKept
  <2>5. ClientShares'
    BY <1>1, <1>5, <2>1, <2>2 DEF MemoryInv, ClientShares
  <2> QED BY <1>3, <2>4, <2>5 DEF MemoryInv
<1> QED BY <1>4, <1>5

\* Every step of a client keeps the memory account.
LEMMA MemoryClient ==
    ASSUME RemoteQueueAssumption, TypeOK, MemoryInv, NEW c \in Clients,
           ClientStep(c) \/ Request(c) \/ TryGet(c) \/ Leave(c)
    PROVE  MemoryInv'
<1>1. ASSUME UNCHANGED <<held, ready, workerVars, payload>>,
             \A d \in Clients : client'[d] = client[d] \/ (client[d] # "chunk" /\ client'[d] # "chunk")
      PROVE  MemoryInv'
  <2>1. FiniteShares' /\ HeldBalanced' /\ HeldBound'
    BY <1>1, MemoryQuiet DEF workerVars
  <2>2. WorkerShares'
    BY <1>1 DEF MemoryInv, WorkerShares, workerVars
  <2>3. ClientShares'
    BY <1>1 DEF MemoryInv, ClientShares
  <2> QED BY <2>1, <2>2, <2>3 DEF MemoryInv
<1>2. CASE Answered(c)
  <2>1. /\ Answer(c, wanted[c], Verdict(wanted[c])) /\ client[c] = "wait"
        /\ UNCHANGED <<held, worker, response, received, dropping>>
    BY <1>2 DEF Answered, workerVars
  <2>2. /\ Verdict(wanted[c]) \in {"chunk", "none", "error"}
        /\ Verdict(wanted[c]) = "chunk" => wanted[c] \in DOMAIN ready
    BY <2>1 DEF Answer, Verdict
  <2> HIDE DEF Verdict
  <2> QED BY <2>1, <2>2, MemoryAnswer
<1>3. CASE WaitsOn(c)
  BY <1>1, <1>3 DEF WaitsOn, queueVars, clientVars
<1>4. CASE Finish(c)
  <2>1. /\ \A d \in Clients : client'[d] = IF d = c THEN "idle" ELSE client[d]
        /\ \A d \in Clients : payload'[d] = IF d = c THEN NoResponse ELSE payload[d]
        /\ UNCHANGED <<ready, worker, response, received, dropping>>
    BY <1>4 DEF Finish, TypeOK, workerVars
  <2>2. WorkerShares' /\ ClientShares'
    BY <2>1 DEF MemoryInv, WorkerShares, ClientShares
  <2>3. CASE client[c] = "chunk"
    <3>1. payload[c] \in Responses /\ Shared(payload[c]) /\ DropShare(payload[c])
      BY <1>4, <2>3 DEF TypeOK, MemoryInv, ClientShares, Shared, Finish
    <3>2. \A q : q # NoResponse /\ q # payload[c] => (Shared(q)' <=> Shared(q))
      BY <2>1 DEF Shared
    <3>3. FiniteShares' /\ HeldBalanced' /\ HeldBound'
      BY <3>1, <3>2, AccountDrop
    <3> QED BY <2>2, <3>3 DEF MemoryInv
  <2>4. CASE client[c] # "chunk"
    <3>1. payload[c] = NoResponse /\ held' = held
      BY <1>4, <2>4 DEF MemoryInv, ClientShares, Finish
    <3>2. payload' = payload
      BY <1>4, <3>1 DEF Finish, TypeOK
    <3>3. FiniteShares' /\ HeldBalanced' /\ HeldBound'
      BY <2>1, <3>1, <3>2, MemoryQuiet
    <3> QED BY <2>2, <3>3 DEF MemoryInv
  <2> QED BY <2>3, <2>4
<1>5. CASE Request(c)
  <2>1. PICK k \in Scheduled :
           \/ Answer(c, k, Verdict(k))
           \/ client' = [client EXCEPT ![c] = "wait"] /\ UNCHANGED <<ready, payload>>
    BY <1>5 DEF Request
  <2>2. client[c] = "idle" /\ UNCHANGED <<held, workerVars>>
    BY <1>5 DEF Request
  <2>3. CASE Answer(c, k, Verdict(k))
    <3>1. /\ Verdict(k) \in {"chunk", "none", "error"}
          /\ Verdict(k) = "chunk" => k \in DOMAIN ready
      BY <2>3 DEF Answer, Verdict
    <3> QED BY <2>2, <2>3, <3>1, MemoryAnswer DEF workerVars
  <2>4. CASE client' = [client EXCEPT ![c] = "wait"] /\ UNCHANGED <<ready, payload>>
    <3>1. \A d \in Clients : client'[d] = IF d = c THEN "wait" ELSE client[d]
      BY <2>4 DEF TypeOK
    <3> QED BY <1>1, <2>2, <2>4, <3>1
  <2> QED BY <2>1, <2>3, <2>4
<1>6. CASE TryGet(c)
  <2>1. client[c] = "idle" /\ UNCHANGED <<held, workerVars>>
    BY <1>6 DEF TryGet
  <2>2. CASE UNCHANGED <<ready, remaining, clientVars>>
    BY <1>1, <2>1, <2>2 DEF clientVars
  <2>3. ASSUME NEW k \in DOMAIN ready, Answer(c, k, "chunk") PROVE MemoryInv'
    BY <2>1, <2>3, MemoryAnswer DEF workerVars
  <2> QED BY <1>6, <2>2, <2>3 DEF TryGet
<1>7. CASE Leave(c)
  <2>1. \A d \in Clients : client'[d] = IF d = c THEN "left" ELSE client[d]
    BY <1>7 DEF Leave, TypeOK
  <2> QED BY <1>1, <1>7, <2>1 DEF Leave, queueVars
<1> QED BY <1>2, <1>3, <1>4, <1>5, <1>6, <1>7 DEF ClientStep

--------------------------------------------------------------------------------
(* The invariant, and what follows from it.                                     *)

\* A new queue satisfies the invariant.
LEMMA RemoteInit == Init => RemoteInv
BY RemoteQueueAssumption, TypesInit, JobsInit, ClientsInit, MemoryInit DEF RemoteInv

\* Cancelling the queue changes nothing the invariant speaks of.
LEMMA RemoteCancel ==
    ASSUME RemoteInv, Cancel
    PROVE  RemoteInv'
<1>1. TypeOK'
  BY DEF RemoteInv, TypeOK, Cancel, workerVars, clientVars
<1>2. JobsInv'
  BY JobsQuiet DEF RemoteInv, Cancel, workerVars, Busy
<1>3. ClientInv'
  BY ClientsQuiet DEF RemoteInv, Cancel, workerVars, clientVars
<1>4. MemoryInv'
  <2>1. UNCHANGED <<held, ready, worker, response, received, dropping, client, payload>>
    BY DEF Cancel, workerVars, clientVars
  <2>2. FiniteShares' /\ HeldBalanced' /\ HeldBound'
    BY <2>1, MemoryQuiet DEF RemoteInv
  <2>3. WorkerShares' /\ ClientShares'
    BY <2>1 DEF RemoteInv, MemoryInv, WorkerShares, ClientShares
  <2> QED BY <2>2, <2>3 DEF MemoryInv
<1> QED BY <1>1, <1>2, <1>3, <1>4 DEF RemoteInv

\* A step that changes no variable keeps the invariant.
LEMMA RemoteStutter ==
    ASSUME RemoteInv, UNCHANGED vars
    PROVE  RemoteInv'
<1> USE DEF vars, queueVars, workerVars, clientVars
<1>1. TypeOK'
  BY DEF RemoteInv, TypeOK
<1>2. JobsInv'
  BY JobsQuiet DEF RemoteInv, Busy
<1>3. ClientInv'
  BY ClientsQuiet DEF RemoteInv
<1>4. MemoryInv'
  <2>1. FiniteShares' /\ HeldBalanced' /\ HeldBound'
    BY MemoryQuiet DEF RemoteInv
  <2>2. WorkerShares' /\ ClientShares'
    BY DEF RemoteInv, MemoryInv, WorkerShares, ClientShares
  <2> QED BY <2>1, <2>2 DEF MemoryInv
<1> QED BY <1>1, <1>2, <1>3, <1>4 DEF RemoteInv

\* Every step of the queue, its workers and its clients keeps the invariant.
LEMMA RemoteNext == RemoteInv /\ [Next]_vars => RemoteInv'
<1> SUFFICES ASSUME RemoteInv, [Next]_vars PROVE RemoteInv'
  OBVIOUS
<1>1. RemoteQueueAssumption /\ TypeOK /\ JobsInv /\ ClientInv /\ MemoryInv
  BY RemoteQueueAssumption DEF RemoteInv
<1>2. ASSUME NEW w \in FetchWorkers, WorkerStep(w) PROVE RemoteInv'
  <2>1. TypeOK'
    BY <1>1, <1>2, ClaimLoopTypes, DownloadTypes DEF WorkerStep
  <2>2. JobsInv'
    BY <1>1, <1>2, JobsWorker
  <2>3. ClientInv'
    BY <1>1, <1>2, ClientsWorker
  <2>4. MemoryInv'
    BY <1>1, <1>2, MemoryWorker
  <2> QED BY <2>1, <2>2, <2>3, <2>4 DEF RemoteInv
<1>3. ASSUME NEW c \in Clients, ClientStep(c) \/ Request(c) \/ TryGet(c) \/ Leave(c)
      PROVE  RemoteInv'
  <2>1. TypeOK'
    BY <1>1, <1>3, ClientTypes DEF ClientStep
  <2>2. JobsInv'
    BY <1>1, <1>3, JobsClient
  <2>3. ClientInv'
    BY <1>1, <1>3, ClientsClient
  <2>4. MemoryInv'
    BY <1>1, <1>3, MemoryClient
  <2> QED BY <2>1, <2>2, <2>3, <2>4 DEF RemoteInv
<1> QED BY <1>2, <1>3, RemoteCancel, RemoteStutter DEF Next, Dropped

\* held_bytes is the bytes of the responses somebody still shares, it stays within
\* max_buffered_bytes unless one response is alone, and no range is downloaded
\* twice at a time or demanded twice: for any number of fetch workers, decode
\* workers, ranges and chunks, whoever drops a response last.
THEOREM RemoteHeldSound == Spec => []HeldSound
<1>1. RemoteInv => HeldSound
  <2>1. RemoteInv => OneFetcher
    BY DEF RemoteInv, JobsInv, BusyOwns, DemandOnce, OneFetcher, Busy
  <2> QED BY <2>1 DEF RemoteInv, MemoryInv, HeldSound
<1> QED BY <1>1, RemoteInit, RemoteNext, PTL DEF Spec

\* get_chunk_payload says None only of a chunk that was taken, that no response
\* covered, or after a cancellation, and never gives a chunk out twice.
THEOREM RemoteHonestAnswers == Spec => []HonestAnswers
<1>1. RemoteInv => HonestAnswers
  BY DEF RemoteInv, ClientInv, HonestAnswers
<1> QED BY <1>1, RemoteInit, RemoteNext, PTL DEF Spec

\* A ready chunk that a client waits for is not evicted.
LEMMA VictimsUnwanted ==
    ASSUME RemoteInv, NEW c \in Clients, client[c] = "wait", wanted[c] \in DOMAIN ready
    PROVE  wanted[c] \notin Victims
<1> DEFINE r == RangeOf(wanted[c])
<1>1. r \in Ranges
  BY RemoteQueueAssumption, RangeOfScheduled DEF RemoteInv, ClientInv, WaitsScheduled
<1>2. IsFiniteSet(Waiters(r)) /\ requested[r] = Cardinality(Waiters(r)) /\ c \in Waiters(r)
  BY <1>1 DEF RemoteInv, ClientInv, WaitersCounted, Waiters
<1>3. Cardinality(Waiters(r)) # 0
  BY <1>2, FS_EmptySet
<1> QED BY <1>2, <1>3 DEF Victims

\* Whatever the demands of others push out, a chunk that is ready and waited for
\* leaves the queue only with a client: active_demands protects it between
\* notify_all and the moment its client runs.
THEOREM RemoteWaitedForStays == Spec => WaitedForStays
<1> DEFINE Stays == \A k \in DOMAIN ready :
              (\E c \in Clients : client[c] = "wait" /\ wanted[c] = k) /\ k \notin DOMAIN ready'
                  => k \notin remaining'
<1>1. ASSUME RemoteInv, [Next]_vars PROVE Stays
  <2> SUFFICES ASSUME NEW c \in Clients, client[c] = "wait", wanted[c] \in DOMAIN ready,
                      wanted[c] \notin DOMAIN ready'
               PROVE  wanted[c] \notin remaining'
    OBVIOUS
  <2>1. ASSUME NEW w \in FetchWorkers, WorkerStep(w) PROVE FALSE
    <3>1. CASE Evict(w)
      BY <1>1, <3>1, VictimsUnwanted DEF Evict
    <3>2. CASE Store(w)
      BY <3>2 DEF Store
    <3>3. CASE ~Evict(w) /\ ~Store(w)
      <4>1. ready' = ready
        BY <2>1, <3>3 DEF WorkerStep, Exit, Claim, DropEvicted, Sleep, Receive, DropUnused,
                          Announce, FetchFails, PublishError, queueVars
      <4> QED BY <4>1
    <3> QED BY <3>1, <3>2, <3>3
  <2>2. ASSUME NEW d \in Clients, NEW k, NEW verdict, Answer(d, k, verdict)
        PROVE  wanted[c] \notin remaining'
    BY <2>2 DEF Answer
  <2>3. ASSUME NEW d \in Clients, ClientStep(d) \/ Request(d) \/ TryGet(d) \/ Leave(d)
        PROVE  wanted[c] \notin remaining'
    <3>1. ready' = ready \/ \E k, verdict : Answer(d, k, verdict)
      BY <2>3 DEF ClientStep, Answered, WaitsOn, Finish, Request, TryGet, Leave, queueVars
    <3> QED BY <2>2, <3>1
  <2>4. CASE Cancel \/ UNCHANGED vars
    BY <2>4 DEF Cancel, vars, queueVars
  <2> QED BY <1>1, <2>1, <2>3, <2>4 DEF Next, Dropped
<1>2. RemoteInv /\ [Next]_vars => [Stays]_vars
  BY <1>1
<1> QED BY <1>2, RemoteInit, RemoteNext, PTL DEF Spec, WaitedForStays

-----------------------------------------------------------------------------
(* The planning of the requests, coalesce_chunk_ranges: for every chunk list *)
(* and every limit, the ranges built carry exactly their chunks' bytes and   *)
(* respect the limits.                                                      *)

\* What the loop keeps true of one range.
GoodRange(range) ==
    /\ IsTight(range)
    /\ \A s \in 1 .. Len(range.slices) : IsChunk(range, range.slices[s])

GoodRanges ==
    /\ \A i \in 1 .. Len(ranges) : GoodRange(ranges[i])
    /\ current # <<>> => GoodRange(current[1])

\* The inductive invariant: the ranges are good one by one.
CoalesceInv == CoalesceTypeOK /\ GoodRanges

-----------------------------------------------------------------------------
(* Facts about the operators.                                               *)

\* A range made for one chunk that has bytes is a range.
LEMMA RangeForType ==
    ASSUME NEW loc \in Locations, loc.length # 0
    PROVE  RangeFor(loc) \in CoalescedRanges
<1>1. EndOf(loc) \in Nat
    BY DEF EndOf, Locations
<1>2. [chunk |-> loc.chunk, start |-> 0, len |-> loc.length] \in Slices
    BY DEF Slices, Locations
<1>3. <<[chunk |-> loc.chunk, start |-> 0, len |-> loc.length]>> \in Seq(Slices)
    BY <1>2
<1> QED
    BY <1>1, <1>3 DEF RangeFor, CoalescedRanges, Locations

\* What it covers is the chunk, alone.
LEMMA RangeForTight ==
    ASSUME NEW loc \in Locations, loc.length # 0
    PROVE  IsTight(RangeFor(loc))
    BY CoalesceAssumption DEF RangeFor, IsTight, EndOf, Locations

\* The end of a tight range lies behind its start.
LEMMA TightEnd ==
    ASSUME NEW range \in CoalescedRanges, IsTight(range)
    PROVE  range.end >= range.start - 1
<1>1. range.slices[Len(range.slices)] \in Slices
    BY DEF IsTight, CoalescedRanges
<1> QED
    BY <1>1 DEF IsTight, CoalescedRanges, Slices

\* The components of an extended range.
LEMMA ExtendedFields ==
    ASSUME NEW curr \in CoalescedRanges, NEW loc \in Locations, loc.length # 0,
           IsTight(curr), Joins(curr, loc)
    PROVE  /\ Extended(curr, loc) \in CoalescedRanges
           /\ Extended(curr, loc).tile = curr.tile
           /\ Extended(curr, loc).start = curr.start
           /\ Extended(curr, loc).end = EndOf(loc)
           /\ EndOf(loc) \in Nat /\ EndOf(loc) > curr.end
           /\ Len(Extended(curr, loc).slices) = Len(curr.slices) + 1
           /\ \A s \in 1 .. Len(curr.slices) :
                 Extended(curr, loc).slices[s] = curr.slices[s]
           /\ Extended(curr, loc).slices[Len(curr.slices) + 1]
                 = [chunk |-> loc.chunk, start |-> loc.offset - curr.start, len |-> loc.length]
<1> DEFINE slice == [chunk |-> loc.chunk, start |-> loc.offset - curr.start, len |-> loc.length]
<1>1. /\ curr.start \in Nat /\ curr.end \in Nat /\ curr.tile \in Nat /\ curr.slices \in Seq(Slices)
      /\ loc.offset \in Nat /\ loc.length \in Nat /\ loc.chunk \in Nat
    BY DEF CoalescedRanges, Locations
<1>2. loc.offset - curr.start \in Nat
    BY <1>1, TightEnd DEF Joins
<1>3. slice \in Slices
    BY <1>1, <1>2 DEF Slices
<1>4. EndOf(loc) \in Nat /\ EndOf(loc) > curr.end
    <2>1. loc.offset > curr.end
        BY DEF Joins
    <2> QED
        BY <1>1, <2>1 DEF EndOf
<1>5. Extended(curr, loc) = [tile |-> curr.tile, start |-> curr.start, end |-> EndOf(loc),
                             slices |-> Append(curr.slices, slice)]
    BY DEF Extended
<1>6. Append(curr.slices, slice) \in Seq(Slices)
    BY <1>1, <1>3
<1>7. Extended(curr, loc) \in CoalescedRanges
    BY <1>1, <1>4, <1>5, <1>6 DEF CoalescedRanges
<1> HIDE DEF slice
<1>8. /\ Len(Append(curr.slices, slice)) = Len(curr.slices) + 1
      /\ \A s \in 1 .. Len(curr.slices) : Append(curr.slices, slice)[s] = curr.slices[s]
      /\ Append(curr.slices, slice)[Len(curr.slices) + 1] = slice
    BY <1>1, <1>3
<1> QED
    BY <1>4, <1>5, <1>7, <1>8 DEF slice

\* Extending keeps a range tight.
LEMMA ExtendedTight ==
    ASSUME NEW curr \in CoalescedRanges, NEW loc \in Locations, loc.length # 0,
           IsTight(curr), Joins(curr, loc)
    PROVE  IsTight(Extended(curr, loc))
<1> DEFINE e == Extended(curr, loc)
           n == Len(curr.slices)
<1> HIDE DEF e
<1>1. /\ curr.start \in Nat /\ curr.end \in Nat
      /\ loc.offset \in Nat /\ loc.length \in Nat /\ EndOf(loc) \in Nat
    BY ExtendedFields DEF CoalescedRanges, Locations
<1>2. curr.slices \in Seq(Slices) /\ n \in Nat
    BY DEF CoalescedRanges
<1>3. e.start = curr.start /\ e.end = EndOf(loc)
    BY ExtendedFields DEF e
<1>4. Len(e.slices) = n + 1 /\ \A s \in 1 .. n : e.slices[s] = curr.slices[s]
    BY ExtendedFields DEF e
<1>5. e.slices[n + 1].start = loc.offset - curr.start /\ e.slices[n + 1].len = loc.length
    <2>1. e.slices[n + 1] = [chunk |-> loc.chunk, start |-> loc.offset - curr.start,
                             len |-> loc.length]
        BY ExtendedFields DEF e
    <2> QED
        BY <2>1
<1>6. n > 0 /\ curr.slices[1].start = 0
    BY DEF IsTight
<1>7. curr.slices[n].start + curr.slices[n].len = curr.end - curr.start + 1
    BY DEF IsTight
<1>8. curr.slices[n].start \in Nat /\ curr.slices[n].len \in Nat
    <2>1. curr.slices[n] \in Slices
        BY <1>2, <1>6
    <2> QED
        BY <2>1 DEF Slices
<1> HIDE DEF n
<1>9. e.slices[1].start = 0
    <2>1. 1 \in 1 .. n
        BY <1>2, <1>6
    <2> QED
        BY <1>4, <1>6, <2>1
<1>10. e.slices[n + 1].start + e.slices[n + 1].len = e.end - e.start + 1
    BY <1>1, <1>3, <1>5 DEF EndOf
<1>11. loc.offset > curr.end /\ loc.offset - (curr.end + 1) <= MaxGap
    BY DEF Joins
<1>12. e.end - e.start + 1 <= MaxRange
    <2>1. (EndOf(loc) + 1) - curr.start <= MaxRange
        BY DEF Joins
    <2>2. e.end - e.start + 1 = (EndOf(loc) + 1) - curr.start
        BY <1>1, <1>3
    <2> QED
        BY <2>1, <2>2
<1>13. ASSUME NEW s \in 1 .. n
       PROVE  /\ 0 <= e.slices[s + 1].start - (e.slices[s].start + e.slices[s].len)
              /\ e.slices[s + 1].start - (e.slices[s].start + e.slices[s].len) <= MaxGap
    <2>1. CASE s = n
        <3>1. e.slices[s] = curr.slices[n]
            BY <1>4, <2>1
        <3>2. e.slices[s + 1].start = loc.offset - curr.start
            BY <1>5, <2>1
        <3>3. (loc.offset - curr.start) - (curr.end - curr.start + 1) = loc.offset - (curr.end + 1)
            BY <1>1
        <3>4. e.slices[s + 1].start - (e.slices[s].start + e.slices[s].len)
                 = loc.offset - (curr.end + 1)
            BY <1>7, <3>1, <3>2, <3>3
        <3>5. 0 <= loc.offset - (curr.end + 1)
            BY <1>1, <1>11
        <3> QED
            BY <1>11, <3>4, <3>5
    <2>2. CASE s < n
        <3>1. s \in 1 .. Len(curr.slices) - 1
            BY <1>2, <2>2 DEF n
        <3>2. e.slices[s] = curr.slices[s] /\ e.slices[s + 1] = curr.slices[s + 1]
            BY <1>2, <1>4, <2>2
        <3> QED
            BY <3>1, <3>2 DEF IsTight
    <2> QED
        BY <1>2, <2>1, <2>2
<1> QED
    <2>1. Len(e.slices) > 0 /\ Len(e.slices) - 1 = n
        BY <1>2, <1>4
    <2> QED
        BY <1>4, <1>9, <1>10, <1>12, <1>13, <2>1 DEF IsTight, e

-----------------------------------------------------------------------------
(* One turn of the loop, as it changes the ranges.                          *)

\* A slice stays its chunk when the loop has moved on.
LEMMA ChunkStays ==
    ASSUME next \in Nat, next' = next + 1, chunks' = chunks,
           NEW range, NEW slice, IsChunk(range, slice)
    PROVE  IsChunk(range, slice)'
<1>1. PICK j \in 1 .. next - 1 :
          /\ chunks[j].tile = range.tile
          /\ chunks[j].chunk = slice.chunk
          /\ chunks[j].offset = range.start + slice.start
          /\ chunks[j].length = slice.len
    BY DEF IsChunk
<1>2. j \in 1 .. next' - 1
    OBVIOUS
<1>3. slice.start + slice.len <= range.end - range.start + 1
    BY DEF IsChunk
<1> QED
    BY <1>1, <1>2, <1>3 DEF IsChunk

\* A good range stays good while the loop of coalesce_chunk_ranges moves on.
LEMMA GoodStays ==
    ASSUME next \in Nat, next' = next + 1, chunks' = chunks,
           NEW range, GoodRange(range)
    PROVE  GoodRange(range)'
    BY ChunkStays DEF GoodRange, IsTight

\* The chunk at the loop's position, once the loop has passed it.
LEMMA PassedChunk ==
    ASSUME CoalesceTypeOK, InLoop, next' = next + 1, chunks' = chunks
    PROVE  /\ chunks[next] \in Locations
           /\ next \in Nat /\ next \in 1 .. next' - 1
           /\ next' \in 1 .. Len(chunks') + 1
    BY DEF CoalesceTypeOK, InLoop

\* The range begun for the chunk at hand is good once the loop has passed it.
LEMMA GoodBegin ==
    ASSUME CoalesceTypeOK, InLoop, next' = next + 1, chunks' = chunks,
           NEW loc, loc = chunks[next], loc.length # 0
    PROVE  GoodRange(RangeFor(loc))'
<1> DEFINE range == RangeFor(loc)
<1>1. loc \in Locations /\ next \in 1 .. next' - 1
    BY PassedChunk
<1>2. IsTight(range)
    BY <1>1, RangeForTight
<1>3. /\ range.tile = loc.tile /\ range.start = loc.offset /\ range.end = EndOf(loc)
      /\ Len(range.slices) = 1
      /\ range.slices[1] = [chunk |-> loc.chunk, start |-> 0, len |-> loc.length]
    BY DEF RangeFor
<1>4. loc.offset \in Nat /\ loc.length \in Nat
    BY <1>1 DEF Locations
<1> HIDE DEF range
<1>5. /\ range.slices[1].chunk = loc.chunk
      /\ range.slices[1].start = 0 /\ range.slices[1].len = loc.length
    BY <1>3
<1>6. range.slices[1].start + range.slices[1].len <= range.end - range.start + 1
    BY <1>3, <1>4, <1>5 DEF EndOf
<1>7. loc.offset = range.start + range.slices[1].start
    BY <1>3, <1>4, <1>5
<1>8. chunks'[next].tile = range.tile /\ chunks'[next].chunk = range.slices[1].chunk
      /\ chunks'[next].offset = range.start + range.slices[1].start
      /\ chunks'[next].length = range.slices[1].len
    BY <1>3, <1>5, <1>7
<1>9. IsChunk(range, range.slices[1])'
    BY <1>1, <1>6, <1>8 DEF IsChunk, range
<1> QED
    BY <1>2, <1>3, <1>9 DEF GoodRange, range, IsTight

\* The range extended by the chunk at hand is good once the loop has passed it.
LEMMA GoodExtend ==
    ASSUME CoalesceTypeOK, InLoop, next' = next + 1, chunks' = chunks,
           NEW loc, loc = chunks[next], loc.length # 0,
           NEW curr \in CoalescedRanges, GoodRange(curr), Joins(curr, loc)
    PROVE  GoodRange(Extended(curr, loc))'
<1> DEFINE range == Extended(curr, loc)
           n == Len(curr.slices)
<1> HIDE DEF range
<1>1. loc \in Locations /\ next \in 1 .. next' - 1 /\ next \in Nat
    BY PassedChunk
<1>2. IsTight(curr)
    BY DEF GoodRange
<1>3. IsTight(range)
    BY <1>1, <1>2, ExtendedTight DEF range
<1>4. /\ range.tile = curr.tile /\ range.start = curr.start /\ range.end = EndOf(loc)
      /\ EndOf(loc) \in Nat /\ EndOf(loc) > curr.end
    BY <1>1, <1>2, ExtendedFields DEF range
<1>5. Len(range.slices) = n + 1 /\ \A s \in 1 .. n : range.slices[s] = curr.slices[s]
    BY <1>1, <1>2, ExtendedFields DEF range
<1>6. range.slices[n + 1] = [chunk |-> loc.chunk, start |-> loc.offset - curr.start,
                             len |-> loc.length]
    BY <1>1, <1>2, ExtendedFields DEF range
<1>7. /\ curr.start \in Nat /\ curr.end \in Nat /\ loc.offset \in Nat /\ loc.length \in Nat
    BY <1>1 DEF CoalescedRanges, Locations
<1>8. curr.slices \in Seq(Slices) /\ n \in Nat
    BY DEF CoalescedRanges
<1>9. ASSUME NEW s \in 1 .. n
      PROVE  IsChunk(range, range.slices[s])'
    <2>1. IsChunk(curr, curr.slices[s])'
        BY <1>1, ChunkStays DEF GoodRange
    <2>2. curr.slices[s].start \in Nat /\ curr.slices[s].len \in Nat
        <3>1. curr.slices[s] \in Slices
            BY <1>8
        <3> QED
            BY <3>1 DEF Slices
    <2>3. curr.slices[s].start + curr.slices[s].len <= curr.end - curr.start + 1
        BY <2>1 DEF IsChunk
    <2>4. curr.slices[s].start + curr.slices[s].len <= range.end - range.start + 1
        <3>1. curr.end - curr.start + 1 <= EndOf(loc) - curr.start + 1
            BY <1>4, <1>7
        <3> DEFINE a == curr.slices[s].start + curr.slices[s].len
                   b == curr.end - curr.start + 1
                   c == EndOf(loc) - curr.start + 1
        <3>2. a \in Int /\ b \in Int /\ c \in Int /\ a <= b /\ b <= c
            <4>1. a \in Int
                BY <2>2
            <4>2. b \in Int /\ c \in Int
                BY <1>4, <1>7
            <4> QED
                BY <2>3, <3>1, <4>1, <4>2
        <3> HIDE DEF a, b, c
        <3>3. a <= c
            BY <3>2
        <3> USE DEF a, c
        <3> QED
            BY <1>4, <3>3
    <2>5. range.slices[s] = curr.slices[s]
        BY <1>5
    <2> QED
        BY <1>4, <2>1, <2>4, <2>5 DEF IsChunk
<1>10. IsChunk(range, range.slices[n + 1])'
    <2>1. /\ range.slices[n + 1].chunk = loc.chunk
          /\ range.slices[n + 1].start = loc.offset - curr.start
          /\ range.slices[n + 1].len = loc.length
        BY <1>6
    <2>2. range.slices[n + 1].start + range.slices[n + 1].len <= range.end - range.start + 1
        BY <1>4, <1>7, <2>1 DEF EndOf
    <2>3. loc.offset = range.start + range.slices[n + 1].start
        BY <1>4, <1>7, <2>1
    <2>4. curr.tile = loc.tile
        BY DEF Joins
    <2> QED
        BY <1>1, <1>4, <2>1, <2>2, <2>3, <2>4 DEF IsChunk
<1> HIDE DEF n
<1>11. \A s \in 1 .. Len(range.slices) : IsChunk(range, range.slices[s])'
    <2> TAKE s \in 1 .. Len(range.slices)
    <2>1. s \in 1 .. n \/ s = n + 1
        BY <1>5, <1>8
    <2> QED
        BY <1>9, <1>10, <2>1
<1> QED
    BY <1>3, <1>11 DEF GoodRange, range, IsTight

-----------------------------------------------------------------------------
(* The loop keeps the invariant.                                            *)

\* Before the loop there is no range to speak of.
LEMMA InitGood == CoalesceInit => CoalesceInv
<1> SUFFICES ASSUME CoalesceInit PROVE CoalesceInv
    OBVIOUS
<1>1. chunks \in Seq(Locations) /\ next = 1 /\ done = FALSE
    BY CoalesceAssumption DEF CoalesceInit
<1>2. current = <<>> /\ ranges = <<>>
    BY DEF CoalesceInit
<1>3. next \in 1 .. Len(chunks) + 1
    BY <1>1
<1>4. Len(<<>>) = 0 /\ <<>> \in Seq(CoalescedRanges)
    OBVIOUS
<1>5. CoalesceTypeOK
    <2>1. current \in Seq(CoalescedRanges) /\ Len(current) <= 1 /\ ranges \in Seq(CoalescedRanges)
        BY <1>2, <1>4
    <2> QED
        BY <1>1, <1>3, <2>1 DEF CoalesceTypeOK
<1>6. GoodRanges
    BY <1>2, <1>4 DEF GoodRanges
<1> QED
    BY <1>5, <1>6 DEF CoalesceInv

\* The element the concatenation of the finished and the current range adds.
LEMMA WithCurrent ==
    ASSUME ranges \in Seq(CoalescedRanges), current \in Seq(CoalescedRanges),
           Len(current) <= 1
    PROVE  /\ Built \in Seq(CoalescedRanges)
           /\ Len(Built) = Len(ranges) + Len(current)
           /\ \A i \in 1 .. Len(Built) :
                 \/ i \in 1 .. Len(ranges) /\ Built[i] = ranges[i]
                 \/ current # <<>> /\ Built[i] = current[1]
    BY DEF Built

\* Every turn of the loop, and its end, keep the invariant.
LEMMA StepGood == CoalesceInv /\ [CoalesceNext]_coalesceVars => CoalesceInv'
<1> SUFFICES ASSUME CoalesceInv, [CoalesceNext]_coalesceVars
             PROVE  CoalesceInv'
    OBVIOUS
<1> USE DEF CoalesceInv
<1>1. CASE SkipEmpty
    <2>1. InLoop /\ next' = next + 1 /\ chunks' = chunks /\ UNCHANGED <<current, ranges, done>>
        BY <1>1 DEF SkipEmpty
    <2>2. CoalesceTypeOK'
        BY <2>1, PassedChunk DEF CoalesceTypeOK
    <2>3. GoodRanges'
        BY <2>1, PassedChunk, GoodStays DEF GoodRanges
    <2> QED
        BY <2>2, <2>3
<1>2. CASE Extend
    <2> DEFINE curr == current[1]
               loc == chunks[next]
    <2>1. /\ InLoop /\ next' = next + 1 /\ chunks' = chunks /\ UNCHANGED <<ranges, done>>
          /\ loc.length # 0 /\ current # <<>> /\ Joins(curr, loc)
          /\ current' = <<Extended(curr, loc)>>
        BY <1>2 DEF Extend
    <2>2. loc \in Locations /\ next \in Nat
        BY <2>1, PassedChunk
    <2>3. curr \in CoalescedRanges /\ GoodRange(curr)
        BY <2>1 DEF CoalesceTypeOK, GoodRanges
    <2>4. Extended(curr, loc) \in CoalescedRanges
        BY <2>1, <2>2, <2>3, ExtendedFields DEF GoodRange
    <2>5. PICK e : e = Extended(curr, loc) /\ GoodRange(e)'
        BY <2>1, <2>3, GoodExtend
    <2>6. CoalesceTypeOK'
        BY <2>1, <2>4, PassedChunk DEF CoalesceTypeOK
    <2>7. GoodRanges'
        <3>1. \A i \in 1 .. Len(ranges) : GoodRange(ranges[i])'
            BY <2>1, <2>2, GoodStays DEF GoodRanges
        <3>2. current' = <<e>>
            BY <2>1, <2>5
        <3> QED
            BY <2>1, <2>5, <3>1, <3>2 DEF GoodRanges
    <2> QED
        BY <2>6, <2>7
<1>3. CASE Begin
    <2> DEFINE loc == chunks[next]
    <2>1. /\ InLoop /\ next' = next + 1 /\ chunks' = chunks /\ UNCHANGED done
          /\ loc.length # 0
          /\ ranges' = Built /\ current' = <<RangeFor(loc)>>
        BY <1>3 DEF Begin, Built
    <2>2. loc \in Locations /\ next \in Nat
        BY <2>1, PassedChunk
    <2>3. RangeFor(loc) \in CoalescedRanges
        BY <2>1, <2>2, RangeForType
    <2>4. PICK r : r = RangeFor(loc) /\ GoodRange(r)'
        BY <2>1, GoodBegin
    <2>5. CoalesceTypeOK'
        BY <2>1, <2>3, PassedChunk, WithCurrent DEF CoalesceTypeOK
    <2>6. GoodRanges'
        <3>1. \A i \in 1 .. Len(Built) : GoodRange(Built[i])
            BY WithCurrent DEF CoalesceTypeOK, GoodRanges
        <3>2. ASSUME NEW i \in 1 .. Len(ranges')
              PROVE  GoodRange(ranges[i])'
            <4>1. PICK q : q = Built[i] /\ GoodRange(q)
                BY <2>1, <3>1, <3>2
            <4>2. GoodRange(q)'
                BY <2>1, <2>2, <4>1, GoodStays
            <4>3. ranges'[i] = q
                BY <2>1, <4>1
            <4> QED
                BY <4>2, <4>3 DEF GoodRange, IsTight, IsChunk
        <3>3. current' = <<r>>
            BY <2>1, <2>4
        <3> QED
            BY <2>4, <3>2, <3>3 DEF GoodRanges
    <2> QED
        BY <2>5, <2>6
<1>4. CASE FinishRanges
    <2>1. ranges' = Built /\ current' = <<>> /\ done' = TRUE /\ UNCHANGED <<chunks, next>>
        BY <1>4 DEF FinishRanges, Built
    <2>2. CoalesceTypeOK'
        BY <2>1, WithCurrent DEF CoalesceTypeOK
    <2>3. GoodRanges'
        <3>1. \A i \in 1 .. Len(Built) : GoodRange(Built[i])
            BY WithCurrent DEF CoalesceTypeOK, GoodRanges
        <3> QED
            BY <2>1, <3>1 DEF GoodRanges, GoodRange, IsTight, IsChunk
    <2> QED
        BY <2>2, <2>3
<1>5. CASE Returned
    BY <1>5 DEF Returned, coalesceVars, CoalesceTypeOK, GoodRanges, GoodRange, IsChunk, IsTight
<1>6. CASE UNCHANGED coalesceVars
    BY <1>6 DEF coalesceVars, CoalesceTypeOK, GoodRanges, GoodRange, IsChunk, IsTight
<1> QED
    BY <1>1, <1>2, <1>3, <1>4, <1>5, <1>6 DEF CoalesceNext

\* The invariant says of every range built what the properties say.
LEMMA InvImplies == CoalesceInv => CoalesceTypeOK /\ SlicesExact /\ RangesTight
    BY WithCurrent DEF CoalesceInv, CoalesceTypeOK, GoodRanges, GoodRange, SlicesExact, RangesTight

\* The invariant holds throughout coalesce_chunk_ranges.
LEMMA CoalesceInvariant == CoalesceSpec => []CoalesceInv
    BY InitGood, StepGood, PTL DEF CoalesceSpec

-----------------------------------------------------------------------------
(* Results.                                                                 *)

\* The loop of coalesce_chunk_ranges keeps its types for every list of chunks.
THEOREM CoalesceTypes == CoalesceSpec => []CoalesceTypeOK
    BY CoalesceInvariant, InvImplies, PTL

\* For every list of chunks and all limits, the slice a worker of the remote queue
\* cuts from a response is its chunk's bytes and lies inside the response.
THEOREM ResponseSlices == CoalesceSpec => []SlicesExact
    BY CoalesceInvariant, InvImplies, PTL

\* For every list of chunks and all limits, a request is tight, its gaps and its
\* length within max_gap_bytes and max_range_bytes.
THEOREM RequestLimits == CoalesceSpec => []RangesTight
    BY CoalesceInvariant, InvImplies, PTL

=============================================================================
