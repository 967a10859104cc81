--------------------------- MODULE RemoteChunkQueue ---------------------------
(***************************************************************************)
(* RemoteChunkPrefetchQueue of raster/remote_prefetch.rs.  Fetch workers   *)
(* download coalesced byte ranges, ahead of need or on demand; clients     *)
(* (the decode workers of raster/prefetch.rs) take single chunks.  A       *)
(* response is charged to the byte budget from before its request until    *)
(* the last chunk sliced from it is dropped, wherever that chunk is.       *)
(*                                                                         *)
(* One mutex guards the whole state and one condition variable serves      *)
(* workers and clients, so a critical section is one step and a            *)
(* notification empties `sleeping'.  Every notification of the code        *)
(* follows its state change at once and is part of the same step, except   *)
(* after a download, where chunks are dropped in between.                  *)
(***************************************************************************)
EXTENDS Integers, Sequences, FiniteSets, FiniteSetsExt

CONSTANTS FetchWorkers,
          Clients,
          ChunkSlices,     \* chunk_slices: the chunks each range carries
          RangeBytes,           \* range_bytes of each range
          MaxBytes,        \* max_buffered_bytes
          QueueCapacity,   \* queue_capacity
          CanFail,         \* a download may fail or panic
          CanBeShort,      \* a transport may return fewer bytes than asked for
          NoResponse,
          NoChunk

Ranges == 1 .. Len(ChunkSlices)

SlicesOf(r) == {ChunkSlices[r][i] : i \in DOMAIN ChunkSlices[r]}

Scheduled == UNION {SlicesOf(r) : r \in Ranges}

\* scheduled_chunks: a chunk planned twice belongs to the later range.
RangeOf(k) == Max({r \in Ranges : k \in SlicesOf(r)})

\* A response is named by its range and a number that sets it apart from the
\* responses of the same range still alive.
Responses == Ranges \X (Nat \ {0})

ASSUME RemoteQueueAssumption ==
    /\ Len(ChunkSlices) \in Nat \ {0}
    /\ \A r \in Ranges : ChunkSlices[r] \in Seq(SlicesOf(r)) \ {<<>>}
    /\ RangeBytes \in [Ranges -> Nat \ {0}]
    /\ MaxBytes \in Nat
    /\ QueueCapacity \in Nat \ {0}
    /\ CanFail \in BOOLEAN
    /\ CanBeShort \in BOOLEAN
    /\ FetchWorkers \cap Clients = {}
    /\ NoChunk \notin Scheduled
    /\ NoResponse \notin Responses

VARIABLES held,        \* held_bytes
          ready,       \* downloaded chunks not taken: chunk -> its response
          remaining,   \* chunks nobody has taken
          jobs,        \* JobState of each range
          requested,   \* clients inside get_chunk_payload, by range
          demanded,    \* ranges clients wait for, oldest first
          failed,      \* the error slot is filled
          shutdown,
          sleeping,    \* threads asleep on the condition variable
          worker,      \* where each fetch worker is
          job,         \* the range it is downloading, 0 when none
          response,    \* the response it owns, as request or as buffer
          received,    \* slices the response covers
          dropping,    \* responses it still has to drop a share of
          client,      \* where each client is
          wanted,      \* the chunk it asked for
          payload,     \* the response its chunk is a slice of
          uncovered    \* history: chunks a short response did not cover

queueVars == <<held, ready, remaining, jobs, requested, demanded, failed, shutdown>>
workerVars == <<worker, job, response, received, dropping, uncovered>>
clientVars == <<client, wanted, payload>>
vars == <<queueVars, workerVars, clientVars, sleeping>>

Init ==
    /\ held = 0
    /\ ready = <<>>
    /\ remaining = Scheduled
    /\ jobs = [r \in Ranges |-> "Pending"]
    /\ requested = [r \in Ranges |-> 0]
    /\ demanded = <<>>
    /\ failed = FALSE
    /\ shutdown = FALSE
    /\ sleeping = {}
    /\ worker = [w \in FetchWorkers |-> "claim"]
    /\ job = [w \in FetchWorkers |-> 0]
    /\ response = [w \in FetchWorkers |-> NoResponse]
    /\ received = [w \in FetchWorkers |-> 0]
    /\ dropping = [w \in FetchWorkers |-> {}]
    /\ client = [c \in Clients |-> "idle"]
    /\ wanted = [c \in Clients |-> NoChunk]
    /\ payload = [c \in Clients |-> NoResponse]
    /\ uncovered = {}

-----------------------------------------------------------------------------
(* Response buffers: an Arc shared by the chunks sliced from it.            *)

\* The responses somebody holds a reference to.
Alive == ({response[w] : w \in FetchWorkers} \cup {payload[c] : c \in Clients}
            \cup {ready[k] : k \in DOMAIN ready}
            \cup UNION {dropping[w] : w \in FetchWorkers}) \ {NoResponse}

NewResponse(r) ==
    <<r, CHOOSE n \in 1 .. Cardinality(Alive) + 1 : <<r, n>> \notin Alive>>

\* u64::saturating_sub
Minus(a, b) == IF a >= b THEN a - b ELSE 0

\* Wrong: the bytes come back with the first share that is dropped.
DropShareEarly(p) ==
    /\ held' = Minus(held, RangeBytes[p[1]])
    /\ sleeping' = {}

\* Drop of a share of p: the last one releases the charge and notifies.
DropShare(p) ==
    /\ held' = IF p \in Alive' THEN held ELSE Minus(held, RangeBytes[p[1]])
    /\ sleeping' = IF p \in Alive' THEN sleeping ELSE {}

-----------------------------------------------------------------------------
(* The claim loop of a fetch worker.                                        *)

PendingRanges == {r \in Ranges : jobs[r] = "Pending"}

HasCandidate == demanded # <<>> \/ PendingRanges # {}

\* A demanded range, or else next_job: the first range nobody has claimed.
Candidate == IF demanded # <<>> THEN Head(demanded) ELSE Min(PendingRanges)

Fits(r) ==
    \/ held = 0
    \/ /\ RangeBytes[r] <= Minus(MaxBytes, held)
       /\ Cardinality(DOMAIN ready) < QueueCapacity

InClaim(w) == worker[w] = "claim" /\ w \notin sleeping

MustExit == shutdown \/ remaining = {}

Exit(w) ==
    /\ InClaim(w)
    /\ MustExit
    /\ worker' = [worker EXCEPT ![w] = "exited"]
    /\ UNCHANGED <<queueVars, clientVars, sleeping, job, response, received,
                   dropping, uncovered>>

Claim(w) ==
    /\ InClaim(w)
    /\ ~MustExit
    /\ HasCandidate
    /\ Fits(Candidate)
    /\ demanded' = IF demanded = <<>> THEN demanded ELSE Tail(demanded)
    /\ jobs' = [jobs EXCEPT ![Candidate] = "InFlight"]
    /\ held' = held + RangeBytes[Candidate]
    /\ worker' = [worker EXCEPT ![w] = "fetch"]
    /\ job' = [job EXCEPT ![w] = Candidate]
    /\ response' = [response EXCEPT ![w] = NewResponse(Candidate)]
    /\ UNCHANGED <<ready, remaining, requested, failed, shutdown, sleeping,
                   received, dropping, uncovered, clientVars>>

\* Wrong: whatever is ready may be evicted.
VictimsAll == DOMAIN ready

\* The chunks a demand may push out: those of ranges nobody is asking for.
Victims == {k \in DOMAIN ready : requested[RangeOf(k)] = 0}

\* Wrong: the range still looks downloaded.
EvictedFinished == {}

EvictedRanges == {RangeOf(k) : k \in Victims}

Evict(w) ==
    /\ InClaim(w)
    /\ ~MustExit
    /\ demanded # <<>>
    /\ ~Fits(Candidate)
    /\ Victims # {}
    /\ ready' = [k \in DOMAIN ready \ Victims |-> ready[k]]
    /\ jobs' = [r \in Ranges |-> IF r \in EvictedRanges THEN "Evicted" ELSE jobs[r]]
    /\ dropping' = [dropping EXCEPT ![w] = {ready[k] : k \in Victims}]
    /\ worker' = [worker EXCEPT ![w] = "evict"]
    /\ UNCHANGED <<held, remaining, requested, demanded, failed, shutdown,
                   sleeping, job, response, received, uncovered, clientVars>>

\* The evicted chunks are dropped without the lock, then the loop goes on.
DropEvicted(w) ==
    /\ worker[w] = "evict"
    /\ \E p \in dropping[w] :
          /\ dropping' = [dropping EXCEPT ![w] = @ \ {p}]
          /\ worker' = [worker EXCEPT ![w] = IF dropping[w] = {p} THEN "claim" ELSE "evict"]
          /\ UNCHANGED <<ready, remaining, jobs, requested, demanded, failed,
                         shutdown, job, response, received, uncovered, clientVars>>
          /\ DropShare(p)

\* Nothing to fetch, or no room and nothing to evict for it.
Sleep(w) ==
    /\ InClaim(w)
    /\ ~MustExit
    /\ HasCandidate => ~Fits(Candidate) /\ (demanded = <<>> \/ Victims = {})
    /\ sleeping' = sleeping \cup {w}
    /\ UNCHANGED <<queueVars, workerVars, clientVars>>

-----------------------------------------------------------------------------
(* A download: fetch_range, then the chunks are stored, or the error is.    *)

\* The response arrives and is sliced.  A response too short for any slice is
\* dropped here, before the lock is taken.
Receive(w) ==
    /\ worker[w] = "fetch"
    /\ \E n \in (IF CanBeShort THEN 0 ELSE Len(ChunkSlices[job[w]])) .. Len(ChunkSlices[job[w]]) :
          /\ received' = [received EXCEPT ![w] = n]
          /\ uncovered' = uncovered \cup {ChunkSlices[job[w]][i] : i \in n + 1 .. Len(ChunkSlices[job[w]])}
          /\ worker' = [worker EXCEPT ![w] = "store"]
          /\ UNCHANGED <<ready, remaining, jobs, requested, demanded, failed,
                         shutdown, job, dropping, clientVars>>
          /\ IF n > 0
             THEN UNCHANGED <<response, held, sleeping>>
             ELSE /\ response' = [response EXCEPT ![w] = NoResponse]
                  /\ DropShare(response[w])

Sliced(w) == {ChunkSlices[job[w]][i] : i \in 1 .. received[w]}

\* Slices still wanted; the others go to `unused'.
Stored(w) ==
    {k \in Sliced(w) : RangeOf(k) = job[w] /\ k \in remaining /\ k \notin DOMAIN ready}

Store(w) ==
    /\ worker[w] = "store"
    /\ ready' = [k \in DOMAIN ready \cup Stored(w) |->
                    IF k \in Stored(w) THEN response[w] ELSE ready[k]]
    /\ jobs' = [jobs EXCEPT ![job[w]] = "Finished"]
    /\ dropping' = [dropping EXCEPT ![w] =
                       IF Stored(w) = Sliced(w) THEN {} ELSE {response[w]}]
    /\ response' = [response EXCEPT ![w] = NoResponse]
    /\ worker' = [worker EXCEPT ![w] = "unused"]
    /\ UNCHANGED <<held, remaining, requested, demanded, failed, shutdown,
                   sleeping, job, received, uncovered, clientVars>>

DropUnused(w) ==
    /\ worker[w] = "unused"
    /\ \E p \in dropping[w] :
          /\ dropping' = [dropping EXCEPT ![w] = @ \ {p}]
          /\ UNCHANGED <<ready, remaining, jobs, requested, demanded, failed,
                         shutdown, worker, job, response, received, uncovered, clientVars>>
          /\ DropShare(p)

\* Wrong: nobody hears of the new chunks.
AnnounceSilently(w) ==
    /\ worker[w] = "unused"
    /\ dropping[w] = {}
    /\ worker' = [worker EXCEPT ![w] = "claim"]
    /\ job' = [job EXCEPT ![w] = 0]
    /\ received' = [received EXCEPT ![w] = 0]
    /\ UNCHANGED <<queueVars, clientVars, response, dropping, uncovered, sleeping>>

\* notify_all, then the next claim.
Announce(w) ==
    /\ worker[w] = "unused"
    /\ dropping[w] = {}
    /\ worker' = [worker EXCEPT ![w] = "claim"]
    /\ job' = [job EXCEPT ![w] = 0]
    /\ received' = [received EXCEPT ![w] = 0]
    /\ sleeping' = {}
    /\ UNCHANGED <<queueVars, clientVars, response, dropping, uncovered>>

\* The request fails for good, or the worker panics: its charge is released.
FetchFails(w) ==
    /\ CanFail
    /\ worker[w] = "fetch"
    /\ worker' = [worker EXCEPT ![w] = "failing"]
    /\ response' = [response EXCEPT ![w] = NoResponse]
    /\ UNCHANGED <<ready, remaining, jobs, requested, demanded, failed, shutdown,
                   job, received, dropping, uncovered, clientVars>>
    /\ DropShare(response[w])

\* publish_error, and the worker ends; its range stays in flight.
PublishError(w) ==
    /\ worker[w] = "failing"
    /\ failed' = TRUE
    /\ worker' = [worker EXCEPT ![w] = "exited"]
    /\ job' = [job EXCEPT ![w] = 0]
    /\ sleeping' = {}
    /\ UNCHANGED <<held, ready, remaining, jobs, requested, demanded, shutdown,
                   response, received, dropping, uncovered, clientVars>>

-----------------------------------------------------------------------------
(* get_chunk_payload and try_get_chunk_payload.                             *)

\* The tests of get_chunk_payload's loop, in their order.
Verdict(k) ==
    IF k \in DOMAIN ready THEN "chunk"
    ELSE IF k \notin remaining THEN "none"
    ELSE IF failed THEN "error"
    ELSE IF shutdown \/ jobs[RangeOf(k)] = "Finished" THEN "none"
    ELSE "wait"

IsNewDemand(k) ==
    /\ k \in remaining
    /\ jobs[RangeOf(k)] \in {"Pending", "Evicted"}
    /\ \A i \in DOMAIN demanded : demanded[i] # RangeOf(k)

\* The loop ends with this verdict; a chunk leaves the queue with its client.
Answer(c, k, verdict) ==
    /\ verdict # "wait"
    /\ client' = [client EXCEPT ![c] = verdict]
    /\ IF verdict = "chunk"
       THEN /\ ready' = [j \in DOMAIN ready \ {k} |-> ready[j]]
            /\ remaining' = remaining \ {k}
            /\ payload' = [payload EXCEPT ![c] = ready[k]]
       ELSE UNCHANGED <<ready, remaining, payload>>

\* get_chunk_payload up to its first wait or its answer.
Request(c) ==
    /\ client[c] = "idle"
    /\ \E k \in Scheduled :
          /\ wanted' = [wanted EXCEPT ![c] = k]
          /\ demanded' = IF IsNewDemand(k) THEN Append(demanded, RangeOf(k)) ELSE demanded
          /\ \/ /\ Answer(c, k, Verdict(k))
                /\ sleeping' = {}
                /\ UNCHANGED requested
             \/ /\ Verdict(k) = "wait"
                /\ client' = [client EXCEPT ![c] = "wait"]
                /\ requested' = [requested EXCEPT ![RangeOf(k)] = @ + 1]
                /\ sleeping' = (IF IsNewDemand(k) THEN {} ELSE sleeping) \cup {c}
                /\ UNCHANGED <<ready, remaining, payload>>
    /\ UNCHANGED <<held, jobs, failed, shutdown, workerVars>>

\* A woken client finds an answer ...
Answered(c) ==
    /\ client[c] = "wait"
    /\ c \notin sleeping
    /\ Answer(c, wanted[c], Verdict(wanted[c]))
    /\ requested' = [requested EXCEPT ![RangeOf(wanted[c])] = @ - 1]
    /\ sleeping' = {}
    /\ UNCHANGED <<held, jobs, demanded, failed, shutdown, wanted, workerVars>>

\* ... or sleeps again.
WaitsOn(c) ==
    /\ client[c] = "wait"
    /\ c \notin sleeping
    /\ Verdict(wanted[c]) = "wait"
    /\ sleeping' = sleeping \cup {c}
    /\ UNCHANGED <<queueVars, workerVars, clientVars>>

\* try_get_chunk_payload; a miss is only a notification.
TryGet(c) ==
    /\ client[c] = "idle"
    /\ \/ \E k \in DOMAIN ready :
             /\ wanted' = [wanted EXCEPT ![c] = k]
             /\ Answer(c, k, "chunk")
       \/ UNCHANGED <<ready, remaining, clientVars>>
    /\ sleeping' = {}
    /\ UNCHANGED <<held, jobs, requested, demanded, failed, shutdown, workerVars>>

\* The client decodes its chunk, drops it and is free to ask again.
Finish(c) ==
    /\ client[c] \in {"chunk", "none", "error"}
    /\ client' = [client EXCEPT ![c] = "idle"]
    /\ wanted' = [wanted EXCEPT ![c] = NoChunk]
    /\ payload' = [payload EXCEPT ![c] = NoResponse]
    /\ UNCHANGED <<ready, remaining, jobs, requested, demanded, failed, shutdown, workerVars>>
    /\ IF client[c] = "chunk" THEN DropShare(payload[c]) ELSE UNCHANGED <<held, sleeping>>

\* A decode worker ends: no chunk left for it, or the reader is dropped.
Leave(c) ==
    /\ client[c] = "idle"
    /\ client' = [client EXCEPT ![c] = "left"]
    /\ UNCHANGED <<queueVars, workerVars, wanted, payload, sleeping>>

\* The reader is dropped; a second cancel changes nothing.
Cancel ==
    /\ ~shutdown
    /\ shutdown' = TRUE
    /\ sleeping' = {}
    /\ UNCHANGED <<held, ready, remaining, jobs, requested, demanded, failed,
                   workerVars, clientVars>>

-----------------------------------------------------------------------------
WorkerStep(w) ==
    \/ Exit(w) \/ Claim(w) \/ Evict(w) \/ DropEvicted(w) \/ Sleep(w)
    \/ Receive(w) \/ Store(w) \/ DropUnused(w) \/ Announce(w)
    \/ FetchFails(w) \/ PublishError(w)

\* What a client does once it has called the queue.
ClientStep(c) == Answered(c) \/ WaitsOn(c) \/ Finish(c)

Ended ==
    /\ \A w \in FetchWorkers : worker[w] = "exited"
    /\ \A c \in Clients : client[c] = "left"

\* The queue itself can be dropped: everything it joins has ended.
Dropped == Ended /\ UNCHANGED vars

Next ==
    \/ \E w \in FetchWorkers : WorkerStep(w)
    \/ \E c \in Clients : ClientStep(c) \/ Request(c) \/ TryGet(c) \/ Leave(c)
    \/ Cancel
    \/ Dropped

\* Threads run, a download ends (bounded retries, time-outs), a client decodes
\* and drops what it took, and a decode worker that meets the cancellation at
\* every turn of its loop leaves.  Nobody has to ask or to cancel.
Fairness ==
    /\ \A w \in FetchWorkers : WF_vars(WorkerStep(w))
    /\ \A c \in Clients : WF_vars(ClientStep(c)) /\ SF_vars(shutdown /\ Leave(c))

Spec == Init /\ [][Next]_vars /\ Fairness

-----------------------------------------------------------------------------
(* Properties.                                                              *)

\* Every variable keeps its type, and the queue names each range once.
TypeOK ==
    /\ held \in Nat
    /\ ready \in [DOMAIN ready -> Responses] /\ DOMAIN ready \subseteq remaining
    /\ remaining \subseteq Scheduled
    /\ jobs \in [Ranges -> {"Pending", "InFlight", "Finished", "Evicted"}]
    /\ requested \in [Ranges -> Nat]
    /\ demanded \in Seq(Ranges)
    /\ failed \in BOOLEAN /\ shutdown \in BOOLEAN
    /\ sleeping \subseteq FetchWorkers \cup Clients
    /\ worker \in [FetchWorkers -> {"claim", "evict", "fetch", "store", "unused",
                                    "failing", "exited"}]
    /\ job \in [FetchWorkers -> Ranges \cup {0}]
    /\ response \in [FetchWorkers -> Responses \cup {NoResponse}]
    /\ received \in [FetchWorkers -> Nat]
    /\ dropping \in [FetchWorkers -> SUBSET Responses]
    /\ client \in [Clients -> {"idle", "wait", "chunk", "none", "error", "left"}]
    /\ wanted \in [Clients -> Scheduled \cup {NoChunk}]
    /\ payload \in [Clients -> Responses \cup {NoResponse}]
    /\ uncovered \subseteq Scheduled

\* The bytes of some responses.
Bytes(responses) == UNION {{p} \X (1 .. RangeBytes[p[1]]) : p \in responses}

\* held_bytes is exactly "requests in flight plus fetched responses still
\* referenced by untaken chunks or by callers": whoever drops the last share of
\* a response, a client, an evicting worker or the worker that found its slices
\* unwanted, gives back its bytes, once.
HeldBalanced == held = Cardinality(Bytes(Alive))

\* "A single range larger than this is still fetched, but only when nothing else
\* is held": the budget bounds the bytes held, except for one response alone.
HeldBound == held <= MaxBytes \/ Cardinality(Alive) = 1

\* However demands, speculation and evictions cross, no range is downloaded by
\* two workers at the same time, and none is demanded twice.
OneFetcher ==
    /\ \A v, w \in FetchWorkers :
          v # w /\ worker[v] \in {"fetch", "store"} /\ worker[w] \in {"fetch", "store"}
              => job[v] # job[w]
    /\ \A i, j \in DOMAIN demanded : i # j => demanded[i] # demanded[j]

\* Ok(None) makes the client read the chunk itself.  It only hears it when the
\* chunk was taken before, the queue was cancelled, or no response covered it;
\* never because the response was evicted while it slept.
HonestNone ==
    \A c \in Clients : client[c] = "none" =>
        wanted[c] \notin remaining \/ shutdown \/ wanted[c] \in uncovered

\* A chunk is handed to at most one client: what is taken is never ready again.
TakenOnce ==
    \A c, d \in Clients :
        c # d /\ client[c] = "chunk" /\ client[d] = "chunk" => wanted[c] # wanted[d]

\* A chunk that is ready and waited for stays until a client takes it, whatever
\* other demands need room.
WaitedForStays ==
    [][\A k \in DOMAIN ready :
          (\E c \in Clients : client[c] = "wait" /\ wanted[c] = k) /\ k \notin DOMAIN ready'
              => k \notin remaining']_vars

\* Every call of get_chunk_payload returns, although nobody else asks, cancels or
\* takes the chunks that fill the budget.
RequestsAnswered == \A c \in Clients : client[c] = "wait" ~> client[c] # "wait"

\* When every chunk is taken, or the queue is cancelled, the fetch workers end,
\* those asleep for lack of room too; after a cancellation the clients also do,
\* so that Drop's joins return.
QueueEnds ==
    /\ (shutdown \/ remaining = {}) ~> \A w \in FetchWorkers : worker[w] = "exited"
    /\ shutdown ~> Ended

\* The memory account and the ownership of ranges survive every crossing of demands,
\* speculation, evictions and last shares dropped outside the lock.
HeldSound == HeldBalanced /\ HeldBound /\ OneFetcher

\* What a client is told is true: no chunk twice, no false "not prefetched".
HonestAnswers == HonestNone /\ TakenOnce

\* The transport's contract: "Returning fewer bytes is treated as an error by the
\* caller."
ShortIsError ==
    \A c \in Clients : client[c] = "none" =>
        wanted[c] \notin remaining \/ shutdown

=============================================================================
