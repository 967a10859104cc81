--------------------------- MODULE MCMosaicPrefetch ---------------------------
(* Prefetching for TLC.  Two instances of MosaicPrefetch over the same variables: *)
(* the streamer's reader with a binding budget, and a reader without one that     *)
(* asks for a minimum batch (the code never combines the two: a minimum batch     *)
(* larger than the budget could never fill).  And the remote queue the decode     *)
(* workers take their payloads from, with an instance small enough for liveness.  *)
EXTENDS MosaicPrefetch, TLC

CONSTANTS Clients, NoResponse, NoChunk

VARIABLES
    part,                                       \* "budget", "minimum" or "remote"
    q1, q2, q3, q4, q5, q6, q7, q8, q9,         \* the remote queue,
    q10, q11, q12, q13, q14, q15, q16, q17, q18 \* 0 in the other parts

remoteVars == <<q1, q2, q3, q4, q5, q6, q7, q8, q9, q10, q11, q12, q13, q14, q15,
                q16, q17, q18>>

-----------------------------------------------------------------------------
\* With a limit of 2: chunks that fit side by side, chunks above the limit, and
\* a smaller edge chunk whose buffer has to grow.
MixedNeed == (0 :> 1) @@ (1 :> 1) @@ (2 :> 3) @@ (3 :> 3)
MixedSize == (0 :> 1) @@ (1 :> 1) @@ (2 :> 2) @@ (3 :> 3)

\* A minimum batch larger than the ring.  The chunks are alike: their sizes matter
\* only where the budget binds.
UnitSizes == [job \in 0 .. TotalJobs - 1 |-> 1]
Minimum == INSTANCE MosaicPrefetch WITH
    Limit <- 100, MinBatch <- 3, MaxBatch <- 3, Need <- UnitSizes, Size <- UnitSizes

\* Two ranges that do not fit together; one response is shared by two chunks.
Remote == INSTANCE RemoteChunkQueue WITH
    FetchWorkers <- Workers, Clients <- Clients,
    ChunkSlices <- <<<<"ka", "kb">>, <<"kc">>>>, RangeBytes <- <<2, 2>>, MaxBytes <- 3,
    QueueCapacity <- 1, CanFail <- TRUE, CanBeShort <- FALSE,
    held <- q1, ready <- q2, remaining <- q3, jobs <- q4, requested <- q5, demanded <- q6,
    failed <- q7, shutdown <- q8, sleeping <- q9, worker <- q10, job <- q11, response <- q12,
    received <- q13, dropping <- q14, client <- q15, wanted <- q16, payload <- q17,
    uncovered <- q18

-----------------------------------------------------------------------------
NoRemote == /\ q1 = 0 /\ q2 = 0 /\ q3 = 0 /\ q4 = 0 /\ q5 = 0 /\ q6 = 0
            /\ q7 = 0 /\ q8 = 0 /\ q9 = 0 /\ q10 = 0 /\ q11 = 0 /\ q12 = 0
            /\ q13 = 0 /\ q14 = 0 /\ q15 = 0 /\ q16 = 0 /\ q17 = 0 /\ q18 = 0

MCInit == /\ Init
          /\ \/ part \in {"budget", "minimum"} /\ NoRemote
             \/ part = "remote" /\ Remote!Init

MCConsumer == \/ part = "budget" /\ Consumer
              \/ part = "minimum" /\ Minimum!Consumer

MCWorker(w) == \/ part = "budget" /\ Worker(w)
               \/ part = "minimum" /\ Minimum!Worker(w)

FetchStep(w) == part = "remote" /\ Remote!WorkerStep(w)

ClientStep(c) == part = "remote" /\ Remote!ClientStep(c)

LeaveClosed(c) == part = "remote" /\ q8 /\ Remote!Leave(c)

MCNext == \/ part # "remote" /\ UNCHANGED <<part, remoteVars>>
             /\ (MCConsumer \/ (\E w \in Workers : MCWorker(w)) \/ Finished)
          \/ part = "remote" /\ Remote!Next /\ UNCHANGED <<part, vars>>

\* The operating system schedules every thread that can run; a client of a cancelled
\* queue is dropped in the end.
MCSpec == /\ MCInit /\ [][MCNext]_<<part, vars, remoteVars>>
          /\ WF_vars(MCConsumer)
          /\ \A w \in Workers : WF_vars(MCWorker(w)) /\ WF_remoteVars(FetchStep(w))
          /\ \A c \in Clients : WF_remoteVars(ClientStep(c)) /\ SF_remoteVars(LeaveClosed(c))

\* The streamer's reader alone.
BudgetSpec == /\ part = "budget" /\ Init /\ NoRemote
              /\ [][Next /\ UNCHANGED <<part, remoteVars>>]_<<part, vars, remoteVars>>

-----------------------------------------------------------------------------
\* Every stream ends and its Drop joins every worker: nobody waits for ever for budget,
\* for ring space or for its turn, with any number of failing workers and however early
\* the consumer stops.
PrefetchEnds == <>(part # "remote" => cpc = "gone")

\* The clients are alike, so what holds for one holds for each.
SomeClient == CHOOSE c \in Clients : TRUE

Waits(c) == part = "remote" /\ q15[c] = "wait"

\* The queue has nothing more to do.
Over == part = "remote" /\ (q8 \/ q3 = {})

\* Every get_chunk_payload is answered although the ranges do not fit together and
\* nobody else asks; the last chunk, or a cancellation, ends every worker, and a
\* cancellation every client, so that Drop's joins return.
QueueServes ==
    /\ Waits(SomeClient) ~> ~Waits(SomeClient)
    /\ Over ~> Over /\ IF q8 THEN Remote!Ended ELSE \A w \in Workers : q10[w] = "exited"

=============================================================================
