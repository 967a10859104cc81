----------------------------- MODULE DecoderCache -----------------------------
(* The open tile decoders of one mosaic decode worker (raster/prefetch.rs).  The  *)
(* job list is known, so the worker evicts the decoder whose tile is needed       *)
(* furthest in the future; other workers take some of the jobs it counted on.     *)
EXTENDS Naturals, Sequences, FiniteSets, FiniteSetsExt

CONSTANTS
    JobLists,     \* the lists of tiles, one per job
    CacheSize     \* MAX_OPEN_DECODERS_PER_WORKER, at least one

VARIABLES
    tiles,      \* the job list
    entries,    \* [tile -> next use] of the open decoders
    job,        \* the next job number
    opens,      \* decoders opened so far
    mine,       \* jobs this worker has taken
    evicted     \* the last eviction: its job, tile and the tiles that were open

cacheVars == <<tiles, entries, job, opens, mine, evicted>>

Never == 1000
NoEviction == [at |-> 0, tile |-> 0, open |-> {}]

\* next_tile_uses: the next job of the same tile.
NextUse(j) == LET later == {k \in j + 1 .. Len(tiles) : tiles[k] = tiles[j]}
              IN  IF later = {} THEN Never ELSE Min(later)

\* Wrong: a prediction is kept although the job was taken by another worker.
AdvanceStale(use) == use

\* A predicted use that other workers have taken moves on to the one after it.
Advance(use) ==
    LET f[u \in Nat] == IF u <= job THEN f[NextUse(u)] ELSE u
    IN  f[use]

Init ==
    /\ tiles \in JobLists
    /\ entries = << >> /\ job = 1 /\ opens = 0 /\ mine = {} /\ evicted = NoEviction

With(cache, tile, use) ==
    [t \in DOMAIN cache \cup {tile} |-> IF t = tile THEN use ELSE cache[t]]

\* get_or_try_open of an open tile.
Hit ==
    /\ job <= Len(tiles) /\ tiles[job] \in DOMAIN entries
    /\ entries' = With(entries, tiles[job], NextUse(job))
    /\ UNCHANGED <<opens, evicted>>

\* A miss evicts before it opens; an open that fails leaves the room empty.
Miss ==
    /\ job <= Len(tiles) /\ tiles[job] \notin DOMAIN entries
    /\ IF Cardinality(DOMAIN entries) = CacheSize
         THEN LET fresh == [t \in DOMAIN entries |-> Advance(entries[t])]
              IN  \E victim \in DOMAIN entries :
                    /\ \A t \in DOMAIN entries : fresh[t] <= fresh[victim]
                    /\ evicted' = [at |-> job, tile |-> victim, open |-> DOMAIN entries]
                    /\ LET kept == [t \in DOMAIN entries \ {victim} |-> fresh[t]]
                       IN  \/ entries' = With(kept, tiles[job], NextUse(job)) /\ opens' = opens + 1
                           \/ entries' = kept /\ UNCHANGED opens
         ELSE /\ \/ entries' = With(entries, tiles[job], NextUse(job)) /\ opens' = opens + 1
                 \/ UNCHANGED <<entries, opens>>
              /\ UNCHANGED evicted

Takes == (Hit \/ Miss) /\ mine' = mine \cup {job} /\ job' = job + 1 /\ UNCHANGED tiles

\* Another worker takes the job.
OtherTakes == job <= Len(tiles) /\ job' = job + 1 /\ UNCHANGED <<tiles, entries, opens, mine, evicted>>

Next == Takes \/ OtherTakes

Spec == Init /\ [][Next]_cacheVars

-----------------------------------------------------------------------------
\* The next job of tile t after job j.
Needed(t, j) == LET later == {k \in j + 1 .. Len(tiles) : tiles[k] = t}
                IN  IF later = {} THEN Never ELSE Min(later)

\* The worker never has more decoders open than the cap, and what it closes is needed
\* no earlier than anything it keeps, although its predictions were made before other
\* workers took jobs.
EvictsFurthest ==
    /\ Cardinality(DOMAIN entries) <= CacheSize
    /\ \A t \in evicted.open : Needed(t, evicted.at) <= Needed(evicted.tile, evicted.at)

\* The fewest opens any policy needs for the jobs j .. Len(tiles) with the given tiles
\* open.
FewestOpens ==
    LET best[open \in SUBSET {tiles[k] : k \in DOMAIN tiles}, j \in 1 .. Len(tiles) + 1] ==
            IF j > Len(tiles) THEN 0
            ELSE IF tiles[j] \in open THEN best[open, j + 1]
            ELSE IF Cardinality(open) < CacheSize THEN 1 + best[open \cup {tiles[j]}, j + 1]
            ELSE 1 + Min({best[(open \ {v}) \cup {tiles[j]}, j + 1] : v \in open})
    IN  best[{}, 1]

\* A worker that takes every job opens as few decoders as any policy could.
OpensOptimal ==
    mine = 1 .. Len(tiles) => opens <= FewestOpens

=============================================================================
