-------------------------- MODULE MCRemoteChunkQueue --------------------------
(* RemoteChunkQueue for TLC; MCHosts has a smaller instance for liveness. *)
EXTENDS RemoteChunkQueue, TLC

CONSTANTS w1, w2, c1, c2, ka, kb, kc

\* A chunk planned twice (it belongs to the second range), a response shared by two
\* chunks, and a range larger than the budget.
TwiceSlices == <<<<ka>>, <<ka, kb>>, <<kc>>>>
TwiceBytes == <<1, 2, 4>>

Threads == Permutations({w1, w2}) \cup Permutations({c1, c2})

=============================================================================
