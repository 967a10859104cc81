------------------------------ MODULE ChunkStream -----------------------------
(* What a prefetcher promises its consumer: the chunks of the job list in order,  *)
(* each once, possibly with a decode error in a chunk's place; an end that comes  *)
(* only after the last chunk; or one fatal error that ends the stream early.      *)
EXTENDS Naturals, Sequences

CONSTANTS Total    \* number of chunks

VARIABLES
    out,      \* items delivered: [kind, job]
    state     \* "open", "eof", "failed" or "cancelled"

streamVars == <<out, state>>

Init == out = << >> /\ state = "open"

\* The next n items of the sequence, each a chunk or a decode error in its place.
Continuations(n) ==
    {[i \in 1 .. n |-> [kind |-> kinds[i], job |-> Len(out) + i - 1]] :
        kinds \in [1 .. n -> {"ok", "err"}]}

HasError(items) == \E i \in DOMAIN items : items[i].kind = "err"

\* The consumer gives up on a batch with an error.
Deliver(n) ==
    /\ state = "open"
    /\ Len(out) + n <= Total
    /\ \E items \in Continuations(n) :
          /\ out' = out \o items
          /\ state' = IF HasError(items) THEN "failed" ELSE "open"

\* The fatal error takes the place of everything that was still to come.
DeliverFatal ==
    /\ state = "open"
    /\ out' = Append(out, [kind |-> "fatal", job |-> Total])
    /\ state' = "failed"

End == state = "open" /\ Len(out) = Total /\ state' = "eof" /\ UNCHANGED out

\* The consumer goes away early.
Stop == state = "open" /\ state' = "cancelled" /\ UNCHANGED out

Next == (\E n \in 1 .. Total : Deliver(n)) \/ DeliverFatal \/ End \/ Stop

\* A stream that is read goes on until it ends.
Spec == Init /\ [][Next]_streamVars /\ WF_streamVars(Next)

=============================================================================
