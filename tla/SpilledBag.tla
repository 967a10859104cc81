------------------------------ MODULE SpilledBag ------------------------------
(* What a resolution's spill storage promises the streamer: a bag of samples per  *)
(* cell.  Batches of cells are added in any number and any grouping; after the    *)
(* storage is finished every cell comes back once, in ascending order, with all   *)
(* the samples that were added for it.  A failure is final and loses everything.  *)
EXTENDS Naturals, Sequences

CONSTANT Keys      \* cell indexes, in their numerical order

VARIABLES
    bag,     \* [Keys -> Nat]: samples stored and not yet returned
    phase,   \* "filling", "reading", "ended" or "failed"
    out      \* what has been returned, in order

bagVars == <<bag, phase, out>>

Empty == [k \in Keys |-> 0]

Least(k) == bag[k] > 0 /\ \A j \in Keys : bag[j] > 0 => k <= j

Init == bag = Empty /\ phase = "filling" /\ out = << >>

Add(batch) ==
    /\ phase = "filling"
    /\ bag' = [k \in Keys |-> bag[k] + batch[k]]
    /\ UNCHANGED <<phase, out>>

Finish == phase = "filling" /\ phase' = "reading" /\ UNCHANGED <<bag, out>>

Return(k) ==
    /\ phase = "reading"
    /\ Least(k)
    /\ out' = Append(out, [key |-> k, n |-> bag[k]])
    /\ bag' = [bag EXCEPT ![k] = 0]
    /\ UNCHANGED phase

End == phase = "reading" /\ bag = Empty /\ phase' = "ended" /\ UNCHANGED <<bag, out>>

Fail ==
    /\ phase \in {"filling", "reading"}
    /\ phase' = "failed"
    /\ bag' = Empty
    /\ UNCHANGED out

Next ==
    \/ \E batch \in [Keys -> 0 .. 2] : Add(batch)
    \/ Finish
    \/ \E k \in Keys : Return(k)
    \/ End
    \/ Fail

Spec == Init /\ [][Next]_bagVars

=============================================================================
