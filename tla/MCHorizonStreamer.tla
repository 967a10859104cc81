-------------------------- MODULE MCHorizonStreamer ---------------------------
(* The compacting scan for TLC: two resolutions, forced flushes and failures.     *)
(* MCStorage has two more instances.                                              *)
EXTENDS HorizonStreamer, TLC

\* Two resolutions.  Resolution 1: the siblings 1, 2 (parent 11) and 3, 4
\* (parent 12); resolution 2: cell 5, too coarse to be compacted.
TwoCells == 1 .. 5
TwoParent == (1 :> 11) @@ (2 :> 11) @@ (3 :> 12) @@ (4 :> 12) @@ (5 :> NoParent)
TwoSouth == (1 :> 7) @@ (2 :> 6) @@ (3 :> 5) @@ (4 :> 2) @@ (5 :> 3)
            @@ (11 :> 6) @@ (12 :> 3)
TwoRes == (1 :> 1) @@ (2 :> 1) @@ (3 :> 1) @@ (4 :> 1) @@ (5 :> 2)
\* The third chunk starts exactly at cell 3's southern edge.
TwoRasters == {[touch |-> <<{1, 2, 5}, {1, 3, 5}, {3, 4}, {4, 5}>>,
                north |-> <<9, 8, 5, 3>>],
               [touch |-> <<{1, 3, 5}, {2, 4}, {3, 5}, {}>>,
                north |-> <<100, 8, 5, 3>>],
               [touch |-> <<{1, 2, 5}, {1, 3, 5}, {3}, {5}>>,
                north |-> <<9, 8, 5, 3>>],
               [touch |-> <<{2, 3}, {1, 5}, {5}, {3}>>,
                north |-> <<100, 100, 100, 100>>]}

\* A projection without bounds: every record waits for the end of the raster.
UnboundedRasters == {r \in TwoRasters : \A k \in 1 .. 4 : r.north[k] = 100}

=============================================================================
