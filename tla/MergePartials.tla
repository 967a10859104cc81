----------------------------- MODULE MergePartials -----------------------------
(***************************************************************************)
(* The aggregates h3_merge_partials and h3_merge_categorical_partials of   *)
(* partition_functions.rs: each group's state is one pointer, null or a    *)
(* box the extension owns.  DuckDB decides which thread updates which      *)
(* group, when thread-local states are combined into the final ones, and   *)
(* when each array of states is destroyed, after an error too.             *)
(*                                                                         *)
(* A row is a partial state (or NULL, or bytes that do not decode) of one  *)
(* group; a box holds the bag of the rows merged into it.                  *)
(***************************************************************************)
EXTENDS Integers, Sequences, FiniteSets, Bags

CONSTANTS
  Inputs,   \* partial_state columns: sets of rows, each with a group and a kind
  Groups,   \* the groups of the query
  Updaters, \* threads with an array of states each
  Final,    \* owner of the array the threads are combined into
  Null

\* What an instance has to satisfy: a query has a thread, and its rows have a group.
MergeAssumption ==
  /\ Final \notin Updaters /\ Updaters # {} /\ Null \notin Nat
  /\ \A rows \in Inputs : \A row \in rows :
       row.group \in Groups /\ row.kind \in {"state", "null", "bad"}

Owners == Updaters \cup {Final}

VARIABLES
  input,     \* the rows of the query
  pending,   \* rows not aggregated yet
  slot,      \* the state of each owner and group: a box or Null
  box,       \* contents of every box ever made
  dropped,   \* boxes freed, with how often
  array,     \* "live", "combined" or "destroyed", for each owner
  result,    \* the finalized rows, or Null
  failed     \* whether a callback reported an error

mergeVars == <<input, pending, slot, box, dropped, array, result, failed>>

MergeInit ==
  /\ input \in Inputs /\ pending = input
  /\ slot = [o \in Owners |-> [g \in Groups |-> Null]]
  /\ box = <<>> /\ dropped = EmptyBag
  /\ array = [o \in Owners |-> "live"]
  /\ result = Null /\ failed = FALSE

Drop(boxes) == dropped' = dropped (+) SetToBag(boxes)

NewBox == Len(box) + 1

\* One row of state_update: NULL is skipped, the first state of a group is
\* boxed, a later one merged into the box.
UpdateRow(t, row) ==
  /\ row \in pending /\ array[t] = "live" /\ ~failed /\ row.kind # "bad"
  /\ pending' = pending \ {row}
  /\ LET old == slot[t][row.group]
     IN  CASE row.kind = "null" -> UNCHANGED <<slot, box>>
           [] row.kind = "state" /\ old = Null ->
                /\ box' = Append(box, SetToBag({row}))
                /\ slot' = [slot EXCEPT ![t][row.group] = NewBox]
           [] row.kind = "state" /\ old # Null ->
                /\ box' = [box EXCEPT ![old] = @ (+) SetToBag({row})]
                /\ UNCHANGED slot
  /\ UNCHANGED <<input, dropped, array, result, failed>>

\* Bytes that do not decode end the call and the query; the rest of the chunk
\* is not looked at.
UpdateFails(t, row) ==
  /\ row \in pending /\ array[t] = "live" /\ ~failed /\ row.kind = "bad"
  /\ failed' = TRUE
  /\ UNCHANGED <<input, pending, slot, box, dropped, array, result>>

\* Wrong: the source keeps its pointers.
CombineKeeps(t) ==
  /\ array[t] = "live" /\ array[Final] = "live" /\ ~failed
  /\ pending = {} \/ \E u \in Updaters \ {t} : array[u] = "live"
  /\ slot' = [slot EXCEPT ![Final] = [g \in Groups |-> IF slot[Final][g] = Null
                                                         THEN slot[t][g] ELSE slot[Final][g]]]
  /\ array' = [array EXCEPT ![t] = "combined"]
  /\ UNCHANGED <<input, pending, box, dropped, result, failed>>

\* state_combine: each source pointer is taken out of its slot, then moved into
\* an empty target or merged and freed.
Combine(t) ==
  LET merged == {g \in Groups : slot[t][g] # Null /\ slot[Final][g] # Null}
  IN  /\ array[t] = "live" /\ array[Final] = "live" /\ ~failed
      /\ pending = {} \/ \E u \in Updaters \ {t} : array[u] = "live"
      /\ box' = [b \in DOMAIN box |->
                   IF \E g \in merged : slot[Final][g] = b
                     THEN box[b] (+) box[slot[t][CHOOSE g \in merged : slot[Final][g] = b]]
                     ELSE box[b]]
      /\ Drop({slot[t][g] : g \in merged})
      /\ slot' = [slot EXCEPT ![t] = [g \in Groups |-> Null],
                              ![Final] = [g \in Groups |-> IF slot[Final][g] = Null
                                                             THEN slot[t][g] ELSE slot[Final][g]]]
      /\ array' = [array EXCEPT ![t] = "combined"]
      /\ UNCHANGED <<input, pending, result, failed>>

\* state_finalize reads the boxes and leaves them in place.
Finalize ==
  /\ \A t \in Updaters : array[t] # "live"
  /\ array[Final] = "live" /\ ~failed /\ result = Null
  /\ result' = [g \in Groups |-> IF slot[Final][g] = Null THEN Null ELSE box[slot[Final][g]]]
  /\ UNCHANGED <<input, pending, slot, box, dropped, array, failed>>

\* state_destroy: a source after it was combined, the final states after
\* finalize, any array once the query failed.
Destroy(o) ==
  /\ array[o] # "destroyed"
  /\ failed \/ array[o] = "combined" \/ (o = Final /\ result # Null)
  /\ Drop({slot[o][g] : g \in Groups} \ {Null})
  /\ slot' = [slot EXCEPT ![o] = [g \in Groups |-> Null]]
  /\ array' = [array EXCEPT ![o] = "destroyed"]
  /\ UNCHANGED <<input, pending, box, result, failed>>

MergeNext ==
  \/ \E t \in Updaters, row \in input : UpdateRow(t, row) \/ UpdateFails(t, row)
  \/ \E t \in Updaters : Combine(t)
  \/ Finalize
  \/ \E o \in Owners : Destroy(o)

MergeSpec == MergeInit /\ [][MergeNext]_mergeVars

-----------------------------------------------------------------------------

Held == {h \in Owners \X Groups : slot[h[1]][h[2]] # Null}

\* Whichever threads met the rows of a group and in whatever order their states
\* are combined, the finalized cell is the merge of all its partial states, each
\* once, and NULL for a group with none; every box is owned by one slot until it
\* is freed, is freed once, and none is left when all states are destroyed, after
\* a failed update too (state_update, state_combine, state_finalize, state_destroy).
MergeExact ==
  /\ result # Null => \A g \in Groups :
       LET states == {row \in input : row.group = g /\ row.kind = "state"}
       IN  result[g] = IF states = {} THEN Null ELSE SetToBag(states)
  /\ \A s \in Held : \A r \in Held \ {s} : slot[s[1]][s[2]] # slot[r[1]][r[2]]
  /\ \A s \in Held : ~BagIn(slot[s[1]][s[2]], dropped)
  /\ \A b \in BagToSet(dropped) : dropped[b] = 1
  /\ (\A o \in Owners : array[o] = "destroyed") => BagToSet(dropped) = DOMAIN box
=============================================================================
