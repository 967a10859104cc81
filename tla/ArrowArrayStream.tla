--------------------------- MODULE ArrowArrayStream ---------------------------
(***************************************************************************)
(* Ownership across the Arrow C Data and C Stream Interfaces               *)
(* (columnar/arrow_c.rs).  The producer hands out structs whose contents   *)
(* live on its heap; the consumer, on any thread but never concurrently on *)
(* one struct, may release them in any order, release one twice, and move  *)
(* a child out of its parent (copy the struct and clear the original's     *)
(* release), which the interface allows.                                   *)
(*                                                                         *)
(* A struct is a schema or an array with Columns children.  `frees' counts *)
(* how often each heap block was given back.                               *)
(***************************************************************************)
EXTENDS Integers, Sequences, FiniteSets

CONSTANTS Columns,    \* children of every struct
          MaxStructs  \* bound on the structs handed out

\* What an instance has to satisfy.
ArrowAssumption == Columns \in Nat /\ MaxStructs \in Nat

VARIABLES
  stream,   \* "live", "failed" or "released"
  lastError,
  out,      \* the structs handed out: their kind and their children's owner
  frees,    \* heap block -> times freed
  held      \* structs whose release is still set, as the consumer sees them
arrowVars == <<stream, lastError, out, frees, held>>

\* Blocks: a struct's private data, the box of each child and a child's data.
Private(s) == <<"private", s>>
ChildBox(s, c) == <<"box", s, c>>
ChildData(s, c) == <<"data", s, c>>
Whole(s) == <<"struct", s>>
Moved(s, c) == <<"moved", s, c>>
StreamData == <<"stream">>

Blocks(s) == {Private(s)} \cup {ChildBox(s, c) : c \in 1 .. Columns}
                          \cup {ChildData(s, c) : c \in 1 .. Columns}

ArrowInit ==
  /\ stream = "live" /\ lastError = FALSE
  /\ out = <<>> /\ held = {}
  /\ frees = [b \in {StreamData} |-> 0]

\* stream_get_schema and stream_get_next with a batch: a new struct, its
\* children boxed (from_column_schema, from_record_batch), written to `out'
\* without dropping what the consumer had there.
HandOut(kind) ==
  /\ stream # "released" /\ Len(out) < MaxStructs
  /\ kind = "array" => stream = "live"
  /\ LET s == Len(out) + 1 IN
       /\ out' = Append(out, [kind |-> kind, children |-> [c \in 1 .. Columns |-> "inside"]])
       /\ held' = held \cup {Whole(s)}
       /\ frees' = [b \in DOMAIN frees \cup Blocks(s) |-> IF b \in DOMAIN frees THEN frees[b] ELSE 0]
  /\ UNCHANGED <<stream, lastError>>

\* The end of the stream is an empty, released array: nothing is allocated.
GetNextEnd == stream = "live" /\ UNCHANGED arrowVars

\* An Err of the iterator and a panic inside it both become EIO.
GetNextFails ==
  /\ stream = "live"
  /\ stream' = "failed" /\ lastError' = TRUE
  /\ UNCHANGED <<out, frees, held>>

\* The consumer moves child c out of struct s.
MoveChild(s, c) ==
  /\ Whole(s) \in held /\ out[s].children[c] = "inside"
  /\ out' = [out EXCEPT ![s].children[c] = "moved"]
  /\ held' = held \cup {Moved(s, c)}
  /\ UNCHANGED <<stream, lastError, frees>>

\* release_arrow_schema and release_arrow_array on a whole struct: the private
\* data, then each child (its own release if it is still set) and its box.
Release(s) ==
  /\ s \in DOMAIN out
  /\ IF Whole(s) \in held
     THEN LET inside == {c \in 1 .. Columns : out[s].children[c] = "inside"}
              given == {Private(s)} \cup {ChildBox(s, c) : c \in 1 .. Columns}
                                    \cup {ChildData(s, c) : c \in inside}
          IN  /\ frees' = [b \in DOMAIN frees |-> frees[b] + IF b \in given THEN 1 ELSE 0]
              /\ out' = [out EXCEPT ![s].children =
                           [c \in 1 .. Columns |-> IF c \in inside THEN "gone" ELSE @[c]]]
              /\ held' = held \ {Whole(s)}
     ELSE UNCHANGED <<frees, out, held>>   \* release is None: returns at once
  /\ UNCHANGED <<stream, lastError>>

\* The same callback on a child that was moved out: it frees its own data.
ReleaseMoved(s, c) ==
  /\ s \in DOMAIN out
  /\ IF Moved(s, c) \in held
     THEN /\ frees' = [frees EXCEPT ![ChildData(s, c)] = @ + 1]
          /\ out' = [out EXCEPT ![s].children[c] = "gone"]
          /\ held' = held \ {Moved(s, c)}
     ELSE UNCHANGED <<frees, out, held>>
  /\ UNCHANGED <<stream, lastError>>

\* release_arrow_stream drops the iterator; the arrays it handed out stay.
ReleaseStream ==
  /\ IF stream # "released"
     THEN frees' = [frees EXCEPT ![StreamData] = @ + 1]
     ELSE UNCHANGED frees
  /\ stream' = "released"
  /\ UNCHANGED <<lastError, out, held>>

ArrowNext ==
  \/ \E kind \in {"schema", "array"} : HandOut(kind)
  \/ GetNextEnd \/ GetNextFails \/ ReleaseStream
  \/ \E s \in DOMAIN out : Release(s)
  \/ \E s \in DOMAIN out, c \in 1 .. Columns : MoveChild(s, c) \/ ReleaseMoved(s, c)

ArrowSpec == ArrowInit /\ [][ArrowNext]_arrowVars

-----------------------------------------------------------------------------
\* No block is freed twice; a struct or a moved child whose release is set can
\* be read, its data not freed, also after its parent or the stream is gone;
\* and once everything is released no block is left (release_arrow_schema,
\* release_arrow_array, release_arrow_stream).
OwnershipExact ==
  /\ \A b \in DOMAIN frees : frees[b] <= 1
  /\ \A s \in DOMAIN out :
       /\ Whole(s) \in held =>
            /\ frees[Private(s)] = 0
            /\ \A c \in 1 .. Columns :
                 out[s].children[c] = "inside" => frees[ChildBox(s, c)] = 0 /\ frees[ChildData(s, c)] = 0
       /\ \A c \in 1 .. Columns : Moved(s, c) \in held => frees[ChildData(s, c)] = 0
  /\ held = {} /\ stream = "released" => \A b \in DOMAIN frees : frees[b] = 1

=============================================================================
