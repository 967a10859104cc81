---------------------------- MODULE ParquetPipeline ----------------------------
(***************************************************************************)
(* Parquet export (parquet/pipeline.rs and writer.rs).  The caller's thread *)
(* drains a record streamer into a row group buffer and hands a full buffer *)
(* to a writer thread through one bounded channel, taking an emptied one    *)
(* back through another; two buffers go around.  The file is written next   *)
(* to its destination and put in place only when everything succeeded.      *)
(*                                                                         *)
(* A record is an H3 index (a number).  A buffer is a structure of arrays:  *)
(* one sequence per column, each value tagged with the record it came from. *)
(***************************************************************************)
EXTENDS Integers, Sequences, FiniteSets, FiniteSetsExt, Functions, SequencesExt

CONSTANTS Streams,       \* the record sequences to try
          RowGroupSize,
          ChannelCapacity, \* 2 in the code
          Options          \* <<compact, geoparquet, categorical>> to try

VARIABLES opts, stream,  \* the configuration and the records still to come
          accepted,      \* records drained so far
          main, current, \* the caller's control state and buffer
          full, empty,   \* the two channels
          senderGone, receiverGone, \* writer_tx dropped, recycle_rx dropped
          writer, held,  \* the writer thread and the buffer it holds
          groups, bbox,  \* the temporary file
          published      \* what is at the destination: none or one file

mainVars == <<opts, stream, accepted, main, current>>
channelVars == <<full, empty, senderGone, receiverGone>>
writerVars == <<writer, held, groups, bbox>>
vars == <<mainVars, channelVars, writerVars, published>>

-----------------------------------------------------------------------------
(* Columns.  A buffer has an array per column, flush_to_row_group writes    *)
(* them by position, so their order has to be the schema's.  An option is   *)
(* <<compact, geoparquet, categorical>>.                                    *)

When(condition, columns) == IF condition THEN columns ELSE <<>>

ContinuousSchema(o) ==
    CASE o[1] /\ ~o[2] -> <<"h3_index", "min_value", "max_value", "sum_value",
                            "avg_value", "pixel_count">>
      [] o[1] /\ o[2] -> <<"h3_index", "geometry", "min_value", "max_value",
                           "sum_value", "avg_value", "pixel_count">>
      [] ~o[1] /\ ~o[2] -> <<"h3_index", "h3_hex", "min_value", "max_value",
                             "sum_value", "avg_value", "pixel_count", "lat", "lng">>
      [] ~o[1] /\ o[2] -> <<"h3_index", "h3_hex", "geometry", "min_value",
                            "max_value", "sum_value", "avg_value", "pixel_count",
                            "lat", "lng">>

CategoricalSchema(o) ==
    CASE o[1] /\ ~o[2] -> <<"h3_index", "majority", "majority_fraction",
                            "pixel_count", "distinct_classes", "entropy">>
      [] o[1] /\ o[2] -> <<"h3_index", "geometry", "majority", "majority_fraction",
                           "pixel_count", "distinct_classes", "entropy">>
      [] ~o[1] /\ ~o[2] -> <<"h3_index", "h3_hex", "majority", "majority_fraction",
                             "pixel_count", "distinct_classes", "entropy", "lat", "lng">>
      [] ~o[1] /\ o[2] -> <<"h3_index", "h3_hex", "geometry", "majority",
                            "majority_fraction", "pixel_count", "distinct_classes",
                            "entropy", "lat", "lng">>

schema_message(o) == IF o[3] THEN CategoricalSchema(o) ELSE ContinuousSchema(o)

\* The arrays that push_record, sort_by_h3_index and clear treat alike.
ContinuousArrays(o) ==
    Range(<<"h3_index", "min_value", "max_value", "sum_value", "avg_value", "pixel_count">>
            \o When(o[2], <<"geometry">>) \o When(~o[1], <<"h3_hex", "lat", "lng">>))

CategoricalArrays(o) ==
    Range(<<"h3_index", "majority", "majority_fraction", "pixel_count",
            "distinct_classes", "entropy">>
            \o When(o[2], <<"geometry">>) \o When(~o[1], <<"h3_hex", "lat", "lng">>))

\* The columns of a buffer in the order they are flushed.
ContinuousOrder(o) ==
    <<"h3_index">> \o When(~o[1], <<"h3_hex">>) \o When(o[2], <<"geometry">>)
      \o <<"min_value", "max_value", "sum_value", "avg_value", "pixel_count">>
      \o When(~o[1], <<"lat", "lng">>)

CategoricalOrder(o) ==
    <<"h3_index">> \o When(~o[1], <<"h3_hex">>) \o When(o[2], <<"geometry">>)
      \o <<"majority", "majority_fraction", "pixel_count", "distinct_classes", "entropy">>
      \o When(~o[1], <<"lat", "lng">>)

flush_order(o) == IF o[3] THEN CategoricalOrder(o) ELSE ContinuousOrder(o)

\* bounds: the records whose geometry the bounds cover.
NewBuffer ==
    [ cols   |-> [c \in IF opts[3] THEN CategoricalArrays(opts) ELSE ContinuousArrays(opts)
                    |-> <<>>],
      bounds |-> {} ]

Rows(buf) == Len(buf.cols["h3_index"])

push_record(buf, r) ==
    [ cols   |-> [c \in DOMAIN buf.cols |-> Append(buf.cols[c], <<c, r>>)],
      bounds |-> IF opts[2] THEN buf.bounds \cup {r} ELSE buf.bounds ]

\* compute_sort_permutation: none is needed when the keys do not decrease.
SortPermutation(keys) ==
    SortSeq([i \in DOMAIN keys |-> i],
            LAMBDA a, b : keys[a] < keys[b])

\* Wrong: the pixel counts are left in their old order.
sort_but_counts(buf) ==
    LET keys == [i \in 1..Rows(buf) |-> buf.cols["h3_index"][i][2]]
        perm == SortPermutation(keys)
    IN  [buf EXCEPT !.cols =
            [c \in DOMAIN buf.cols |->
                IF c = "pixel_count" THEN buf.cols[c]
                ELSE [i \in DOMAIN perm |-> buf.cols[c][perm[i]]]]]

sort_by_h3_index(buf) ==
    LET keys == [i \in 1..Rows(buf) |-> buf.cols["h3_index"][i][2]]
        perm == SortPermutation(keys)
    IN  IF \A i \in 2..Rows(buf) : keys[i - 1] <= keys[i] THEN buf
        ELSE [buf EXCEPT !.cols =
                [c \in DOMAIN buf.cols |->
                    [i \in DOMAIN perm |-> buf.cols[c][perm[i]]]]]

clear(buf) ==
    [ cols   |-> [c \in DOMAIN buf.cols |-> <<>>],
      bounds |-> IF opts[2] THEN {} ELSE buf.bounds ]

\* A row group: for each column of the schema, what was written at its place.
flush_to_row_group(buf) ==
    [i \in DOMAIN schema_message(opts) |-> buf.cols[flush_order(opts)[i]]]

-----------------------------------------------------------------------------
Init ==
    /\ opts \in Options /\ stream \in Streams /\ accepted = <<>>
    /\ main = "drain" /\ current = NewBuffer
    /\ full = <<>> /\ empty = <<NewBuffer>>
    /\ senderGone = FALSE /\ receiverGone = FALSE
    /\ writer = "recv" /\ held = <<>> /\ groups = <<>> /\ bbox = {}
    /\ published = {}

WriterDead == writer \in {"ok", "err"}

\* One call of drain_completed_into: at most the space left in the buffer.
Drain ==
    /\ main = "drain"
    /\ \E n \in 1..(RowGroupSize - Rows(current)) :
        /\ n <= Len(stream)
        /\ current' = FoldLeft(push_record, current, SubSeq(stream, 1, n))
        /\ accepted' = accepted \o SubSeq(stream, 1, n)
        /\ stream' = SubSeq(stream, n + 1, Len(stream))
    /\ main' = IF Rows(current') >= RowGroupSize THEN "send" ELSE "drain"
    /\ UNCHANGED <<opts, channelVars, writerVars, published>>

\* The stream is at its end: a last, partly filled buffer is sent.
DrainEmpty ==
    /\ main = "drain" /\ stream = <<>>
    /\ main' = IF Rows(current) > 0 THEN "sendLast" ELSE "close"
    /\ UNCHANGED <<opts, stream, accepted, current, channelVars, writerVars, published>>

\* The writer is unblocked and joined before the error is returned.
DrainFails ==
    /\ main = "drain"
    /\ senderGone' = TRUE /\ receiverGone' = TRUE /\ empty' = <<>>
    /\ main' = "joinFailed"
    /\ UNCHANGED <<opts, stream, accepted, current, full, writerVars, published>>

Send ==
    /\ main \in {"send", "sendLast"} /\ ~WriterDead /\ Len(full) < ChannelCapacity
    /\ full' = Append(full, current)
    /\ main' = IF main = "send" THEN "take" ELSE "close"
    /\ current' = NewBuffer
    /\ UNCHANGED <<opts, stream, accepted, empty, senderGone, receiverGone,
                   writerVars, published>>

SendFails ==
    /\ main \in {"send", "sendLast"} /\ WriterDead
    /\ main' = "close"
    /\ UNCHANGED <<opts, stream, accepted, current, channelVars, writerVars, published>>

\* With the writer gone a fresh buffer is used; the next send then fails.
Take ==
    /\ main = "take"
    /\ \/ /\ empty # <<>>
          /\ current' = Head(empty) /\ empty' = Tail(empty)
       \/ /\ empty = <<>> /\ WriterDead
          /\ current' = NewBuffer /\ UNCHANGED empty
    /\ main' = "drain"
    /\ UNCHANGED <<opts, stream, accepted, full, senderGone, receiverGone,
                   writerVars, published>>

Close ==
    /\ main = "close"
    /\ senderGone' = TRUE /\ main' = "join"
    /\ UNCHANGED <<opts, stream, accepted, current, full, empty, receiverGone,
                   writerVars, published>>

\* Only a writer that returned Ok lets the file be put in place.
Join ==
    /\ main = "join" /\ WriterDead
    /\ IF writer = "ok"
       THEN main' = "done" /\ published' = {[groups |-> groups, bbox |-> bbox]}
       ELSE main' = "failed" /\ UNCHANGED published
    /\ UNCHANGED <<opts, stream, accepted, current, channelVars, writerVars>>

PersistFails ==
    /\ main = "join" /\ writer = "ok" /\ main' = "failed"
    /\ UNCHANGED <<opts, stream, accepted, current, channelVars, writerVars, published>>

JoinFailed ==
    /\ main = "joinFailed" /\ WriterDead
    /\ main' = "failed"
    /\ UNCHANGED <<opts, stream, accepted, current, channelVars, writerVars, published>>

-----------------------------------------------------------------------------
(* The writer thread.                                                      *)

Recv ==
    /\ writer = "recv" /\ full # <<>>
    /\ held' = <<Head(full)>> /\ full' = Tail(full)
    /\ writer' = "flush"
    /\ UNCHANGED <<mainVars, empty, senderGone, receiverGone, groups, bbox, published>>

\* A received buffer is never empty: the caller sends none.
Flush ==
    /\ writer = "flush"
    /\ LET buf == sort_by_h3_index(held[1])
       IN  /\ groups' = Append(groups, flush_to_row_group(buf))
           /\ bbox' = bbox \cup buf.bounds
           /\ held' = <<clear(buf)>>
    /\ writer' = "recycle"
    /\ UNCHANGED <<mainVars, channelVars, published>>

WriterFails ==
    /\ writer \in {"flush", "footer"}
    /\ held' = <<>> /\ full' = <<>> /\ writer' = "err"
    /\ UNCHANGED <<mainVars, empty, senderGone, receiverGone, groups, bbox, published>>

\* An emptied buffer goes back; when nobody takes it any more it is dropped.
Recycle ==
    /\ writer = "recycle"
    /\ \/ receiverGone /\ UNCHANGED empty
       \/ ~receiverGone /\ Len(empty) < ChannelCapacity /\ empty' = empty \o held
    /\ held' = <<>> /\ writer' = "recv"
    /\ UNCHANGED <<mainVars, full, senderGone, receiverGone, groups, bbox, published>>

Disconnected ==
    /\ writer = "recv" /\ full = <<>> /\ senderGone
    /\ writer' = "footer"
    /\ UNCHANGED <<mainVars, channelVars, held, groups, bbox, published>>

\* The geo metadata, the footer and its float column orders.
WriteFooter ==
    /\ writer = "footer" /\ writer' = "ok"
    /\ UNCHANGED <<mainVars, channelVars, held, groups, bbox, published>>

Main == \/ Drain \/ DrainEmpty \/ DrainFails \/ Send \/ SendFails \/ Take
        \/ Close \/ Join \/ PersistFails \/ JoinFailed
Writer == Recv \/ Flush \/ WriterFails \/ Recycle \/ Disconnected \/ WriteFooter

Next == Main \/ Writer

\* Both threads are scheduled by the operating system.
Spec == Init /\ [][Next]_vars /\ WF_vars(Main) /\ WF_vars(Writer)

-----------------------------------------------------------------------------
Column(group, name) ==
    group[CHOOSE i \in DOMAIN schema_message(opts) : schema_message(opts)[i] = name]

\* The h3 column of all groups, one after the other.
Written(file) ==
    FlattenSeq([g \in DOMAIN file.groups |-> Column(file.groups[g], "h3_index")])

\* A published file holds every record of the stream exactly once, in row
\* groups that are full but the last and sorted by index; every value stands
\* in the column of its name on the row of its record, whichever columns were
\* asked for, and the geometry bounds cover exactly the rows: a recycled
\* buffer brings nothing along from its earlier use.
PublishedExact ==
    \A file \in published :
        /\ stream = <<>>
        /\ \A r \in Range(accepted) :
              Cardinality({i \in DOMAIN accepted : accepted[i] = r}) =
              Cardinality({i \in DOMAIN Written(file) : Written(file)[i][2] = r})
        /\ Len(Written(file)) = Len(accepted)
        /\ \A g \in DOMAIN file.groups :
             LET key == Column(file.groups[g], "h3_index")
             IN  /\ g < Len(file.groups) => Len(key) = RowGroupSize
                 /\ \A i \in 2..Len(key) : key[i - 1][2] <= key[i][2]
                 /\ \A c \in Range(schema_message(opts)) :
                      Column(file.groups[g], c) = [i \in DOMAIN key |-> <<c, key[i][2]>>]
        /\ file.bbox = IF opts[2] THEN Range(accepted) ELSE {}

\* The export always returns with its writer thread ended: neither thread
\* waits for a buffer, or for room in a channel, that never comes.
PipelineEnds == <>(main \in {"done", "failed"} /\ WriterDead)
=============================================================================
