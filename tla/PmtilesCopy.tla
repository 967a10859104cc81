------------------------------ MODULE PmtilesCopy ------------------------------
(* COPY ... TO ... (FORMAT pmtiles): the bind, global-init, sink and finalize  *)
(* callbacks that the host database calls, the last two on several threads.    *)
(* The rows a sink has converted wait outside the exporter's lock, so sinks of *)
(* several threads interleave; an error of any callback ends the statement,    *)
(* and the host then drops the bind data and the global state. The exporter    *)
(* itself is ExternalExport; here it is the bag of features it was handed.     *)
EXTENDS Integers, Sequences, FiniteSets, SequencesExt, BagsExt

CONSTANTS Threads,      \* the threads of the host that run sinks
          Statements,   \* [types, options, chunks, spills]: the COPY statements tried
          MaxBudget,    \* the largest memory budget accepted
          Null,         \* an absent value
          Idle          \* a thread that holds no converted chunk

VARIABLES statement,    \* the statement being run
          phase,        \* "bind", "init", "sink", "drop" or "done"
          failed,       \* a callback has set an error
          options,      \* the options kept in the bind data
          waiting,      \* the chunks no thread has taken yet
          held,         \* held[t]: the features thread t converted and not yet pushed
          exporter,     \* the features pushed, or Null once finalize took them
          output,       \* what the destination holds
          open          \* the handles and boxes not yet released

copyVars == <<statement, phase, failed, options, waiting, held, exporter, output, open>>

(* The features of a sequence, without their order. *)
Bagged(s) == FoldSeq(LAMBDA f, bag : BagAdd(bag, f), EmptyBag, s)

NoOptions == [min |-> Null, max |-> Null, budget |-> Null]

(* The value an option may hold: NULL leaves it unset, anything else has to be *)
(* an integer in the option's range.                                           *)
Ranges == [MIN_ZOOM |-> 0..255, MAX_ZOOM |-> 0..255, MEMORY_BUDGET_MB |-> 1..MaxBudget]
FieldOf == [MIN_ZOOM |-> "min", MAX_ZOOM |-> "max", MEMORY_BUDGET_MB |-> "budget"]

OptionAccepted(o) ==
    /\ o.name \in DOMAIN Ranges
    /\ (o.value = Null \/ o.value \in Ranges[o.name])

parse_copy_options(given) ==
    LET parsed == FoldSeq(LAMBDA o, acc : [acc EXCEPT ![FieldOf[o.name]] = o.value],
                          NoOptions, given)
    IN  IF \E i \in DOMAIN given : ~OptionAccepted(given[i])
        THEN Null
        ELSE IF parsed.min # Null /\ parsed.max # Null /\ parsed.min > parsed.max
             THEN Null
             ELSE parsed

Init ==
    /\ statement \in Statements
    /\ phase = "bind"
    /\ failed = FALSE
    /\ options = NoOptions
    /\ waiting = statement.chunks
    /\ held = [t \in Threads |-> Idle]
    /\ exporter = Null
    /\ output = "untouched"
    /\ open = {}

(* The callback sets an error; the host stops calling and starts dropping. *)
Fails ==
    /\ failed' = TRUE
    /\ phase' = "drop"

Bind ==
    /\ phase = "bind"
    /\ LET parsed == parse_copy_options(statement.options)
       IN  IF statement.types = <<>> \/ parsed = Null
           THEN Fails /\ UNCHANGED <<options, open>>
           ELSE /\ options' = parsed
                /\ open' = {"bind"}
                /\ phase' = "init"
                /\ UNCHANGED failed
    /\ UNCHANGED <<statement, waiting, held, exporter, output>>

(* The destination is opened, and truncated, through the file system of the    *)
(* client context; without a context it is created only at the end.            *)
GlobalInit ==
    /\ phase = "init"
    /\ exporter' = EmptyBag
    /\ \/ /\ open' = open \cup {"global", "exporter", "fs", "file"}
          /\ output' = "truncated"
       \/ /\ open' = open \cup {"global", "exporter"}
          /\ UNCHANGED output
    /\ phase' = "sink"
    /\ UNCHANGED <<statement, failed, options, waiting, held>>

OpenFails ==
    /\ phase = "init"
    /\ Fails
    /\ UNCHANGED <<statement, options, waiting, held, exporter, output, open>>

Supported == {"ubigint", "bigint", "double", "varchar"}

cell_mvt_value(type, value) == IF type \in Supported THEN value ELSE Null

InZoomRange(zoom, o) ==
    /\ (o.min = Null \/ zoom >= o.min)
    /\ (o.max = Null \/ zoom <= o.max)

(* A row becomes a feature unless its cell is NULL or outside the zoom range;  *)
(* column i of the query is property i, and a NULL property is left out.       *)
Feature(row, types) ==
    [cell |-> row.cell,
     props |-> {<<i, cell_mvt_value(types[i], row.props[i - 1])>> :
                   i \in {i \in 2..Len(types) : cell_mvt_value(types[i], row.props[i - 1]) # Null}}]

Converted(chunk, types, o) ==
    FoldSeq(LAMBDA row, acc : IF row.cell # Null /\ InZoomRange(row.zoom, o)
                              THEN Append(acc, Feature(row, types)) ELSE acc,
            <<>>, chunk)

ChunkRefused(chunk, types) ==
    \/ types[1] \notin {"ubigint", "bigint", "varchar"}
    \/ \E i \in DOMAIN chunk : chunk[i].cell # Null /\ ~chunk[i].valid

SinkConverts(t) ==
    /\ phase = "sink" /\ held[t] = Idle
    /\ \E i \in DOMAIN waiting :
         /\ waiting' = RemoveAt(waiting, i)
         /\ IF ChunkRefused(waiting[i], statement.types)
            THEN Fails /\ UNCHANGED held
            ELSE /\ held' = [held EXCEPT ![t] = Converted(waiting[i], statement.types, options)]
                 /\ UNCHANGED <<failed, phase>>
    /\ UNCHANGED <<statement, options, exporter, output, open>>

(* The exporter's lock is held while the whole chunk is pushed. *)
SinkPushes(t) ==
    /\ phase \in {"sink", "drop"} /\ held[t] # Idle /\ exporter # Null
    /\ exporter' = exporter (+) Bagged(held[t])
    /\ held' = [held EXCEPT ![t] = Idle]
    /\ UNCHANGED <<statement, phase, failed, options, waiting, output, open>>

(* A spill fails part of the way through the chunk. *)
SpillFails(t) ==
    /\ phase \in {"sink", "drop"} /\ held[t] # Idle /\ held[t] # <<>>
    /\ statement.spills
    /\ \E n \in 0..(Len(held[t]) - 1) :
         exporter' = exporter (+) Bagged(SubSeq(held[t], 1, n))
    /\ held' = [held EXCEPT ![t] = Idle]
    /\ Fails
    /\ UNCHANGED <<statement, options, waiting, output, open>>

NoSinkRuns == \A t \in Threads : held[t] = Idle

(* The host calls finalize once every sink has returned without an error. *)
Finalize ==
    /\ phase = "sink" /\ waiting = <<>> /\ NoSinkRuns
    /\ exporter' = Null
    /\ output' = exporter
    /\ phase' = "drop"
    /\ UNCHANGED <<statement, failed, options, waiting, held, open>>

FinalizeFails ==
    /\ phase = "sink" /\ waiting = <<>> /\ NoSinkRuns
    /\ exporter' = Null
    /\ output' = "partial"
    /\ Fails
    /\ UNCHANGED <<statement, options, waiting, held, open>>

(* The fields of the global state are dropped in the order they are declared:  *)
(* the writer, with its file handle, before the file system it came from.      *)
DropOrder == <<"file", "exporter", "fs", "global", "bind">>

Release ==
    /\ phase = "drop" /\ NoSinkRuns /\ open # {}
    /\ LET next == DropOrder[CHOOSE i \in DOMAIN DropOrder :
                        /\ DropOrder[i] \in open
                        /\ \A j \in 1..(i - 1) : DropOrder[j] \notin open]
       IN  /\ open' = open \ {next}
           /\ exporter' = IF next = "exporter" THEN Null ELSE exporter
    /\ UNCHANGED <<statement, phase, failed, options, waiting, held, output>>

Dropped ==
    /\ phase = "drop" /\ NoSinkRuns /\ open = {}
    /\ phase' = "done"
    /\ UNCHANGED <<statement, failed, options, waiting, held, exporter, output, open>>

Sink(t) == SinkConverts(t) \/ SinkPushes(t) \/ SpillFails(t)
Next == \/ Bind \/ GlobalInit \/ OpenFails \/ Finalize \/ FinalizeFails \/ Release \/ Dropped
        \/ \E t \in Threads : Sink(t)

Spec == Init /\ [][Next]_copyVars

AllRows == FoldSeq(LAMBDA chunk, acc : acc \o chunk, <<>>, statement.chunks)

(* What the documentation of the format promises of one row. *)
Drawn(row) ==
    /\ row.cell # Null
    /\ \A i \in DOMAIN statement.options :
         LET o == statement.options[i]
         IN  /\ (o.name = "MIN_ZOOM" /\ o.value # Null) => row.zoom >= o.value
             /\ (o.name = "MAX_ZOOM" /\ o.value # Null) => row.zoom <= o.value

Expected ==
    Bagged(SelectSeq([i \in DOMAIN AllRows |->
        IF Drawn(AllRows[i])
        THEN [cell |-> AllRows[i].cell,
              props |-> {<<c, AllRows[i].props[c - 1]>> :
                           c \in {c \in 2..Len(statement.types) :
                                    /\ AllRows[i].props[c - 1] # Null
                                    /\ statement.types[c] # "blob"}}]
        ELSE Null], LAMBDA f : f # Null))

(* Every row of the query is in the archive exactly once however the sinks of  *)
(* several threads interleave: a statement that ends without an error wrote    *)
(* the feature of every row with a cell in the zoom range and of no other      *)
(* row, and it had no invalid cell; and a file handle never outlives its file  *)
(* system.                                                                     *)
CopyExact ==
    /\ (phase = "done" /\ ~failed) =>
         /\ output = Expected
         /\ \A i \in DOMAIN AllRows : AllRows[i].cell = Null \/ AllRows[i].valid
    /\ "file" \in open => "fs" \in open
    /\ phase = "done" => open = {} /\ exporter = Null
================================================================================
