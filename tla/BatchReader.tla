----------------------------- MODULE BatchReader -----------------------------
(***************************************************************************)
(* The batch readers of columnar/mod.rs and columnar/partitioned.rs: the   *)
(* iterators through which every front end but DuckDB's pulls the records  *)
(* of a horizon streamer as record batches.                                *)
(*                                                                         *)
(* The streamer is the environment: each drain hands over any number of    *)
(* the records that are left, at most what it is asked for, and at the end *)
(* of its records it reports the end or an error.  The consumer calls      *)
(* `next' as often as it likes, after an end or an error too.              *)
(***************************************************************************)
EXTENDS Integers, Sequences, FiniteSets, SequencesExt, FiniteSetsExt

-----------------------------------------------------------------------------
(***************************************************************************)
(* Columnar record batches (columnar/mod.rs), their export to and import   *)
(* from the Arrow C Data Interface (columnar/arrow_c.rs) and the binary    *)
(* and JSON streams of batches (columnar/ipc.rs).                          *)
(*                                                                         *)
(* A record is a function from the names of its own fields to values; a    *)
(* column is built by POSITION, as in the code, so that the position table *)
(* and the schema are two independent descriptions of the output.  A value *)
(* of variable width is a sequence of bytes.                               *)
(***************************************************************************)

CONSTANTS NaN,     \* the value of a statistic that is not finite
          Null,    \* no validity vector, a null buffer or a JSON null
          Refused  \* an Err result

Field(name, type, nullable) == [name |-> name, type |-> type, nullable |-> nullable]

ContinuousFields == <<
  Field("h3_index", "u64", FALSE), Field("h3_hex", "utf8", FALSE),
  Field("mean", "f64", FALSE), Field("stddev", "f64", TRUE),
  Field("count", "f64", FALSE), Field("min", "f64", FALSE),
  Field("max", "f64", FALSE), Field("sum", "f64", FALSE),
  Field("resolution", "u8", FALSE), Field("wkb", "binary", FALSE) >>

Continuous(quantiles) ==
  ContinuousFields \o [q \in DOMAIN quantiles |-> Field(quantiles[q], "f64", TRUE)]

CategoricalWide == <<
  Field("h3_index", "u64", FALSE), Field("h3_hex", "utf8", FALSE),
  Field("majority_class", "i64", FALSE), Field("majority_fraction", "f64", FALSE),
  Field("majority_count", "f64", FALSE), Field("unique_classes", "i64", FALSE),
  Field("total_count", "f64", FALSE), Field("histogram", "utf8", FALSE),
  Field("resolution", "u8", FALSE), Field("shannon_entropy", "f64", FALSE),
  Field("entropy", "f64", FALSE), Field("distinct_classes", "i64", FALSE),
  Field("wkb", "binary", FALSE) >>

CategoricalLong == <<
  Field("h3_index", "u64", FALSE), Field("h3_hex", "utf8", FALSE),
  Field("category", "i64", FALSE), Field("count", "f64", FALSE),
  Field("fraction", "f64", FALSE), Field("total_count", "f64", FALSE),
  Field("resolution", "u8", FALSE), Field("shannon_entropy", "f64", FALSE),
  Field("entropy", "f64", FALSE), Field("distinct_classes", "i64", FALSE),
  Field("unique_classes", "i64", FALSE), Field("wkb", "binary", FALSE) >>

\* Positions count from 0, as the code's do; Null projects every column.
Active(schema, projection) ==
  IF projection = Null THEN [i \in DOMAIN schema |-> i - 1] ELSE projection

Project(schema, projection) ==
  LET active == Active(schema, projection) IN
  IF \A i \in DOMAIN active : active[i] < Len(schema)
  THEN [i \in DOMAIN active |-> schema[active[i] + 1]]
  ELSE Refused

Names(schema) == {schema[i].name : i \in DOMAIN schema}

-----------------------------------------------------------------------------
\* Columns from records.

Column(type, values) == [type |-> type, values |-> values, validity |-> Null]

\* A value that is not finite becomes 0 with its validity bit cleared.
NullableColumn(values) ==
  [type |-> "f64",
   values |-> [i \in DOMAIN values |-> IF values[i] = NaN THEN 0 ELSE values[i]],
   validity |-> IF \E i \in DOMAIN values : values[i] = NaN
                THEN [i \in DOMAIN values |-> values[i] # NaN] ELSE Null]

Hex(cell) == <<cell, cell>>
Wkb(cell) == IF cell = 0 THEN <<>> ELSE <<cell>>

QuantileTargets(active) ==
  SortSeq(SetToSeq({active[i] - 10 : i \in {j \in DOMAIN active : active[j] >= 10}}),
          LAMBDA a, b : a < b)

\* The sketch sweep fills one vector per distinct target; a column finds its
\* vector by the rank of its target.
QuantileColumn(position, records, quantiles, targets) ==
  LET slot == CHOOSE s \in DOMAIN targets : targets[s] = position - 10
      planned == [s \in DOMAIN targets |-> quantiles[targets[s] + 1]]
  IN  NullableColumn([r \in DOMAIN records |-> records[r].quantiles[planned[slot]]])

ContinuousColumn(position, records, quantiles, targets) ==
  LET Of(name) == [r \in DOMAIN records |-> records[r][name]] IN
  CASE position = 0 -> Column("u64", Of("h3_index"))
    [] position = 1 -> Column("utf8", [r \in DOMAIN records |-> Hex(records[r].h3_index)])
    [] position = 2 -> Column("f64", Of("mean"))
    [] position = 3 -> NullableColumn(Of("stddev"))
    [] position = 4 -> Column("f64", Of("count"))
    [] position = 5 -> Column("f64", Of("min"))
    [] position = 6 -> Column("f64", Of("max"))
    [] position = 7 -> Column("f64", Of("sum"))
    [] position = 8 -> Column("u8", Of("resolution"))
    [] position = 9 -> Column("binary", [r \in DOMAIN records |-> Wkb(records[r].h3_index)])
    [] OTHER -> QuantileColumn(position, records, quantiles, targets)

Batch(schema, columns, rows) == [schema |-> schema, columns |-> columns, rows |-> rows]

FromContinuous(records, quantiles, projection) ==
  LET schema == Project(Continuous(quantiles), projection)
      active == Active(Continuous(quantiles), projection)
  IN  IF schema = Refused THEN Refused
      ELSE Batch(schema,
                 [i \in DOMAIN active |->
                    ContinuousColumn(active[i], records, quantiles, QuantileTargets(active))],
                 Len(records))

WideColumn(position, records) ==
  LET Of(name) == [r \in DOMAIN records |-> records[r][name]] IN
  CASE position = 0 -> Column("u64", Of("h3_index"))
    [] position = 1 -> Column("utf8", [r \in DOMAIN records |-> Hex(records[r].h3_index)])
    [] position = 2 -> Column("i64", [r \in DOMAIN records |-> records[r].majority[1]])
    [] position = 3 -> Column("f64", [r \in DOMAIN records |-> records[r].majority[3]])
    [] position = 4 -> Column("f64", [r \in DOMAIN records |-> records[r].majority[2]])
    [] position \in {5, 11} -> Column("i64", [r \in DOMAIN records |-> Len(records[r].classes)])
    [] position = 6 -> Column("f64", Of("total_count"))
    [] position = 7 -> Column("utf8", Of("histogram"))
    [] position = 8 -> Column("u8", Of("resolution"))
    [] position \in {9, 10} -> Column("f64", Of("entropy"))
    [] position = 12 -> Column("binary", [r \in DOMAIN records |-> Wkb(records[r].h3_index)])

FromWide(records, projection) ==
  LET schema == Project(CategoricalWide, projection)
      active == Active(CategoricalWide, projection)
  IN  IF schema = Refused THEN Refused
      ELSE Batch(schema, [i \in DOMAIN active |-> WideColumn(active[i], records)], Len(records))

\* A long row repeats its cell's totals; the entropy is NaN when the cursor
\* was built without it.
LongRow(record, entry, withEntropy) ==
  [h3_index |-> record.h3_index, resolution |-> record.resolution,
   category |-> entry[1], count |-> entry[2], fraction |-> <<entry[2], record.total_count>>,
   total_count |-> record.total_count,
   entropy |-> IF withEntropy THEN record.entropy ELSE NaN,
   distinct_classes |-> Len(record.classes)]

LongRows(record, withEntropy) ==
  LET sorted == SortSeq(record.classes, LAMBDA a, b : a[1] < b[1]) IN
  [e \in DOMAIN sorted |-> LongRow(record, sorted[e], withEntropy)]

LongColumn(position, rows) ==
  LET Of(name) == [r \in DOMAIN rows |-> rows[r][name]] IN
  CASE position = 0 -> Column("u64", Of("h3_index"))
    [] position = 1 -> Column("utf8", [r \in DOMAIN rows |-> Hex(rows[r].h3_index)])
    [] position = 2 -> Column("i64", Of("category"))
    [] position = 3 -> Column("f64", Of("count"))
    [] position = 4 -> Column("f64", Of("fraction"))
    [] position = 5 -> Column("f64", Of("total_count"))
    [] position = 6 -> Column("u8", Of("resolution"))
    [] position \in {7, 8} -> Column("f64", Of("entropy"))
    [] position \in {9, 10} -> Column("i64", Of("distinct_classes"))
    [] position = 11 -> Column("binary", [r \in DOMAIN rows |-> Wkb(rows[r].h3_index)])

FromLong(rows, projection) ==
  LET active == Active(CategoricalLong, projection) IN
  Batch(Project(CategoricalLong, projection),
        [i \in DOMAIN active |-> LongColumn(active[i], rows)], Len(rows))

\* RecordBatch::try_new takes its row count from the first column, if any.
NewBatch(schema, columns) ==
  LET rows == IF columns = <<>> THEN 0 ELSE Len(columns[1].values) IN
  IF /\ Len(schema) = Len(columns)
     /\ \A i \in DOMAIN columns :
          Len(columns[i].values) = rows /\ columns[i].type = schema[i].type
  THEN Batch(schema, columns, rows) ELSE Refused

SliceColumn(column, offset, length) ==
  LET end == Min({offset + length, Len(column.values)})
      start == Min({offset, end})
  IN  [column EXCEPT !.values = SubSeq(@, start + 1, end),
                     !.validity = IF @ = Null THEN Null ELSE SubSeq(@, start + 1, end)]

Slice(batch, offset, length) ==
  LET end == Min({offset + length, batch.rows})
      start == Min({offset, end})
  IN  Batch(batch.schema,
            [i \in DOMAIN batch.columns |-> SliceColumn(batch.columns[i], start, end - start)],
            end - start)

\* What a row says under a column's name, whatever its layout.
Cell(column, row) ==
  IF column.validity # Null /\ ~column.validity[row] THEN Null ELSE column.values[row]

-----------------------------------------------------------------------------
\* Arrow C Data Interface.

\* A bitmap is a sequence of bytes, a byte the set of its bits, least first.
PackBits(bits) ==
  [byte \in 1 .. (Len(bits) + 7) \div 8 |->
     {bit \in 0 .. 7 : LET i == 8 * (byte - 1) + bit + 1 IN i <= Len(bits) /\ bits[i]}]

UnpackBits(bitmap, offset, length) ==
  IF bitmap = Null THEN [i \in 1 .. length |-> TRUE]
  ELSE [i \in 1 .. length |->
          LET at == offset + i - 1 IN (at % 8) \in bitmap[at \div 8 + 1]]

PackOffsets(values) ==
  LET ends[i \in 0 .. Len(values)] == IF i = 0 THEN 0 ELSE ends[i - 1] + Len(values[i])
  IN  [i \in 1 .. Len(values) + 1 |-> ends[i - 1]]

ReadVarLen(offsets, data, start, length) ==
  [i \in 1 .. length |-> SubSeq(data, offsets[start + i] + 1, offsets[start + i + 1])]

VarWidth(type) == type \in {"utf8", "binary"}

Nulls(column) ==
  IF column.validity = Null THEN 0 ELSE Cardinality({i \in DOMAIN column.validity : ~column.validity[i]})

FromColumnArray(column) ==
  [length |-> Len(column.values), offset |-> 0, nulls |-> Nulls(column),
   buffers |->
     <<IF Nulls(column) > 0 THEN PackBits(column.validity) ELSE Null>> \o
     (IF VarWidth(column.type) THEN <<PackOffsets(column.values), FlattenSeq(column.values)>>
      ELSE IF column.type = "bool" THEN <<PackBits(column.values)>>
      ELSE <<column.values>>)]

FromRecordBatch(batch) ==
  [length |-> batch.rows, offset |-> 0,
   children |-> [i \in DOMAIN batch.columns |-> FromColumnArray(batch.columns[i])]]

\* A child's null count may be -1, "not computed": any count but 0 reads the bitmap.
ReadChild(child, field, parentOffset, rows) ==
  LET start == child.offset + parentOffset IN
  [type |-> field.type,
   values |-> CASE VarWidth(field.type) ->
                     ReadVarLen(child.buffers[2], child.buffers[3], start, rows)
                [] field.type = "bool" -> UnpackBits(child.buffers[2], start, rows)
                [] OTHER -> SubSeq(child.buffers[2], start + 1, start + rows),
   validity |-> IF child.nulls # 0 /\ child.buffers[1] # Null
                THEN UnpackBits(child.buffers[1], start, rows) ELSE Null]

ToRecordBatch(array, schema) ==
  IF /\ Len(array.children) = Len(schema)
     /\ \A i \in DOMAIN schema :
          /\ Len(array.children[i].buffers) >= IF VarWidth(schema[i].type) THEN 3 ELSE 2
          /\ array.children[i].length >= array.offset + array.length
  THEN Batch(schema,
             [i \in DOMAIN schema |->
                ReadChild(array.children[i], schema[i], array.offset, array.length)],
             array.length)
  ELSE Refused

-----------------------------------------------------------------------------
\* The binary stream: a sequence of tokens, one per value or byte written.

EncodeColumn(column) ==
  (IF column.validity = Null THEN <<0>>
   ELSE <<1, Len(column.validity)>> \o [i \in DOMAIN column.validity |-> IF column.validity[i] THEN 1 ELSE 0])
  \o (IF VarWidth(column.type)
      THEN FlattenSeq([i \in DOMAIN column.values |-> <<Len(column.values[i])>> \o column.values[i]])
      ELSE column.values)

EncodeBatch(batch) ==
  IF batch.rows = 0 THEN <<>>
  ELSE <<1, batch.rows>> \o FlattenSeq([i \in DOMAIN batch.columns |-> EncodeColumn(batch.columns[i])])

WriteIpcStream(schema, batches) ==
  <<"RH3IPC01", Len(schema)>> \o schema
  \o FlattenSeq([b \in DOMAIN batches |-> EncodeBatch(batches[b])]) \o <<0>>

\* Decoding takes a position and gives the column and the position after it,
\* or Refused when the stream ends first (read_exact).
DecodeColumn(stream, at, type, rows) ==
  LET hasValidity == at <= Len(stream) /\ stream[at] # 0
      bits == IF hasValidity /\ at < Len(stream) THEN stream[at + 1] ELSE 0
      body == IF hasValidity THEN at + 2 + bits ELSE at + 1
      \* the position of value i, one past the last for i = rows
      pos[i \in 0 .. rows] ==
        IF i = 0 THEN body
        ELSE IF ~VarWidth(type) THEN pos[i - 1] + 1
        ELSE IF pos[i - 1] > Len(stream) THEN Len(stream) + 2
        ELSE pos[i - 1] + 1 + stream[pos[i - 1]]
      Value(i) == IF VarWidth(type) THEN SubSeq(stream, pos[i - 1] + 1, pos[i] - 1)
                  ELSE stream[pos[i - 1]]
  IN  IF pos[rows] > Len(stream) + 1 THEN Refused
      ELSE [next |-> pos[rows],
            column |-> [type |-> type,
                        values |-> [i \in 1 .. rows |-> Value(i)],
                        validity |-> IF hasValidity
                                     THEN [i \in 1 .. bits |-> stream[at + 1 + i] # 0] ELSE Null]]

\* One call of IpcStreamReader::next at position `at': an end, an error or a batch.
ReadBatch(stream, schema, at) ==
  LET rows == IF at < Len(stream) THEN stream[at + 1] ELSE 0
      read[i \in 0 .. Len(schema)] ==
        IF i = 0 THEN [next |-> at + 2, columns |-> <<>>]
        ELSE IF read[i - 1] = Refused THEN Refused
        ELSE LET col == DecodeColumn(stream, read[i - 1].next, schema[i].type, rows)
             IN  IF col = Refused THEN Refused
                 ELSE [next |-> col.next, columns |-> Append(read[i - 1].columns, col.column)]
      last == read[Len(schema)]
  IN  IF at > Len(stream) THEN Refused
      ELSE IF stream[at] = 0 THEN Null
      ELSE IF at + 1 > Len(stream) \/ last = Refused THEN Refused
      ELSE LET batch == NewBatch(schema, last.columns)
           IN  IF batch = Refused THEN Refused ELSE [next |-> last.next, batch |-> batch]

\* The header (IpcStreamReader::new) and then every batch, until the end or an error.
ReadIpcStream(stream) ==
  LET fields == IF Len(stream) > 1 THEN stream[2] ELSE 0
      schema == SubSeq(stream, 3, 2 + fields)
      steps[n \in 0 .. Len(stream)] ==
        IF n = 0 THEN [next |-> 3 + fields, batches |-> <<>>, end |-> "more"]
        ELSE LET before == steps[n - 1]
                 got == ReadBatch(stream, schema, before.next)
             IN  CASE before.end # "more" -> before
                   [] got = Null -> [before EXCEPT !.end = "end"]
                   [] got = Refused -> [before EXCEPT !.end = "error"]
                   [] OTHER -> [before EXCEPT !.next = got.next,
                                              !.batches = Append(@, got.batch)]
  IN  IF Len(stream) < 2 + fields \/ Len(stream) < 2
      THEN [schema |-> Null, batches |-> <<>>, end |-> "error"]
      ELSE [schema |-> schema, batches |-> steps[Len(stream)].batches,
            end |-> steps[Len(stream)].end]

\* One JSON object per row: a null value or a value that is not finite is null.
JsonRow(batch, row) ==
  [name \in Names(batch.schema) |->
     LET last == CHOOSE i \in DOMAIN batch.schema :
                   /\ batch.schema[i].name = name
                   /\ \A j \in i + 1 .. Len(batch.schema) : batch.schema[j].name # name
         value == Cell(batch.columns[last], row)
     IN  IF value = NaN THEN Null ELSE value]

-----------------------------------------------------------------------------
(* The readers.                                                            *)

CONSTANTS Jobs   \* the scans: [kind, records, fate, quantiles, projection, batch, limit]

VARIABLES job,        \* the scan this reader was opened for
          left,       \* records the streamer has not handed over
          finished, remaining,
          cursor,     \* long rows of the current cell still to emit
          rows,       \* long rows of the batch being put together
          pending,    \* batches queued by the partitioned reader
          calling,    \* a call of `next' is under way
          got,        \* the results handed to the consumer, in order
          pc
readerVars == <<job, left, finished, remaining, cursor, rows, pending, calling, got, pc>>

-----------------------------------------------------------------------------
\* What the reader is opened with.

QuantilesProjected(projection, count) ==
  /\ count > 0
  /\ \/ projection = Null
     \/ \E i \in DOMAIN projection : projection[i] \in 10 .. 9 + count

WithEntropy(projection) ==
  projection = Null \/ \E i \in DOMAIN projection : projection[i] \in {7, 8}

Tracks(j) == QuantilesProjected(j.projection, Len(j.quantiles))

\* Without sketches a record has no value for any quantile.
Handed(j, record) ==
  IF j.kind \notin {"continuous", "partitioned"} \/ Tracks(j) THEN record
  ELSE [record EXCEPT !.quantiles = [q \in DOMAIN @ |-> NaN]]

StateField == Field("partial_state", "binary", TRUE)

\* Partial rows are merged by these two columns: a projection may not drop them.
PartitionedSchema(full, projection) ==
  LET schema == Project(full, projection) IN
  IF schema = Refused \/ ~({"h3_index", "resolution"} \subseteq Names(schema))
  THEN Refused ELSE Append(schema, StateField)

FullSchema(j) ==
  CASE j.kind \in {"continuous", "partitioned"} -> Continuous(j.quantiles)
    [] j.kind = "wide" -> CategoricalWide
    [] j.kind = "long" -> CategoricalLong

OutputSchema(j) ==
  IF j.kind = "partitioned" THEN PartitionedSchema(FullSchema(j), j.projection)
  ELSE Project(FullSchema(j), j.projection)

Init ==
  /\ job \in Jobs
  /\ pc = IF OutputSchema(job) = Refused THEN "refused" ELSE "open"
  /\ left = job.records
  /\ finished = FALSE /\ remaining = job.limit
  /\ cursor = <<>> /\ rows = <<>> /\ pending = <<>>
  /\ calling = FALSE /\ got = <<>>

-----------------------------------------------------------------------------
RowsPerBatch == Max({job.batch, 1})
Target == IF remaining = Null THEN RowsPerBatch ELSE Min({RowsPerBatch, remaining})
\* Wrong: the limit is not counted down.
LessNothing(count) == remaining

Less(count) == IF remaining = Null THEN Null ELSE Max({remaining - count, 0})

Return(result) ==
  /\ got' = IF result = Null /\ got # <<>> /\ Last(got) = Null THEN got ELSE Append(got, result)
  /\ calling' = FALSE /\ rows' = <<>>

\* The consumer calls next: nothing is drained at the limit or after the end.
NextAtLimit ==
  /\ pc = "open" /\ ~calling /\ remaining = 0
  /\ finished' = TRUE /\ Return(Null)
  /\ UNCHANGED <<job, left, remaining, cursor, pending, pc>>

NextFinished ==
  /\ pc = "open" /\ ~calling /\ remaining # 0 /\ finished
  /\ job.kind # "long" /\ pending = <<>>
  /\ Return(Null)
  /\ UNCHANGED <<job, left, finished, remaining, cursor, pending, pc>>

\* The streamer hands over some of the records that are left, or none at the end.
Drained(asked, n) == n \in 1 .. Min({asked, Len(left)})
AtEnd == left = <<>>
Records(n) == [i \in 1 .. n |-> Handed(job, left[i])]
Rest(n) == SubSeq(left, n + 1, Len(left))

\* ContinuousBatchReader::next and the wide format of CategoricalBatchReader.
NextBatch(n) ==
  /\ pc = "open" /\ ~calling /\ ~finished /\ remaining # 0
  /\ job.kind \in {"continuous", "wide"}
  /\ Drained(Target, n)
  /\ left' = Rest(n)
  /\ remaining' = Less(n)
  /\ Return(IF job.kind = "wide" THEN FromWide(Records(n), job.projection)
            ELSE FromContinuous(Records(n), job.quantiles, job.projection))
  /\ UNCHANGED <<job, finished, cursor, pending, pc>>

NextEnds ==
  /\ pc = "open" /\ ~calling /\ ~finished /\ remaining # 0
  /\ job.kind # "long" /\ pending = <<>> /\ AtEnd
  /\ finished' = TRUE
  /\ Return(IF job.fate = "error" THEN Refused ELSE Null)
  /\ UNCHANGED <<job, left, remaining, cursor, pending, pc>>

\* The long format fills a batch row by row, one cell at a time.
NextLong ==
  /\ pc = "open" /\ ~calling /\ remaining # 0 /\ job.kind = "long"
  /\ calling' = TRUE /\ rows' = <<>>
  /\ UNCHANGED <<job, left, finished, remaining, cursor, pending, got, pc>>

EmitRows ==
  /\ calling /\ Len(rows) < Target /\ cursor # <<>>
  /\ LET take == Min({Target - Len(rows), Len(cursor)}) IN
       /\ rows' = rows \o SubSeq(cursor, 1, take)
       /\ cursor' = SubSeq(cursor, take + 1, Len(cursor))
  /\ UNCHANGED <<job, left, finished, remaining, pending, calling, got, pc>>

\* A cell without counted pixels loads nothing.
LoadCell ==
  /\ calling /\ Len(rows) < Target /\ cursor = <<>> /\ ~finished /\ left # <<>>
  /\ left' = Rest(1)
  /\ cursor' = IF left[1].total_count > 0
               THEN LongRows(left[1], WithEntropy(job.projection)) ELSE cursor
  /\ UNCHANGED <<job, finished, remaining, rows, pending, calling, got, pc>>

CellsEnd ==
  /\ calling /\ Len(rows) < Target /\ cursor = <<>> /\ ~finished /\ AtEnd
  /\ finished' = TRUE
  /\ IF job.fate = "error" THEN Return(Refused) ELSE UNCHANGED <<rows, calling, got>>
  /\ UNCHANGED <<job, left, remaining, cursor, pending, pc>>

FinishLong ==
  /\ calling
  /\ Len(rows) >= Target \/ (cursor = <<>> /\ finished)
  /\ finished' = (finished \/ rows = <<>>)
  /\ remaining' = Less(Len(rows))
  /\ Return(IF rows = <<>> THEN Null ELSE FromLong(rows, job.projection))
  /\ UNCHANGED <<job, left, cursor, pending, pc>>

\* PartitionedBatchReader::fill: the final rows of one drain become a batch
\* whose states are null, its partial rows a second one that carries them.
WithState(batch, column) ==
  NewBatch(OutputSchema(job), Append(batch.columns, column))

StateColumn(states, valid) ==
  [type |-> "binary", values |-> states,
   validity |-> IF valid THEN Null ELSE [i \in DOMAIN states |-> FALSE]]

Fill(n) ==
  /\ pc = "open" /\ ~calling /\ ~finished /\ pending = <<>>
  /\ job.kind = "partitioned" /\ Drained(RowsPerBatch, n)
  /\ left' = Rest(n)
  /\ LET quantiles == IF Tracks(job) THEN job.quantiles ELSE <<>>
         finals == SelectSeq(Records(n), LAMBDA r : r.state = Null)
         partials == SelectSeq(Records(n), LAMBDA r : r.state # Null)
         Made(recs, states, valid) ==
           IF recs = <<>> THEN <<>>
           ELSE <<WithState(FromContinuous(recs, quantiles, job.projection),
                            StateColumn(states, valid))>>
     IN  pending' = Made(finals, [i \in DOMAIN finals |-> <<>>], FALSE)
                    \o Made(partials, [i \in DOMAIN partials |-> partials[i].state], TRUE)
  /\ UNCHANGED <<job, finished, remaining, cursor, rows, calling, got, pc>>

NextPending ==
  /\ pc = "open" /\ ~calling /\ pending # <<>>
  /\ Return(Head(pending))
  /\ pending' = Tail(pending)
  /\ UNCHANGED <<job, left, finished, remaining, cursor, pc>>

\* merge_partial_batches reads these columns of a batch and rejects a row
\* whose state is null.
MergeAccepts(batch) ==
  LET Named(name, type) ==
        \E i \in DOMAIN batch.schema :
          /\ batch.schema[i].name = name /\ batch.columns[i].type = type
          /\ \A j \in 1 .. i - 1 : batch.schema[j].name # name
          /\ batch.columns[i].validity = Null
             \/ \A r \in DOMAIN batch.columns[i].validity : batch.columns[i].validity[r]
  IN  Named("resolution", "u8") /\ Named("h3_index", "u64") /\ Named("partial_state", "binary")

Next ==
  \/ NextAtLimit \/ NextFinished \/ NextEnds
  \/ \E n \in 1 .. Len(left) : NextBatch(n)
  \/ NextLong \/ EmitRows \/ LoadCell \/ CellsEnd \/ FinishLong
  \/ \E n \in 1 .. Len(left) : Fill(n)
  \/ NextPending

Spec == Init /\ [][Next]_readerVars

-----------------------------------------------------------------------------
\* What a record says under a column's name: the reference, by name.
ValueNamed(record, name) ==
  CASE name = "h3_hex" -> Hex(record.h3_index)
    [] name = "wkb" -> Wkb(record.h3_index)
    [] name \in {"entropy", "shannon_entropy"} -> record.entropy
    [] name \in {"unique_classes", "distinct_classes"} /\ "classes" \in DOMAIN record ->
         Len(record.classes)
    [] name = "unique_classes" -> record.distinct_classes
    [] name = "majority_class" -> record.majority[1]
    [] name = "majority_count" -> record.majority[2]
    [] name = "majority_fraction" -> record.majority[3]
    [] name = "partial_state" -> record.state
    [] name \in DOMAIN record -> record[name]
    [] OTHER -> record.quantiles[name]

Sources(j) ==
  IF j.kind # "long" THEN j.records
  ELSE FlattenSeq([i \in DOMAIN j.records |->
         IF j.records[i].total_count > 0 THEN LongRows(j.records[i], TRUE) ELSE <<>>])

ExpectedRow(j, source) ==
  [name \in Names(OutputSchema(j)) |->
     LET v == ValueNamed(source, name) IN IF v = NaN THEN Null ELSE v]

Batches == SelectSeq(got, LAMBDA g : g # Null /\ g # Refused)
RowsOf(batch) == [r \in 1 .. batch.rows |-> JsonRow(batch, r)]
Delivered == FlattenSeq([b \in DOMAIN Batches |-> RowsOf(Batches[b])])

Wanted ==
  LET all == [i \in DOMAIN Sources(job) |-> ExpectedRow(job, Sources(job)[i])] IN
  IF job.limit = Null THEN all ELSE SubSeq(all, 1, Min({job.limit, Len(all)}))

\* The batches, read through the Arrow export and import that a consumer uses
\* and row by row under their column names, are the rows of the streamer's
\* records, in its order (final before partial rows within one drain of a
\* partitioned scan), each once, never past the limit, in batches of at most
\* the size asked for; nothing follows an end or an error; and an end without
\* an error means that no row is missing.  A quantile column that was
\* projected has its sketches and an entropy column its entropy
\* (ContinuousBatchReader, CategoricalBatchReader, PartitionedBatchReader).
BatchesExact ==
  pc = "open" =>
  /\ IF job.kind = "partitioned"
     THEN /\ ToSet(Delivered) \subseteq ToSet(Wanted)
          /\ Cardinality(ToSet(Delivered)) = Len(Delivered)
          /\ Null \in ToSet(got) /\ Refused \notin ToSet(got) =>
               ToSet(Delivered) = ToSet(Wanted)
          /\ \A b \in DOMAIN Batches :
               MergeAccepts(Batches[b]) <=> RowsOf(Batches[b])[1].partial_state # Null
     ELSE /\ IsPrefix(Delivered, Wanted)
          /\ Null \in ToSet(got) /\ Refused \notin ToSet(got) => Delivered = Wanted
  /\ \A b \in DOMAIN Batches :
       /\ Batches[b].rows \in 1 .. RowsPerBatch
       /\ ToRecordBatch(FromRecordBatch(Batches[b]), OutputSchema(job)) = Batches[b]
  /\ \A i, k \in DOMAIN got : i < k /\ got[i] \in {Null, Refused} => got[k] = Null

=============================================================================
