---------------------------- MODULE ExternalExport ----------------------------
(***************************************************************************)
(* ExternalFeatureExport (pmtiles/external_export.rs): H3 features pushed   *)
(* in any order, sorted north to south through spilled runs, merged and cut *)
(* into tiles.  A feature is [cell, key]: its cell and the name of its      *)
(* property; a buffered record carries the interned id of the name.  Sizes  *)
(* are counted in records.                                                  *)
(***************************************************************************)
EXTENDS TilePyramid

CONSTANTS Cells, South, North, Res, \* valid cells, their reach and resolution
          Center,          \* latitude of a cell's center
          Invalid,         \* indexes that are not H3 cells
          Keys,            \* property names
          MaxKeys,         \* 2^16 in the code
          Budget,          \* records that fill the buffer
          EvictEvery,      \* 4096 in the code
          MaxPushes        \* bound on the features pushed

VARIABLES phase,   \* "push", "merge", "done" or "failed"
          pushed,  \* every feature accepted, in order
          total, valid,
          keys,    \* interned names; an id is a position
          buffer, runs, heads,
          acc, merged, written, summary

vars == <<phase, pushed, total, valid, keys, buffer, runs, heads, acc, merged,
          written, summary>>

Init ==
    /\ phase = "push" /\ pushed = <<>> /\ total = 0 /\ valid = 0
    /\ keys = <<>> /\ buffer = <<>> /\ runs = <<>> /\ heads = {}
    /\ acc = NewAccumulator /\ merged = 0 /\ written = <<>> /\ summary = {}

\* Wrong: by cell number alone.
BeforeByCell(a, b) == a.cell < b.cell

\* SortRecord::order: north first, then the index.  Records of one cell tie;
\* sort_unstable may leave them in any order, which a tile does not show.
Before(a, b) ==
    \/ Center[a.cell] > Center[b.cell]
    \/ Center[a.cell] = Center[b.cell] /\ a.cell < b.cell

SortedByLat(s) ==
    FoldFunction(LAMBDA r, out :
                   SelectSeq(out, LAMBDA x : ~Before(r, x)) \o <<r>>
                     \o SelectSeq(out, LAMBDA x : Before(r, x)),
                 <<>>, s)

-----------------------------------------------------------------------------
\* An index that is no cell is counted and dropped.
PushInvalid ==
    /\ phase = "push" /\ total < MaxPushes /\ Invalid # {}
    /\ total' = total + 1
    /\ UNCHANGED <<phase, pushed, valid, keys, buffer, runs, heads, acc, merged,
                   written, summary>>

Interned(key) ==
    IF key \in Range(keys) THEN keys ELSE Append(keys, key)

Id(ks, key) == CHOOSE i \in DOMAIN ks : ks[i] = key

\* A full buffer is sorted and written as a run at once.
Push(cell, key) ==
    /\ phase = "push" /\ total < MaxPushes
    /\ Len(Interned(key)) <= MaxKeys
    /\ LET full == Append(buffer, [cell |-> cell, id |-> Id(Interned(key), key)])
       IN  IF Len(full) >= Budget
           THEN buffer' = <<>> /\ runs' = Append(runs, SortedByLat(full))
           ELSE buffer' = full /\ UNCHANGED runs
    /\ keys' = Interned(key)
    /\ pushed' = Append(pushed, [cell |-> cell, key |-> key])
    /\ total' = total + 1 /\ valid' = valid + 1
    /\ UNCHANGED <<phase, heads, acc, merged, written, summary>>

\* Too many names, or the spill cannot be written: the export is abandoned.
PushFails(cell, key) ==
    /\ phase = "push" /\ total < MaxPushes
    /\ Len(Interned(key)) > MaxKeys \/ Len(buffer) + 1 >= Budget
    /\ phase' = "failed"
    /\ UNCHANGED <<pushed, total, valid, keys, buffer, runs, heads, acc, merged,
                   written, summary>>

\* build: once anything was spilled the rest is spilled too, and the first
\* record of every run enters the heap.
Build ==
    /\ phase = "push"
    /\ runs' = IF runs = <<>> \/ buffer = <<>> THEN runs
               ELSE Append(runs, SortedByLat(buffer))
    /\ buffer' = IF runs = <<>> THEN SortedByLat(buffer) ELSE <<>>
    /\ heads' = {[run |-> i, pos |-> 1] : i \in DOMAIN runs'}
    /\ phase' = "merge"
    /\ UNCHANGED <<pushed, total, valid, keys, acc, merged, written, summary>>

CoarsestMargin2 ==
    SafetyMargin2(Min({Res[pushed[i].cell] : i \in DOMAIN pushed}))

\* add_record, with an eviction every EvictEvery records.
Add(record) ==
    LET c     == record.cell
        z     == h3_res_to_zoom(Res[c])
        added == AddOps(acc, {<<t, [cell |-> c, key |-> keys[record.id]]>> :
                                t \in RowsOf(South[c], North[c], z)},
                        CoarsestMargin2)
        evict == (merged + 1) % EvictEvery = 0
    IN  /\ merged' = merged + 1
        /\ acc' = IF evict THEN Evict(added, Center[c]) ELSE added
        /\ written' = IF evict THEN written \o WriteReady(added, Center[c])
                      ELSE written

\* Nothing was spilled: the sorted buffer is used directly.
AddBuffered ==
    /\ phase = "merge" /\ runs = <<>> /\ buffer # <<>>
    /\ Add(Head(buffer))
    /\ buffer' = Tail(buffer)
    /\ UNCHANGED <<phase, pushed, total, valid, keys, runs, heads, summary>>

RecordAt(h) == runs[h.run][h.pos]

First(h) ==
    \A g \in heads \ {h} :
        ~Before(RecordAt(g), RecordAt(h)) /\ (Before(RecordAt(h), RecordAt(g)) \/ h.run < g.run)

\* The heap's top is popped and its run read on before the record is added.
MergeNext ==
    /\ phase = "merge"
    /\ \E h \in heads :
        /\ First(h)
        /\ Add(RecordAt(h))
        /\ heads' = (heads \ {h}) \cup
                      {g \in {[h EXCEPT !.pos = h.pos + 1]} : g.pos <= Len(runs[g.run])}
    /\ UNCHANGED <<phase, pushed, total, valid, keys, buffer, runs, summary>>

\* A run cannot be read, or a tile cannot be written.
BuildFails ==
    /\ phase = "merge" /\ phase' = "failed"
    /\ UNCHANGED <<pushed, total, valid, keys, buffer, runs, heads, acc, merged,
                   written, summary>>

Finish ==
    /\ phase = "merge" /\ buffer = <<>> /\ heads = {}
    /\ written' = written \o FlushAll(acc)
    /\ acc' = NewAccumulator
    /\ summary' = {[total |-> total, valid |-> valid, dropped |-> total - valid,
                    tiles |-> TileCount(written')]}
    /\ phase' = "done"
    /\ UNCHANGED <<pushed, total, valid, keys, buffer, runs, heads, merged>>

Next ==
    \/ PushInvalid \/ Build \/ AddBuffered \/ MergeNext \/ BuildFails \/ Finish
    \/ \E cell \in Cells, key \in Keys : Push(cell, key) \/ PushFails(cell, key)

Spec == Init /\ [][Next]_vars

-----------------------------------------------------------------------------
PushedOps ==
    UNION {{<<t, pushed[i]>> :
              t \in RowsOf(South[pushed[i].cell], North[pushed[i].cell],
                           h3_res_to_zoom(Res[pushed[i].cell]))} :
             i \in DOMAIN pushed}

\* Whatever the order of the pushes, the budget and the number of runs, no
\* tile is written before its last feature was merged, and a finished export
\* holds each tile once with every feature pushed to it, under the property
\* name it was pushed with; the summary counts them (push, spill, build).
ExportExact ==
    /\ NoneTorn(written, PushedOps)
    /\ phase = "done" =>
         /\ Whole(written, PushedOps)
         /\ \A s \in summary : /\ s.valid = Len(pushed)
                               /\ s.tiles = Cardinality(TilesWritten(written))
=============================================================================
