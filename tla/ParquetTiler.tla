----------------------------- MODULE ParquetTiler -----------------------------
(***************************************************************************)
(* transcode/parquet_tiler.rs: a Parquet file of H3 cells turned into tiles *)
(* row group by row group.  A first pass reads each group's H3 column and   *)
(* keeps its extent; the groups are then visited from north to south, and   *)
(* after each the tiles north of everything still to come are written.  A   *)
(* row is a cell, or Null for a value that is no H3 cell.                    *)
(*                                                                         *)
(* The first pass finds the H3 column among the leaf columns of the schema, *)
(* the second takes the field at that position among the top-level fields: *)
(* they differ when a nested column comes first.                           *)
(***************************************************************************)
EXTENDS TilePyramid

CONSTANTS Cells, South, North, Res,
          Null,
          Files     \* the row groups to try: sequences of sequences of rows

VARIABLES phase,    \* "scan", "rows", "done" or "failed"
          groups,   \* the file
          nested,   \* a nested column stands before the H3 column
          scanned,  \* groups scanned so far
          extents,  \* the extents found, then the schedule
          at,       \* the group being read
          counts, acc, written,
          drawn     \* ghost: the rows <<group, row>> that became features

vars == <<phase, groups, nested, scanned, extents, at, counts, acc, written, drawn>>

CellsOf(rows) == {rows[i] : i \in DOMAIN rows} \ {Null}

Init ==
    /\ phase = "scan" /\ groups \in Files /\ nested \in BOOLEAN
    /\ scanned = 0 /\ extents = <<>> /\ drawn = {}
    /\ at = 0 /\ counts = [total |-> 0, valid |-> 0, dropped |-> 0]
    /\ acc = NewAccumulator /\ written = <<>>

\* scan_row_group_h3_extent: a group with no cell has no extent.
Extent(g) ==
    [ group   |-> g,
      max_lat |-> Max({North[c] : c \in CellsOf(groups[g])}),
      min_res |-> Min({Res[c] : c \in CellsOf(groups[g])}) ]

Scan ==
    /\ phase = "scan" /\ scanned < Len(groups)
    /\ scanned' = scanned + 1
    /\ extents' = IF CellsOf(groups[scanned']) = {} THEN extents
                  ELSE Append(extents, Extent(scanned'))
    /\ UNCHANGED <<phase, groups, nested, at, counts, acc, written, drawn>>

\* A group whose column cannot be read is left out without an error.
ScanFails ==
    /\ phase = "scan" /\ scanned < Len(groups)
    /\ scanned' = scanned + 1
    /\ UNCHANGED <<phase, groups, nested, extents, at, counts, acc, written, drawn>>

NorthFirst(es) ==
    FoldFunction(LAMBDA e, out :
                   SelectSeq(out, LAMBDA x : x.max_lat >= e.max_lat) \o <<e>>
                     \o SelectSeq(out, LAMBDA x : x.max_lat < e.max_lat),
                 <<>>, es)

\* With nothing to draw an empty archive is written.
Schedule ==
    /\ phase = "scan" /\ scanned = Len(groups)
    /\ extents' = NorthFirst(extents)
    /\ phase' = IF extents = <<>> THEN "done" ELSE "rows"
    /\ UNCHANGED <<groups, nested, scanned, at, counts, acc, written, drawn>>

FileMargin2 == SafetyMargin2(Min({extents[i].min_res : i \in DOMAIN extents}))

SouthPole == -90

FutureHorizon(k) ==
    Max({SouthPole} \cup {extents[i].max_lat : i \in (k + 1)..Len(extents)})

OpsOf(cells) ==
    UNION {{<<t, c>> : t \in RowsOf(South[c], North[c], h3_res_to_zoom(Res[c]))} :
             c \in cells}

\* What the second pass finds in the rows of a group: nothing in a row it
\* cannot decode, and no H3 value when it looks at another field.
Decoded(rows, lost) ==
    [i \in DOMAIN rows |-> IF i \in lost \/ nested THEN Null ELSE rows[i]]

\* One row group; a row without a cell is dropped and counted.
ReadGroup ==
    /\ phase = "rows" /\ at < Len(extents)
    /\ at' = at + 1
    /\ \E lost \in SUBSET DOMAIN groups[extents[at'].group] :
         LET g     == extents[at'].group
             rows  == Decoded(groups[g], lost)
             valid == {i \in DOMAIN rows : rows[i] # Null}
             added == AddOps(acc, OpsOf(CellsOf(rows)), FileMargin2)
         IN  /\ acc' = Evict(added, FutureHorizon(at'))
             /\ written' = written \o WriteReady(added, FutureHorizon(at'))
             /\ counts' = [ total   |-> counts.total + Len(rows),
                            valid   |-> counts.valid + Cardinality(valid),
                            dropped |-> counts.dropped + Cardinality(DOMAIN rows \ valid) ]
             /\ drawn' = drawn \cup ({g} \X valid)
    /\ UNCHANGED <<phase, groups, nested, scanned, extents>>

ReadFails ==
    /\ phase = "rows" /\ phase' = "failed"
    /\ UNCHANGED <<groups, nested, scanned, extents, at, counts, acc, written, drawn>>

Finish ==
    /\ phase = "rows" /\ at = Len(extents)
    /\ written' = written \o FlushAll(acc) /\ acc' = NewAccumulator
    /\ phase' = "done"
    /\ UNCHANGED <<groups, nested, scanned, extents, at, counts, drawn>>

Next == Scan \/ ScanFails \/ Schedule \/ ReadGroup \/ ReadFails \/ Finish

Spec == Init /\ [][Next]_vars

-----------------------------------------------------------------------------
DrawnOps == OpsOf({groups[d[1]][d[2]] : d \in drawn})

ScheduledRows ==
    UNION {{extents[i].group} \X DOMAIN groups[extents[i].group] : i \in DOMAIN extents}

\* Row groups may overlap in latitude and come in any order, and any row may
\* fail to decode: a tile is still written once, after the last group that
\* reaches it (future_horizons); a finished archive holds exactly the rows that
\* gave a cell, and the summary says how many rows of the scheduled groups did
\* and how many are missing from it.
GroupsExact ==
    /\ NoneTorn(written, DrawnOps)
    /\ phase = "done" =>
         /\ Whole(written, DrawnOps)
         /\ counts = [ total   |-> Cardinality(ScheduledRows),
                       valid   |-> Cardinality(drawn),
                       dropped |-> Cardinality(ScheduledRows \ drawn) ]
=============================================================================
