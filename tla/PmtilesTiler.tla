----------------------------- MODULE PmtilesTiler -----------------------------
(***************************************************************************)
(* Streaming a raster into a PMTiles archive (pmtiles/tiler.rs, features.rs *)
(* and overview.rs).  A producer thread drains a record streamer in batches *)
(* and sends each with the streamer's latitude horizon through a bounded    *)
(* channel; the caller's thread adds the records to tiles, writes the tiles *)
(* that no later record can touch, and at the end writes the coarse         *)
(* overview tiles and whatever is left.  Either side may fail at any step.  *)
(*                                                                         *)
(* The continuous and the categorical exporter have the same control and    *)
(* are one specification.  A record is a cell; its tiles are rows of the    *)
(* tile grid (a tile is <<zoom, row>>), since only latitudes decide when a  *)
(* tile is written.  Latitudes are integers growing to the north.           *)
(***************************************************************************)
EXTENDS TilePyramid

CONSTANTS Cells,        \* the cells the streamer delivers
          South, North, \* the latitude range of the cells and of their parents
          Res,          \* their resolution, one of Resolutions
          Resolutions,
          Compacts,     \* the values compacts_children may have
          Parent,       \* Parent[c][r]: the parent of c at resolution r
          BatchSize,    \* 8192 in the code
          ChannelCapacity  \* 4 in the code

NegInf == -1000
PosInf == 1000

MinRes == Min(Resolutions)

\* Rows have a height where cells are drawn, and a cell spans at most its
\* resolution's circle.
ASSUME TilerAssumption ==
    /\ Resolutions # {} /\ Resolutions \subseteq 0..MaxRes
    /\ BatchSize \in Nat \ {0} /\ ChannelCapacity \in Nat \ {0}
    /\ \A r \in Resolutions : /\ MaxRadius[r] \in 0..PosInf
                             /\ \A z \in DrawnZooms(r, MinRes) : RowHeight[z] \in Nat \ {0}
    /\ \A c \in Cells : /\ Res[c] \in Resolutions
                        /\ South[c] \in Int /\ North[c] \in Int
                        /\ North[c] - South[c] <= 2 * MaxRadius[Res[c]]

VARIABLES
    pending,    \* cells the streamer has not handed out
    published,  \* the streamer's latitude horizon
    producer,   \* "none", "drain", "send", "ok" or "failed"
    outgoing,   \* the batch being sent
    channel, receiver,  \* the channel and whether the receiver is still there
    pc,         \* the exporter's control state
    acc,        \* the tile accumulator
    parents,    \* the overview: the cells merged into each parent
    written,    \* the tiles handed to the archive writer, in order
    output      \* the archives at the output path: none or one

streamVars == <<pending, published>>
producerVars == <<producer, outgoing>>
channelVars == <<channel, receiver>>
tileVars == <<acc, parents, written, output>>
vars == <<streamVars, producerVars, channelVars, pc, tileVars>>

Margin2 == Max({SafetyMargin2(r) : r \in Resolutions})

\* A feature is a cell with the records merged into it; a record is drawn at
\* the zooms of its own resolution only.
CellOps(cells) ==
    UNION {{<<t, [cell |-> c, of |-> {c}]>> :
              t \in UNION {RowsOf(South[c], North[c], z) :
                             z \in DrawnZooms(Res[c], MinRes)}} : c \in cells}

-----------------------------------------------------------------------------
(* The producer thread.  What the streamer promises (DeferredOutputKept in  *)
(* HorizonStreamer) is its contract here: after a batch, every cell still   *)
(* to come reaches no further north than the horizon by its south edge, and *)
(* the horizon is -infinity once nothing is left.                           *)

Init ==
    /\ pending = Cells /\ published = PosInf
    /\ producer = "none" /\ outgoing = <<>>
    /\ channel = <<>> /\ receiver = TRUE
    /\ pc = "start"
    /\ acc = NewAccumulator /\ parents = <<>>
    /\ written = <<>> /\ output = {}

\* reject_compaction comes before the thread is started.
Start ==
    /\ pc = "start"
    /\ \/ TRUE \in Compacts /\ pc' = "failed" /\ UNCHANGED producer
       \/ FALSE \in Compacts /\ pc' = "recv" /\ producer' = "drain"
    /\ UNCHANGED <<streamVars, outgoing, channelVars, tileVars>>

Drain ==
    /\ producer = "drain" /\ pending # {}
    /\ \E cells \in SUBSET pending \ {{}}, h \in {South[c] : c \in Cells} \cup {NegInf} :
        /\ Cardinality(cells) <= BatchSize
        /\ h <= published
        /\ (h = NegInf) <=> (cells = pending)
        /\ \A c \in pending \ cells : South[c] <= h
        /\ outgoing' = <<[cells |-> cells, horizon |-> h]>>
        /\ pending' = pending \ cells
        /\ published' = h
    /\ producer' = "send"
    /\ UNCHANGED <<channelVars, pc, tileVars>>

DrainEmpty ==
    /\ producer = "drain" /\ pending = {}
    /\ producer' = "ok"
    /\ UNCHANGED <<streamVars, outgoing, channelVars, pc, tileVars>>

DrainFails ==
    /\ producer = "drain"
    /\ producer' = "failed"
    /\ UNCHANGED <<streamVars, outgoing, channelVars, pc, tileVars>>

Send ==
    /\ producer = "send" /\ receiver /\ Len(channel) < ChannelCapacity
    /\ channel' = channel \o outgoing
    /\ outgoing' = <<>> /\ producer' = "drain"
    /\ UNCHANGED <<streamVars, receiver, pc, tileVars>>

\* The receiver is gone: the thread ends without an error of its own.
SendDisconnected ==
    /\ producer = "send" /\ ~receiver
    /\ outgoing' = <<>> /\ producer' = "ok"
    /\ UNCHANGED <<streamVars, channelVars, pc, tileVars>>

ProducerEnded == producer \in {"ok", "failed"}

-----------------------------------------------------------------------------
(* The exporter.                                                           *)

\* Overview::push, for cells of the coarsest requested resolution.
PushParents(ps, cells) ==
    LET coarse == {c \in cells : Res[c] = MinRes}
        keys   == {<<r, Parent[c][r]>> : c \in coarse, r \in CoarseResolutions(MinRes)}
    IN  [k \in DOMAIN ps \cup keys |->
            (IF k \in DOMAIN ps THEN ps[k] ELSE {})
               \cup {c \in coarse : Parent[c][k[1]] = k[2]}]

\* One batch: prepared, added, and the tiles north of its horizon written.
ReceiveBatch ==
    /\ pc = "recv" /\ channel # <<>>
    /\ LET batch == Head(channel)
           added == AddOps(acc, CellOps(batch.cells), Margin2)
       IN  /\ acc' = Evict(added, batch.horizon)
           /\ parents' = PushParents(parents, batch.cells)
           /\ written' = written \o WriteReady(added, batch.horizon)
    /\ channel' = Tail(channel)
    /\ UNCHANGED <<streamVars, producerVars, receiver, pc, output>>

\* Wrong: the guard joins its thread without closing the receiver first.
ReceiveFailsOpen ==
    /\ pc = "recv" /\ channel # <<>>
    /\ pc' = "dropping"
    /\ UNCHANGED <<streamVars, producerVars, channelVars, tileVars>>

\* A spill of the overview or a write of a tile fails: the channel's guard
\* is dropped, which closes the receiver and then waits for the thread.
ReceiveFails ==
    /\ pc = "recv" /\ channel # <<>>
    /\ channel' = <<>> /\ receiver' = FALSE
    /\ pc' = "dropping"
    /\ UNCHANGED <<streamVars, producerVars, tileVars>>

DropJoins ==
    /\ pc = "dropping" /\ ProducerEnded
    /\ pc' = "failed"
    /\ UNCHANGED <<streamVars, producerVars, channelVars, tileVars>>

ReceiveDisconnected ==
    /\ pc = "recv" /\ channel = <<>> /\ ProducerEnded
    /\ receiver' = FALSE /\ pc' = "join"
    /\ UNCHANGED <<streamVars, producerVars, channel, tileVars>>

JoinProducer ==
    /\ pc = "join" /\ ProducerEnded
    /\ pc' = IF producer = "ok" THEN "overview" ELSE "failed"
    /\ UNCHANGED <<streamVars, producerVars, channelVars, tileVars>>

\* Each parent is drawn at the zooms of its resolution.
ParentTiles(key) ==
    UNION {RowsOf(South[key[2]], North[key[2]], z) :
              z \in {y \in zooms_for_h3_res(MinRes, MinRes) :
                         h3_res_for_zoom(y) = key[1]}}

OverviewOps(ps) ==
    UNION {{<<t, [cell |-> k[2], of |-> ps[k]]>> : t \in ParentTiles(k)} :
              k \in DOMAIN ps}

WriteOverview ==
    /\ pc = "overview"
    /\ written' = written \o FlushAll(AddOps(NewAccumulator, OverviewOps(parents), 0))
    /\ pc' = "flush"
    /\ UNCHANGED <<streamVars, producerVars, channelVars, acc, parents, output>>

FlushTiles ==
    /\ pc = "flush"
    /\ written' = written \o FlushAll(acc)
    /\ acc' = NewAccumulator
    /\ pc' = "finish"
    /\ UNCHANGED <<streamVars, producerVars, channelVars, parents, output>>

\* PmtilesWriter::finish renames a complete temporary file into place.
Finish ==
    /\ pc = "finish"
    /\ output' = {written} /\ pc' = "done"
    /\ UNCHANGED <<streamVars, producerVars, channelVars, acc, parents, written>>

WriteFails ==
    /\ pc \in {"overview", "flush", "finish"}
    /\ pc' = "failed"
    /\ UNCHANGED <<streamVars, producerVars, channelVars, tileVars>>

Produce == Drain \/ DrainEmpty \/ DrainFails \/ Send \/ SendDisconnected
Consume == \/ Start \/ ReceiveBatch \/ ReceiveFails \/ DropJoins
           \/ ReceiveDisconnected \/ JoinProducer \/ WriteOverview \/ FlushTiles
           \/ Finish \/ WriteFails

Next == Produce \/ Consume

\* Both threads are scheduled by the operating system.
Spec == Init /\ [][Next]_vars /\ WF_vars(Produce) /\ WF_vars(Consume)

-----------------------------------------------------------------------------
(* Properties.                                                             *)

AllOps == CellOps(Cells) \cup OverviewOps(PushParents(<<>>, Cells))

\* A tile handed to the writer is complete: no cell that belongs to it comes
\* later, however the batches were cut and whatever horizon they carried, and
\* no tile is written twice, not even by the overview (evict_and_write_tiles
\* and its safety margin).
TilesCompleteOnce == NoneTorn(written, AllOps)

\* A file appears at the output path only when both threads succeeded, and it
\* then holds every tile of every cell and of every overview parent: an error
\* of the streamer never leaves a truncated archive that looks finished.
OutputWhole ==
    \A file \in output : producer = "ok" /\ Whole(file, AllOps)

\* The tiler's archive is right, tile by tile and as a whole.
TilerExact == TilesCompleteOnce /\ OutputWhole

\* The export always ends, and with it the producer thread it started: an
\* error on one side never leaves the other blocked on the channel.
ExportEnds == <>(pc \in {"done", "failed"} /\ producer \in {"none", "ok", "failed"})
=============================================================================
