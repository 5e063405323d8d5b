----------------------------- MODULE TopKSelect -----------------------------
(***************************************************************************)
(* TopK's selection path (src/ttnn/cpp/ttnn/operations/reduction/topk):    *)
(* the plan, and the kernel on its cores.  A tile row's cores take column  *)
(* segments and groups of rows; each keeps the best k of its rows of its   *)
(* segment, the group's first-segment core (the merger) merges the         *)
(* segments, and the tile row's first core (the owner) writes the rows     *)
(* out.  Writes from core to core land in any order; a barrier waits for   *)
(* the core's own.                                                         *)
(***************************************************************************)
EXTENDS Integers, SequencesExt

CONSTANTS SelectCalls,    \* the calls considered
          Blank,          \* what L1 and DRAM hold before anything is written there
          TileSize,       \* rows and columns of a tile, 32, a multiple of 4; a face is half of each
          Bits,           \* bits of a key, 32, an even number
          MaxK,           \* max_k, 64
          NarrowTiles,    \* the width in tiles below which few calls are taken, 32
          MaxFaceRows,    \* face rows a core may hold, max_input_bytes / face_row_read_bytes
          MaxCandidates   \* candidates a merger may hold, max_candidate_bytes / candidate_bytes

ASSUME SelectAssumption ==
  /\ TileSize \in Nat \ {0} /\ MaxCandidates \in Nat
  /\ \A c \in SelectCalls :
       c.slabs \in Nat /\ c.height \in Nat /\ c.width \in Nat /\ c.k \in Nat /\ c.cores \in Nat

VARIABLES selectCall,     \* what is called
          selectStage,    \* planning, running, done or elsewhere (the sort networks)
          plan,           \* TopKSelectPlan
          doing,          \* where each core's kernel is
          row,            \* its loop variable, a row of its tile row
          staged,         \* its cb_rows: a list or a finished row per slot
          sending,        \* its writes under way, by the row they are of
          candidates,     \* its cb_candidates: lists by slot and segment
          tiles,          \* its cb_values and cb_indices
          merge_sem, owner_sem,
          selected        \* the output tensors, by page

selectVars == <<selectCall, selectStage, plan, doing, row, staged, sending, candidates, tiles, merge_sem, owner_sem, selected>>

DivUp(a, b) == (a + b - 1) \div b
Face == TileSize \div 2

-----------------------------------------------------------------------------
(* The plan.                                                               *)

None == [cores |-> 0]
ListStride(k) == 2 * DivUp(k, 2)
Height(c) == DivUp(c.height, TileSize)
Width(c) == DivUp(c.width, TileSize)
TileRows(c) == c.slabs * Height(c)

\* What the sort networks do well.
BetterSorted(c) == Width(c) < NarrowTiles /\ (TileRows(c) > 2 \/ c.k > TileSize)

\* topk_select_plan.
PlanOf(c) ==
  LET per_tile_row == c.cores \div TileRows(c)
      rows == IF Height(c) = 1 THEN c.height ELSE TileSize
      wanted == Max({1, Min({per_tile_row \div rows, Width(c), MaxCandidates \div ListStride(c.k)})})
      segment_tiles == DivUp(Width(c), wanted)
      segments == DivUp(Width(c), segment_tiles)
      row_groups == Min({rows, per_tile_row \div segments})
      rows_per_core == DivUp(rows, row_groups)
  IN IF \/ ~c.supported \/ c.k \notin 1 .. MaxK \/ c.k > c.width
        \/ TileRows(c) = 0 \/ TileRows(c) > c.cores
        \/ BetterSorted(c)
     THEN None
     ELSE IF rows_per_core * segment_tiles * 2 > MaxFaceRows THEN None
     ELSE [segments |-> segments, segment_tiles |-> segment_tiles, row_groups |-> row_groups,
           rows_per_core |-> rows_per_core, cores |-> TileRows(c) * segments * row_groups]

\* create_descriptor's runtime arguments of core i.
PerTileRow == plan.segments * plan.row_groups
SelectCores == 0 .. plan.cores - 1
TileRow(i) == i \div PerTileRow
GroupOf(i) == (i % PerTileRow) % plan.row_groups
SegmentOf(i) == (i % PerTileRow) \div plan.row_groups
OwnerOf(i) == TileRow(i) * PerTileRow
MergerOf(i) == OwnerOf(i) + GroupOf(i)
KTiles == DivUp(selectCall.k, TileSize)

-----------------------------------------------------------------------------
(* The kernel's view of its input.                                         *)

\* key_of and bits_of: IEEE total order, reversed for the smallest k.
Half == 2^(Bits - 1)
Flipped(key) == 2^Bits - 1 - key
Ordered(bits) == IF bits >= Half THEN Flipped(bits) ELSE bits + Half
KeyOf(bits) == IF selectCall.largest THEN Ordered(bits) ELSE Flipped(Ordered(bits))
BitsOf(key) ==
  LET ordered == IF selectCall.largest THEN key ELSE Flipped(key)
  IN IF ordered >= Half THEN ordered - Half ELSE Flipped(ordered)

\* A BF16 value is the upper half of the word its key is made of.
Widening == IF selectCall.bf16 THEN 2^(Bits \div 2) ELSE 1

Better(x, y) == x.key > y.key \/ (x.key = y.key /\ x.index < y.index)
NoIndex == 2^Bits - 1

\* Element (r, c) of a tile is in one of its four faces; a kernel reads face rows.
FaceRow(r, half) == ((r \div Face) * 2 + half) * Face * Face + (r % Face) * Face
RowsOfTile(tile_row) ==
  LET base == (tile_row % Height(selectCall)) * TileSize
  IN IF base + TileSize <= selectCall.height THEN TileSize ELSE selectCall.height - base

\* What the input's page holds at an offset: an element, or padding.
InputAt(page, offset) ==
  LET face == offset \div (Face * Face)
      tile_row == page \div Width(selectCall)
      r == (tile_row % Height(selectCall)) * TileSize + (face \div 2) * Face + ((offset % (Face * Face)) \div Face)
      c == (page % Width(selectCall)) * TileSize + (face % 2) * Face + (offset % Face)
  IN IF r < selectCall.height /\ c < selectCall.width THEN selectCall.data[tile_row \div Height(selectCall), r, c] ELSE selectCall.padding

\* The e-th element of a chunk: reads start at a multiple of read_bytes, for BF16 a
\* pair of face rows.
ReadAt(page, r, half, e) ==
  LET pair == 2 * Face
  IN IF selectCall.bf16
     THEN InputAt(page, (FaceRow(r, half) \div pair) * pair + ((r % 2) * Face) + e)
     ELSE InputAt(page, FaceRow(r, half) + e)

\* The elements core i scans for a row, in order.
Scanned(i, r) ==
  LET first == SegmentOf(i) * plan.segment_tiles
      last == Min({first + plan.segment_tiles, Width(selectCall)})
      count == Min({last * TileSize, selectCall.width}) - first * TileSize
      Element(x) ==
        LET col == first * TileSize + x
        IN [key |-> KeyOf(Widening * ReadAt(TileRow(i) * Width(selectCall) + col \div TileSize, r,
                                            (col % TileSize) \div Face, col % Face)),
            index |-> col]
  IN [x \in 1 .. count |-> Element(x - 1)]

\* insert: above the entries it is better than; a full list's last entry is dropped.
Insert(list, candidate) ==
  LET kept == SubSeq(list, 1, Min({Len(list), selectCall.k - 1}))
  IN SelectSeq(kept, LAMBDA entry : ~Better(candidate, entry)) \o <<candidate>>
     \o SelectSeq(kept, LAMBDA entry : Better(candidate, entry))

\* An element enters the list while it is short, then above the threshold.
Enters(list, candidate) == Len(list) < selectCall.k \/ candidate.key > list[Len(list)].key

Padded(list) == [j \in 1 .. selectCall.k |-> IF j <= Len(list) THEN list[j] ELSE [key |-> 0, index |-> NoIndex]]
Selected(i, r) ==
  Padded(FoldLeft(LAMBDA list, candidate : IF Enters(list, candidate) THEN Insert(list, candidate) ELSE list,
                  <<>>, Scanned(i, r)))

\* Merging: a list's first candidate that does not beat the k-th ends it.
Merged(lists) ==
  LET Take(best, list) ==
        LET step[j \in 0 .. selectCall.k] ==
              IF j = 0 THEN [best |-> best, going |-> TRUE]
              ELSE LET before == step[j - 1]
                       going == before.going /\ Better(list[j], before.best[selectCall.k])
                   IN [best |-> IF going THEN Insert(before.best, list[j]) ELSE before.best, going |-> going]
        IN step[selectCall.k].best
      all[s \in 0 .. plan.segments - 1] == IF s = 0 THEN lists[0] ELSE Take(all[s - 1], lists[s])
  IN all[plan.segments - 1]

\* write_row: the row's chunks in the owner's tiles; past k they hold zeros.
Row(best) ==
  [j \in 0 .. KTiles * TileSize - 1 |->
     IF j < selectCall.k THEN [value |-> BitsOf(best[j + 1].key) \div Widening, index |-> best[j + 1].index]
                   ELSE [value |-> 0, index |-> 0]]
ChunkPlace(r, j) ==
  (j \div TileSize) * TileSize * TileSize + FaceRow(r, (j % TileSize) \div Face) + (j % Face)
Zero == [value |-> 0, index |-> 0]

\* zero_padding_rows: ranges of the faces below the tile row's rows.
ZeroedPlaces(rows) ==
  LET Area == Face * Face
      ranges == IF rows < Face
                THEN {[from |-> face * Area + rows * Face, n |-> (Face - rows) * Face] : face \in {0, 1}}
                     \cup {[from |-> 2 * Area, n |-> 2 * Area]}
                ELSE IF rows < TileSize
                THEN {[from |-> face * Area + (rows - Face) * Face, n |-> (TileSize - rows) * Face] : face \in {2, 3}}
                ELSE {}
  IN UNION {{tile * 4 * Area + x : x \in range.from .. range.from + range.n - 1} :
              tile \in 0 .. KTiles - 1, range \in ranges}

-----------------------------------------------------------------------------
SelectInit ==
  /\ selectCall \in SelectCalls
  /\ selectStage = "planning" /\ plan = None
  /\ doing = <<>> /\ row = <<>> /\ staged = <<>> /\ sending = <<>> /\ candidates = <<>> /\ tiles = <<>>
  /\ merge_sem = <<>> /\ owner_sem = <<>> /\ selected = <<>>

\* select_program_factory: a call the plan does not take goes to the sort networks.
GoElsewhere ==
  /\ selectStage = "planning" /\ PlanOf(selectCall) = None
  /\ selectStage' = "elsewhere"
  /\ UNCHANGED <<selectCall, plan, doing, row, staged, sending, candidates, tiles, merge_sem, owner_sem, selected>>

LaunchSelect ==
  /\ selectStage = "planning" /\ PlanOf(selectCall) # None
  /\ selectStage' = "running"
  /\ plan' = PlanOf(selectCall)
  /\ doing' = [i \in SelectCores' |-> "starting"]
  /\ row' = [i \in SelectCores' |-> GroupOf(i)']
  /\ staged' = [i \in SelectCores' |-> [slot \in 0 .. plan'.rows_per_core - 1 |-> Blank]]
  /\ sending' = [i \in SelectCores' |-> {}]
  /\ candidates' = [i \in SelectCores' |->
       [place \in (0 .. plan'.rows_per_core - 1) \X (0 .. plan'.segments - 1) |-> Blank]]
  /\ tiles' = [i \in SelectCores' |-> [x \in 0 .. KTiles * TileSize * TileSize - 1 |-> Blank]]
  /\ merge_sem' = [i \in SelectCores' |-> 0] /\ owner_sem' = [i \in SelectCores' |-> 0]
  /\ selected' = [tile_row \in 0 .. TileRows(selectCall) - 1 |-> Blank]
  /\ UNCHANGED selectCall

Merger(i) == SegmentOf(i) = 0
Owner(i) == Merger(i) /\ GroupOf(i) = 0
Slot(i) == (row[i] - GroupOf(i)) \div plan.row_groups
RowsLeft(i) == row[i] < RowsOfTile(TileRow(i))

ZeroPaddingRows(i) ==
  /\ doing[i] = "starting"
  /\ tiles' = IF Owner(i)
              THEN [tiles EXCEPT ![i] = [x \in DOMAIN @ |->
                      IF x \in ZeroedPlaces(RowsOfTile(TileRow(i))) THEN Zero ELSE @[x]]]
              ELSE tiles
  /\ doing' = [doing EXCEPT ![i] = "selecting"]
  /\ UNCHANGED <<selectCall, selectStage, plan, row, staged, sending, candidates, merge_sem, owner_sem, selected>>

\* Stages a list or a finished row in the row's slot and starts its write.
Send(i, what) ==
  /\ staged' = [staged EXCEPT ![i][Slot(i)] = what]
  /\ sending' = [sending EXCEPT ![i] = @ \cup {[row |-> row[i], slot |-> Slot(i), merged |-> what.finished]}]
  /\ row' = [row EXCEPT ![i] = @ + plan.row_groups]
  /\ UNCHANGED <<selectCall, selectStage, plan, doing, candidates, tiles, merge_sem, owner_sem, selected>>
FinishedRow(best) == [finished |-> TRUE, content |-> Row(best)]

SelectRow(i) ==
  /\ doing[i] = "selecting" /\ RowsLeft(i)
  /\ LET best == Selected(i, row[i])
     IN Send(i, IF plan.segments = 1 THEN FinishedRow(best) ELSE [finished |-> FALSE, content |-> best])

\* A mutant: the barrier is left out.
BarrierLeftOut(i) == TRUE
\* noc_async_write_barrier: the core's writes have landed.
Barrier(i) == sending[i] = {}

AfterRows(i) == IF Owner(i) THEN "collecting" ELSE "telling owner"
FinishSelecting(i) ==
  /\ doing[i] = "selecting" /\ ~RowsLeft(i) /\ Barrier(i)
  /\ doing' = [doing EXCEPT ![i] = IF plan.segments = 1 THEN AfterRows(i)
                             ELSE IF Merger(i) THEN "waiting" ELSE "telling merger"]
  /\ UNCHANGED <<selectCall, selectStage, plan, row, staged, sending, candidates, tiles, merge_sem, owner_sem, selected>>

\* noc_semaphore_inc and the return.
TellMerger(i) ==
  /\ doing[i] = "telling merger"
  /\ merge_sem' = [merge_sem EXCEPT ![MergerOf(i)] = @ + 1]
  /\ doing' = [doing EXCEPT ![i] = "done"]
  /\ UNCHANGED <<selectCall, selectStage, plan, row, staged, sending, candidates, tiles, owner_sem, selected>>
TellOwner(i) ==
  /\ doing[i] = "telling owner"
  /\ owner_sem' = [owner_sem EXCEPT ![OwnerOf(i)] = @ + 1]
  /\ doing' = [doing EXCEPT ![i] = "done"]
  /\ UNCHANGED <<selectCall, selectStage, plan, row, staged, sending, candidates, tiles, merge_sem, selected>>

\* noc_semaphore_wait: the value is the one waited for, not at least it.
WaitForSegments(i) ==
  /\ doing[i] = "waiting" /\ merge_sem[i] = plan.segments - 1
  /\ doing' = [doing EXCEPT ![i] = "resetting"]
  /\ UNCHANGED <<selectCall, selectStage, plan, row, staged, sending, candidates, tiles, merge_sem, owner_sem, selected>>
\* A mutant: the value to wait for is set in place of zero.
AfterWaitLeft(sem, i) == [sem EXCEPT ![i] = plan.segments - 1]
\* noc_semaphore_set(sem, 0).
AfterWait(sem, i) == [sem EXCEPT ![i] = 0]
StartMerging(i) ==
  /\ doing[i] = "resetting"
  /\ merge_sem' = AfterWait(merge_sem, i)
  /\ row' = [row EXCEPT ![i] = GroupOf(i)]
  /\ doing' = [doing EXCEPT ![i] = "merging"]
  /\ UNCHANGED <<selectCall, selectStage, plan, staged, sending, candidates, tiles, owner_sem, selected>>

Arrived(i) == [s \in 0 .. plan.segments - 1 |-> candidates[i][Slot(i), s]]
MergeRow(i) ==
  /\ doing[i] = "merging" /\ RowsLeft(i)
  /\ Send(i, FinishedRow(Merged(Arrived(i))))
FinishMerging(i) ==
  /\ doing[i] = "merging" /\ ~RowsLeft(i) /\ Barrier(i)
  /\ doing' = [doing EXCEPT ![i] = AfterRows(i)]
  /\ UNCHANGED <<selectCall, selectStage, plan, row, staged, sending, candidates, tiles, merge_sem, owner_sem, selected>>

\* With one group there is nobody to wait for, and zero is what the semaphore has.
WaitForGroups(i) ==
  /\ doing[i] = "collecting" /\ owner_sem[i] = plan.row_groups - 1
  /\ doing' = [doing EXCEPT ![i] = "storing"]
  /\ UNCHANGED <<selectCall, selectStage, plan, row, staged, sending, candidates, tiles, merge_sem, owner_sem, selected>>
StoreTiles(i) ==
  /\ doing[i] = "storing"
  /\ owner_sem' = AfterWait(owner_sem, i)
  /\ selected' = [selected EXCEPT ![TileRow(i)] = tiles[i]]
  /\ doing' = [doing EXCEPT ![i] = "done"]
  /\ UNCHANGED <<selectCall, selectStage, plan, row, staged, sending, candidates, tiles, merge_sem>>

\* The NoC: what a slot holds when a write of it leaves lands at the merger or the owner.
SendLands(i) ==
  \E write \in sending[i] :
    LET what == staged[i][write.slot].content
    IN /\ sending' = [sending EXCEPT ![i] = @ \ {write}]
       /\ IF write.merged
          THEN /\ tiles' = [tiles EXCEPT ![OwnerOf(i)] = [x \in DOMAIN @ |->
                      IF \E j \in DOMAIN what : ChunkPlace(write.row, j) = x
                      THEN what[CHOOSE j \in DOMAIN what : ChunkPlace(write.row, j) = x] ELSE @[x]]]
               /\ UNCHANGED candidates
          ELSE /\ candidates' = [candidates EXCEPT ![MergerOf(i)][<<write.slot, SegmentOf(i)>>] = what]
               /\ UNCHANGED tiles
       /\ UNCHANGED <<selectCall, selectStage, plan, doing, row, staged, merge_sem, owner_sem, selected>>

CompleteSelect ==
  /\ selectStage = "running" /\ \A i \in SelectCores : doing[i] = "done"
  /\ selectStage' = "done"
  /\ UNCHANGED <<selectCall, plan, doing, row, staged, sending, candidates, tiles, merge_sem, owner_sem, selected>>
SelectStopped == selectStage \in {"done", "elsewhere"} /\ UNCHANGED selectVars

SelectCore(i) ==
  \/ ZeroPaddingRows(i) \/ SelectRow(i) \/ FinishSelecting(i) \/ TellMerger(i) \/ TellOwner(i)
  \/ WaitForSegments(i) \/ StartMerging(i) \/ MergeRow(i) \/ FinishMerging(i)
  \/ WaitForGroups(i) \/ StoreTiles(i) \/ SendLands(i)

SelectNext ==
  \/ GoElsewhere \/ LaunchSelect \/ CompleteSelect \/ SelectStopped
  \/ selectStage = "running" /\ \E i \in SelectCores : SelectCore(i)

SelectSpec == SelectInit /\ [][SelectNext]_selectVars

-----------------------------------------------------------------------------
\* The j-th best of a row, counted from 0: by key, then by the lower index.
Best(slab, r, j) ==
  LET all == {[key |-> KeyOf(Widening * selectCall.data[slab, r, c]), index |-> c] : c \in 0 .. selectCall.width - 1}
  IN CHOOSE x \in all : Cardinality({y \in all : Better(y, x)}) = j

\* The output has every row's best k in order, the lower index first among equal keys,
\* and zeros elsewhere (topk_select.cpp:17-20 and 99-100), however the row was split:
\* no core reads candidates or rows that have not arrived, and none is overwritten.
SelectsTheBest ==
  selectStage = "done" => \A tile_row \in DOMAIN selected, r \in 0 .. TileSize - 1, j \in 0 .. KTiles * TileSize - 1 :
    LET slab == tile_row \div Height(selectCall)
        best == Best(slab, (tile_row % Height(selectCall)) * TileSize + r, j)
    IN selected[tile_row][ChunkPlace(r, j)] =
         IF r < RowsOfTile(tile_row) /\ j < selectCall.k
         THEN [value |-> selectCall.data[slab, (tile_row % Height(selectCall)) * TileSize + r, best.index], index |-> best.index]
         ELSE Zero

\* Semaphores end at zero, so that the program's next run does not start with counts
\* of this one, and cores that return early have been counted.
SemaphoresEndAtZero ==
  selectStage = "done" => \A i \in SelectCores : merge_sem[i] = 0 /\ owner_sem[i] = 0
=============================================================================
