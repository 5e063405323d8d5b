-------------------------- MODULE MCDevicePrograms --------------------------
(***************************************************************************)
(* The device programs of the repository's own operations, each on calls   *)
(* of its own: rows_gather and rows_scatter (IndexedRows), TopK's          *)
(* selection (TopKSelect), quantize_rows (QuantizeRows) and                *)
(* state_pool_copy (StatePoolCopy).                                        *)
(***************************************************************************)
EXTENDS IndexedRows, StatePoolCopy, TopKSelect

CONSTANTS Infinity, NotANumber, ChunkTiles

VARIABLES operation,
          phase, compute, in, part, shares, tells, gather, done, out, scale, q, scales

-----------------------------------------------------------------------------
D == INSTANCE DeviceCalls
Garbage == D!Garbage
RowsCalls == D!RowsCalls
PoolCopies == D!PoolCopies
TopKCalls == D!TopKCalls

Q == INSTANCE QuantizeRows WITH Calls <- D!QuantizeCalls, Unwritten <- Infinity - 1,
                                MaxCores <- D!MostCores, stage <- phase

OfRows == <<stage, program, cores, ring, loads, stores>>
OfTopK == <<selectCall, selectStage, doing, row, staged, sending, candidates, tiles, merge_sem, owner_sem, selected>>
OfQuantize == <<compute, in, part, shares, tells, gather, done, out, scale, q, scales>>
OfPool == poolVars

NoRows == stage = "none" /\ program = <<>> /\ cores = <<>> /\ ring = <<>> /\ loads = <<>> /\ stores = <<>>
NoTopK ==
  /\ selectCall = <<>> /\ selectStage = "none" /\ doing = <<>> /\ row = <<>> /\ staged = <<>> /\ sending = <<>>
  /\ candidates = <<>> /\ tiles = <<>> /\ merge_sem = <<>> /\ owner_sem = <<>> /\ selected = <<>>
NoQuantize ==
  /\ compute = <<>> /\ in = <<>> /\ part = <<>> /\ shares = <<>> /\ tells = <<>> /\ gather = <<>>
  /\ done = <<>> /\ out = <<>> /\ scale = <<>> /\ q = <<>> /\ scales = <<>>
NoPool == poolCall = <<>> /\ poolStage = "none" /\ pool = <<>> /\ worker = <<>> /\ buffers = <<>> /\ writes = <<>>

ProgramsInit ==
  \/ /\ operation = "rows" /\ RowsInit
     /\ NoTopK /\ NoQuantize /\ NoPool /\ plan = <<>> /\ phase = "none"
  \/ /\ operation = "topk" /\ SelectInit
     /\ NoRows /\ NoQuantize /\ NoPool /\ phase = "none"
     /\ call = <<>> /\ reader = <<>> /\ writer = <<>> /\ output = <<>>
  \/ /\ operation = "quantize_rows" /\ Q!Init
     /\ NoRows /\ NoTopK /\ NoPool /\ output = <<>>
  \/ /\ operation = "state_pool_copy" /\ PoolInit
     /\ NoRows /\ NoTopK /\ NoQuantize /\ plan = <<>> /\ phase = "none"
     /\ call = <<>> /\ reader = <<>> /\ writer = <<>> /\ output = <<>>

ProgramsNext ==
  \/ operation = "rows" /\ RowsNext /\ UNCHANGED <<operation, OfTopK, OfQuantize, OfPool, plan, phase>>
  \/ operation = "topk" /\ SelectNext /\ UNCHANGED <<operation, rowsVars, OfQuantize, OfPool, phase>>
  \/ operation = "quantize_rows" /\ Q!Next /\ UNCHANGED <<operation, OfRows, OfTopK, OfPool, output>>
  \/ operation = "state_pool_copy" /\ PoolNext
     /\ UNCHANGED <<operation, rowsVars, OfTopK, OfQuantize, plan, phase>>

ProgramsSpec ==
  ProgramsInit /\ [][ProgramsNext]_<<operation, rowsVars, OfTopK, OfQuantize, OfPool, plan, phase>>

\* QuantizeRows's QuantizesByRow.
QuantizesByRow == operation = "quantize_rows" => Q!QuantizesByRow
=============================================================================
