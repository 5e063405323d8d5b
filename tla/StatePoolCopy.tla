--------------------------- MODULE StatePoolCopy ----------------------------
(***************************************************************************)
(* state_pool_copy (src/ttnn/cpp/ttnn/operations/transformer): copies      *)
(* slots of a pool to other slots of it, in place, page by page.  The      *)
(* pages of all pairs are dealt to workers; a worker has two buffers, so   *)
(* that a read overlaps the previous page's write.                         *)
(***************************************************************************)
EXTENDS Integers, Sequences, FiniteSets

CONSTANTS PoolCalls, \* the calls considered
          FaceWidth  \* rows and columns of a face of a tile, 16

\* The pairs of a call that are copied, and the ones that write a slot.
Pairs(c) == {i \in DOMAIN c.sources : c.sources[i] # 0 /\ c.targets[i] # 0}
Into(c, slot) == {i \in Pairs(c) : c.targets[i] = slot}

\* "The sources and targets must be disjoint" (state_pool_copy.hpp:12), they are slots of
\* the pool, and no slot is the target of different sources.
ASSUME PoolCopyAssumption ==
  /\ FaceWidth \in Nat \ {0}
  /\ \A c \in PoolCalls :
       /\ c.slots \in Nat /\ c.pages_per_slot \in Nat \ {0} /\ c.cores \in Nat \ {0}
       /\ c.sources \in Seq(Nat) /\ c.targets \in Seq(Nat)
       /\ Len(c.sources) = Len(c.targets) =>
            \A i, j \in Pairs(c) :
              /\ c.sources[i] < c.slots /\ c.targets[i] < c.slots
              /\ c.sources[i] # c.targets[j]
              /\ c.targets[i] = c.targets[j] => c.sources[i] = c.sources[j]

VARIABLES poolCall, poolStage,
          pool,      \* the page of the pool before the call that each page holds now
          worker,    \* per worker its loop: the page to copy and the buffer to use
          buffers,   \* data_cb: what a worker's two buffers hold
          writes     \* writes under way, by worker: from which buffer to which page

poolVars == <<poolCall, poolStage, pool, worker, buffers, writes>>

MaxPairs == 2 * FaceWidth
BufferedPages == 2
Workers == DOMAIN worker

\* validate_on_program_cache_miss.
ValidCopy(c) == c.supported /\ Len(c.sources) \in 1 .. MaxPairs /\ Len(c.targets) = Len(c.sources) /\ c.rank >= 3

PoolInit ==
  /\ poolCall \in PoolCalls
  /\ poolStage = "validating"
  /\ pool = <<>> /\ worker = <<>> /\ buffers = <<>> /\ writes = <<>>

RejectCopy ==
  /\ poolStage = "validating" /\ ~ValidCopy(poolCall)
  /\ poolStage' = "rejected"
  /\ UNCHANGED <<poolCall, pool, worker, buffers, writes>>

\* create_descriptor: no more workers than pages to copy.
TotalPages == Len(poolCall.sources) * poolCall.pages_per_slot
LaunchCopy ==
  LET workers == 0 .. (IF TotalPages < poolCall.cores THEN TotalPages ELSE poolCall.cores) - 1
  IN /\ poolStage = "validating" /\ ValidCopy(poolCall)
     /\ poolStage' = "running"
     /\ pool' = [page \in 0 .. poolCall.slots * poolCall.pages_per_slot - 1 |-> page]
     /\ worker' = [w \in workers |-> [work |-> w, buffer |-> 0, reading |-> FALSE]]
     /\ buffers' = [w \in workers |-> [b \in 0 .. BufferedPages - 1 |-> 0]]
     /\ writes' = [w \in workers |-> {}]
     /\ UNCHANGED poolCall

\* A vector as its tile holds it: row 0 of a tile of two by two faces, one after another.
Tiled(slots) ==
  [at \in 0 .. 4 * FaceWidth * FaceWidth - 1 |->
     LET face == at \div (FaceWidth * FaceWidth)
         row == FaceWidth * (face \div 2) + ((at \div FaceWidth) % FaceWidth)
         column == FaceWidth * (face % 2) + (at % FaceWidth)
     IN IF row = 0 /\ column < Len(slots) THEN slots[column + 1] ELSE 0]
\* read_slot: element i of the vector in a tile.
ReadSlot(tile, i) == tile[(i \div FaceWidth) * FaceWidth * FaceWidth + (i % FaceWidth)]

Pair(w) == worker[w].work \div poolCall.pages_per_slot
Source(w) == ReadSlot(Tiled(poolCall.sources), Pair(w))
Target(w) == ReadSlot(Tiled(poolCall.targets), Pair(w))
Page(w, slot) == slot * poolCall.pages_per_slot + (worker[w].work % poolCall.pages_per_slot)
More(w) == worker[w].work < TotalPages
Skipped(w) == Source(w) = 0 \/ Target(w) = 0
Advanced(w) == worker[w].work + Cardinality(Workers)

SkipPage(w) ==
  /\ More(w) /\ Skipped(w)
  /\ worker' = [worker EXCEPT ![w].work = Advanced(w)]
  /\ UNCHANGED <<poolCall, poolStage, pool, buffers, writes>>

\* A mutant: without the barrier.
BufferTaken(w) == TRUE
\* Before the first buffer is used again all writes have landed.
BufferLeft(w) == worker[w].buffer = 0 => writes[w] = {}

\* The read and its barrier.
ReadPage(w) ==
  /\ More(w) /\ ~Skipped(w) /\ ~worker[w].reading /\ BufferLeft(w)
  /\ buffers' = [buffers EXCEPT ![w][worker[w].buffer] = pool[Page(w, Source(w))]]
  /\ worker' = [worker EXCEPT ![w].reading = TRUE]
  /\ UNCHANGED <<poolCall, poolStage, pool, writes>>

StartWrite(w) ==
  /\ worker[w].reading
  /\ writes' = [writes EXCEPT ![w] = @ \cup
       {[buffer |-> worker[w].buffer, page |-> Page(w, Target(w))]}]
  /\ worker' = [worker EXCEPT ![w] = [work |-> Advanced(w), buffer |-> (@.buffer + 1) % BufferedPages, reading |-> FALSE]]
  /\ UNCHANGED <<poolCall, poolStage, pool, buffers>>

WriteLands(w) ==
  \E write \in writes[w] :
    /\ pool' = [pool EXCEPT ![write.page] = buffers[w][write.buffer]]
    /\ writes' = [writes EXCEPT ![w] = @ \ {write}]
    /\ UNCHANGED <<poolCall, poolStage, worker, buffers>>

\* Every worker ends with a barrier.
CompleteCopy ==
  /\ poolStage = "running" /\ \A w \in Workers : ~More(w) /\ writes[w] = {}
  /\ poolStage' = "done"
  /\ UNCHANGED <<poolCall, pool, worker, buffers, writes>>
CopyStopped == poolStage \in {"done", "rejected"} /\ UNCHANGED poolVars

PoolNext ==
  \/ RejectCopy \/ LaunchCopy \/ CompleteCopy \/ CopyStopped
  \/ poolStage = "running" /\ \E w \in Workers : SkipPage(w) \/ ReadPage(w) \/ StartWrite(w) \/ WriteLands(w)
PoolSpec == PoolInit /\ [][PoolNext]_poolVars

-----------------------------------------------------------------------------
\* A page of a target slot ends as its source's page was, and all others as they were: "a
\* pair with slot 0 on either side is skipped" (state_pool_copy.hpp:11), and a buffer is
\* not filled again before "the write that last used this buffer" has left it.
CopiesThePairs ==
  poolStage = "done" => \A slot \in 0 .. poolCall.slots - 1, page \in 0 .. poolCall.pages_per_slot - 1 :
    LET pairs == Into(poolCall, slot)
        from == IF pairs = {} THEN slot ELSE poolCall.sources[CHOOSE i \in pairs : TRUE]
    IN pool[slot * poolCall.pages_per_slot + page] = from * poolCall.pages_per_slot + page
=============================================================================
