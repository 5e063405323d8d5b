----------------------------- MODULE IndexedRows ----------------------------
(***************************************************************************)
(* The device programs of rows_gather and rows_scatter                     *)
(* (src/ttnn/cpp/ttnn/operations/experimental/indexed_rows): on every core *)
(* a reader and a writer kernel share a ring of L1 entries, the rows DFB.  *)
(* NoC transfers land in any order; a barrier waits for those its kernel   *)
(* started.  Sizes are in elements: an element is a byte of the code.      *)
(***************************************************************************)
EXTENDS RowsOps

CONSTANTS Calls,         \* the calls of rows_gather and rows_scatter considered
          Unwritten,     \* what memory holds before anything is written there
          MaxChunk,      \* kMaxChunk, 64 KiB
          Granule,       \* kEntryAlign and kGranule, 64 bytes
          GroupBudget,   \* bytes of a group, 256 KiB
          MaxGroup,      \* entries of a group, 16
          BatchBudget,   \* kBatchBudget, 512 KiB
          IndexBudget,   \* words of an index chunk, 4 Ki
          SourceBudget   \* bytes of a chunk of column-mode source, 64 KiB

ASSUME SizesAssumption ==
  {MaxChunk, Granule, GroupBudget, MaxGroup, BatchBudget, IndexBudget, SourceBudget} \subseteq Nat \ {0}

\* Shapes are of natural numbers, and so are their volumes; an extent of 0 makes the volume 0.
\* A volume is the product of the extents, so of volumes of parts of the shape.
ASSUME CallsAssumption ==
  \A c \in Calls :
    /\ c.grid \in Nat \ {0}
    /\ c.table.shape \in Seq(Nat) /\ c.indices.shape \in Seq(Nat)
    /\ c.spec.column \in BOOLEAN /\ c.spec.sizes \in Seq(Nat) /\ c.spec.windows \in Seq(Nat)
    /\ RowSize(c.table) \in Nat /\ Window(c.spec) \in Nat
    /\ Volume(c.table.shape) # 0 => Last(c.table.shape) # 0
    /\ Len(c.table.shape) >= 3 /\ Len(c.indices.shape) = 3 /\ Len(c.spec.windows) >= 1 =>
         /\ Last(c.table.shape) # 0 => RowSize(c.table) % Last(c.table.shape) = 0
         /\ Volume(c.table.shape) = c.table.shape[1] * c.table.shape[2] * RowSize(c.table)
         /\ Volume(GatheredShape(c.spec, c.table, c.indices))
              = c.table.shape[1] * (c.indices.shape[3] * Window(c.spec)) * Moved(c.spec, c.table)

VARIABLES call,    \* [kind, table, indices, spec, source, reduce, grid]: grid the device's cores
          stage,   \* called, running, done or rejected
          program, \* its Geometry
          cores,   \* the work of every core
          reader, writer,  \* the kernels of every core
          ring,    \* the rows DFB of every core
          loads,   \* reads a kernel of a core has started
          stores,  \* writes the writer of a core has started
          output   \* the output tensor's elements
rowsVars == <<call, stage, program, cores, reader, writer, ring, loads, stores, output>>

CeilDiv(a, b) == (a + b - 1) \div b
Align(n) == CeilDiv(n, Granule) * Granule
Clamp(x, low, high) == Max({low, Min({x, high})})
Scatters == call.kind = "scatter"
spec == call.spec
ColumnWindow == Last(spec.windows)

\* indexed_rows_table and geometry: what the kernels are compiled with.
Chunk == Min({Last(call.table.shape), MaxChunk})
\* A mutant: no slack for a window that is moved within its granule.
EntryWithoutSlack == Align(Max({Chunk, IF spec.column THEN ColumnWindow ELSE 0}))
Entry == Align(Max({Chunk, IF spec.column THEN ColumnWindow + Granule ELSE 0}))
FullGroup == Clamp(GroupBudget \div Entry, 1, MaxGroup)

\* A scatter's batch fills the ring, a gather's ring holds two groups.  A batch is
\* whole groups: a partial one would wait for space freed after the batch only.
MostOfBatch == Max({1, BatchBudget \div Entry})
Group == IF Scatters THEN Min({FullGroup, MostOfBatch}) ELSE FullGroup
BatchUnrounded == MostOfBatch  \* a mutant
Batch == MostOfBatch - (MostOfBatch % Group)

Geometry ==
  LET R == Last(call.table.shape)
      S == RowSize(call.table) \div R
      M == call.indices.shape[3]
      W == Window(spec)
      C == CeilDiv(R, Chunk)
      words == Max({1, IndexBudget \div Len(spec.sizes)})
      fitting == IF spec.column THEN Clamp(SourceBudget \div (W * ColumnWindow), 1, words) ELSE words
  IN [B |-> call.table.shape[1], N |-> call.table.shape[2], S |-> S, R |-> R, M |-> M, W |-> W, C |-> C,
      chunk |-> Chunk, entry |-> Entry, perItem |-> IF spec.column THEN W ELSE W * S * C,
      indexBatch |-> Min({fitting, Max({M, 1})}),
      group |-> Group, batch |-> Batch, entries |-> IF Scatters THEN Batch ELSE 2 * Group]

\* validate_indexed_rows, without the checks of types, layouts and devices.
Valid ==
  LET K == Len(spec.sizes)
  IN /\ Len(call.table.shape) >= 3 /\ Len(call.indices.shape) = 3
     /\ call.indices.shape[1] \in {1, call.table.shape[1]}
     /\ K >= 1 /\ Len(spec.windows) = K /\ call.indices.shape[2] = K
     /\ \A k \in 1 .. K : spec.windows[k] \in 1 .. spec.sizes[k]
     /\ Rows(spec) = call.table.shape[2]
     /\ spec.column => Volume(SubSeq(call.table.shape, 3, Len(call.table.shape) - 1)) = 1 /\ Last(spec.sizes) = Last(call.table.shape)
     /\ Scatters => call.source.shape = GatheredShape(spec, call.table, call.indices)

NothingToDo == Volume(call.table.shape) = 0 \/ (~Scatters /\ call.indices.shape[3] = 0)

Work(g) == IF Scatters THEN g.B * g.N * g.S ELSE g.B * g.M * g.perItem
\* A mutant: the cores before that have one more are forgotten.
SplitWithoutExtra(g) ==
  LET n == Min({call.grid, Work(g)})
      each == Work(g) \div n
      more == Work(g) % n
  IN [c \in 1 .. n |-> [first |-> (c - 1) * each,
                            count |-> each + (IF c <= more THEN 1 ELSE 0)]]

\* Cores take contiguous ranges of a gather's transfers or a scatter's pages, the
\* first ones one more.
Split(g) ==
  LET n == Min({call.grid, Work(g)})
      each == Work(g) \div n
      more == Work(g) % n
  IN [c \in 1 .. n |-> [first |-> (c - 1) * each + Min({c - 1, more}),
                            count |-> each + (IF c <= more THEN 1 ELSE 0)]]

\* The program, once it is launched.
B == program.B
N == program.N
S == program.S
R == program.R
M == program.M
W == program.W
C == program.C
PerItem == program.perItem
Cores == DOMAIN cores
First(c) == cores[c].first
Count(c) == cores[c].count
Total(c) == IF Scatters THEN Count(c) * C ELSE Count(c)

-----------------------------------------------------------------------------
RowsInit ==
  /\ call \in Calls
  /\ stage = "called"
  /\ program = <<>> /\ cores = <<>> /\ reader = <<>> /\ writer = <<>> /\ ring = <<>> /\ loads = <<>> /\ stores = <<>>
  /\ output = <<>>

Reject ==
  /\ stage = "called" /\ ~Valid
  /\ stage' = "rejected"
  /\ UNCHANGED <<call, program, cores, reader, writer, ring, loads, stores, output>>

OutputVolume == Volume(IF Scatters THEN call.table.shape ELSE GatheredShape(spec, call.table, call.indices))

ReturnEmpty ==
  /\ stage = "called" /\ Valid /\ NothingToDo
  /\ stage' = "done"
  /\ UNCHANGED <<call, program, cores, reader, writer, ring, loads, stores, output>>

Launch ==
  LET FirstItem(c) == cores'[c].first \div program'.perItem IN
  /\ stage = "called" /\ Valid /\ ~NothingToDo
  /\ stage' = "running"
  /\ program' = Geometry
  /\ cores' = Split(Geometry)
  /\ output' = [x \in 0 .. OutputVolume - 1 |-> Unwritten]
  \* base .. end - 1 is the group the reader has reserved; the index chunk holds the
  \* items chunk.begin .. chunk.end - 1; moves are the realignments to do.
  /\ reader' = [c \in DOMAIN cores' |->
                  [q |-> 0, base |-> 0, end |-> 0, moves |-> {},
                   chunk |-> [begin |-> FirstItem(c), end |-> FirstItem(c)]]]
  /\ writer' = [c \in DOMAIN cores' |-> [q |-> 0, at |-> "waiting", position |-> 0, piece |-> 1]]
  /\ ring' = [c \in DOMAIN cores' |->
                [data |-> [slot \in 0 .. program'.entries |-> [x \in 0 .. program'.entry - 1 |-> Unwritten]],
                 back |-> 0, front |-> 0, filled |-> 0]]
  /\ loads' = [c \in DOMAIN cores' |-> {}]
  /\ stores' = [c \in DOMAIN cores' |-> {}]
  /\ UNCHANGED call

\* Slot program.entries of a ring's memory is the scatter writer's scratch entry.
Scratch == program.entries
Copied(memory, to, values, from, n) ==
  [x \in DOMAIN memory |-> IF x \in to .. to + n - 1 THEN values[from + x - to] ELSE memory[x]]

-----------------------------------------------------------------------------
(* The readers. *)

ReserveGroup(c) ==
  LET r == reader[c]
      count == Min({Total(c) - r.q, program.group})
  IN /\ r.q = r.end /\ r.base = r.end /\ count > 0
     /\ program.entries - ring[c].filled >= count
     /\ reader' = [reader EXCEPT ![c].end = r.q + count]
     /\ UNCHANGED <<call, stage, program, cores, writer, ring, loads, stores, output>>

Item(c) == (First(c) + reader[c].q) \div PerItem
NeedsIndex(c) == ~Scatters /\ Item(c) >= reader[c].chunk.end

\* stream_index: the next positions, of one batch, of this core's items.
StreamIndex(c) ==
  LET item == Item(c)
      endItem == (First(c) + Count(c) - 1) \div PerItem + 1
      n == Min({endItem - item, program.indexBatch, M - (item % M)})
  IN /\ reader[c].q < reader[c].end /\ NeedsIndex(c)
     /\ reader' = [reader EXCEPT ![c].chunk = [begin |-> item, end |-> item + n]]
     /\ UNCHANGED <<call, stage, program, cores, writer, ring, loads, stores, output>>

Load(kernel, slot, at, tensor, from, n) ==
  [kernel |-> kernel, slot |-> slot, at |-> at, tensor |-> tensor, from |-> from, n |-> n]

\* What the gather's reader does for its transfer: where in the table it reads, or
\* nothing (zeros), where in the entry that lands and where the writer wants it.
Gathered(c) ==
  LET item == Item(c)
      t == (First(c) + reader[c].q) % PerItem
      begin == reader[c].chunk.begin
      words == Words(call.indices, begin \div M, (begin % M) + item - begin)
      zeros == spec.fill /\ OutOfBounds(spec, words, Len(words))
      b == item \div M
  IN IF spec.column
     THEN LET offset == Clamped(spec, Len(words), Last(words))
              to == (((item % M) * W + t) * ColumnWindow) % Granule
          IN [from |-> (b * N + WindowRow(spec, words, t)) * R + offset, n |-> ColumnWindow,
              at |-> IF zeros THEN to ELSE offset % Granule, to |-> to, zeros |-> zeros]
     ELSE LET page == (b * N + WindowRow(spec, words, t \div (S * C))) * S + ((t \div C) % S)
              offset == (t % C) * program.chunk
          IN [from |-> page * R + offset, n |-> Min({R - offset, program.chunk}), at |-> 0, to |-> 0, zeros |-> zeros]
Streamed(c) ==
  LET q == reader[c].q
      offset == (q % C) * program.chunk
  IN [from |-> (First(c) + q \div C) * R + offset, n |-> Min({R - offset, program.chunk}),
      at |-> 0, to |-> 0, zeros |-> FALSE]

IssueRead(c) ==
  LET r == reader[c]
      slot == ring[c].back + r.q - r.base
      transfer == IF Scatters THEN Streamed(c) ELSE Gathered(c)
  IN /\ r.q < r.end /\ ~NeedsIndex(c)
     /\ reader' = [reader EXCEPT
          ![c].q = @ + 1,
          ![c].moves = @ \cup {[slot |-> slot, from |-> transfer.at, to |-> transfer.to, n |-> transfer.n]}]
     /\ IF transfer.zeros
        THEN /\ ring' = [ring EXCEPT ![c].data[slot] =
                           Copied(@, transfer.at, [i \in 0 .. transfer.n - 1 |-> <<>>], 0, transfer.n)]
             /\ UNCHANGED loads
        ELSE /\ loads' = [loads EXCEPT ![c] = @ \cup
                            {Load("reader", slot, transfer.at, "table", transfer.from, transfer.n)}]
             /\ UNCHANGED ring
     /\ UNCHANGED <<call, stage, program, cores, writer, stores, output>>

LandedAtOnce(c, kernel) == TRUE  \* a mutant
Landed(c, kernel) == \A load \in loads[c] : load.kernel # kernel

\* After the barrier: realign the entries and push the group.
PushGroup(c) ==
  LET r == reader[c]
      count == r.end - r.base
      Realigned(slot, memory) ==
        LET moves == {move \in r.moves : move.slot = slot}
        IN IF moves = {} THEN memory
           ELSE LET move == CHOOSE move \in moves : TRUE
                IN Copied(memory, move.to, memory, move.from, move.n)
  IN /\ r.q = r.end /\ r.base < r.end
     /\ Landed(c, "reader")
     /\ reader' = [reader EXCEPT ![c].base = r.end, ![c].moves = {}]
     /\ ring' = [ring EXCEPT ![c] =
          [data |-> [slot \in DOMAIN @.data |-> Realigned(slot, @.data[slot])],
           back |-> (@.back + count) % program.entries, front |-> @.front, filled |-> @.filled + count]]
     /\ UNCHANGED <<call, stage, program, cores, writer, loads, stores, output>>

-----------------------------------------------------------------------------
(* The writers.  A gather's stores the groups the reader pushed; a         *)
(* scatter's takes a batch, applies the updates that land in it and stores *)
(* it once.                                                                *)

Pushed(c) == Min({Total(c) - writer[c].q, IF Scatters THEN program.batch ELSE program.group})
Store(slot, at, n, to) == [slot |-> slot, at |-> at, n |-> n, to |-> to, sent |-> FALSE, data |-> <<>>]

\* Where transfer q of a gather, or chunk q of a scatter's pages, goes.
GatherStore(c, q, slot) ==
  LET item == (First(c) + q) \div PerItem
      t == (First(c) + q) % PerItem
      offset == IF spec.column THEN ((item % M) * W + t) * ColumnWindow ELSE (t % C) * program.chunk
  IN IF spec.column
     THEN Store(slot, offset % Granule, ColumnWindow, (item \div M) * (M * W * ColumnWindow) + offset)
     ELSE Store(slot, 0, Min({R - offset, program.chunk}),
                ((item * W + t \div (S * C)) * S + ((t \div C) % S)) * R + offset)
ScatterStore(c, q, slot) ==
  LET offset == (q % C) * program.chunk
  IN Store(slot, 0, Min({R - offset, program.chunk}), (First(c) + q \div C) * R + offset)

StoreAll(c, StoreOf(_, _, _)) ==
  /\ stores' = [stores EXCEPT ![c] = @ \cup
       {StoreOf(c, writer[c].q + i, ring[c].front + i) : i \in 0 .. Pushed(c) - 1}]
  /\ writer' = [writer EXCEPT ![c].at = "storing"]
  /\ UNCHANGED <<call, stage, program, cores, reader, ring, loads, output>>

StoreGroup(c) ==
  /\ ~Scatters
  /\ writer[c].at = "waiting" /\ Pushed(c) > 0 /\ ring[c].filled >= Pushed(c)
  /\ StoreAll(c, GatherStore)

\* A gather's entries are free when their data has left (async_writes_flushed), a
\* scatter's when it has landed (async_write_barrier).
PopEntries(c) ==
  /\ writer[c].at = "storing"
  /\ IF Scatters THEN stores[c] = {} ELSE \A store \in stores[c] : store.sent
  /\ ring' = [ring EXCEPT ![c].front = (@ + Pushed(c)) % program.entries, ![c].filled = @ - Pushed(c)]
  /\ writer' = [writer EXCEPT ![c].at = "waiting", ![c].q = @ + Pushed(c)]
  /\ UNCHANGED <<call, stage, program, cores, reader, loads, stores, output>>

FinishWriter(c) ==
  /\ writer[c].at = "waiting" /\ writer[c].q >= Total(c) /\ stores[c] = {}
  /\ writer' = [writer EXCEPT ![c].at = "done"]
  /\ UNCHANGED <<call, stage, program, cores, reader, ring, loads, stores, output>>

-----------------------------------------------------------------------------
\* The batches of the table that this core's pages are in; positions are numbered
\* b * M + m.
FirstPosition(c) == (First(c) \div (N * S)) * M
EndPosition(c) == ((First(c) + Count(c) - 1) \div (N * S) + 1) * M

TakeBatch(c) ==
  /\ Scatters
  /\ writer[c].at = "waiting" /\ Pushed(c) > 0 /\ ring[c].filled >= Pushed(c)
  /\ writer' = [writer EXCEPT ![c].at = "updating", ![c].position = FirstPosition(c)]
  /\ UNCHANGED <<call, stage, program, cores, reader, ring, loads, stores, output>>

\* in_batch: chunk offset \div program.chunk of a page is one of the batch's.
ChunkOf(c, page, offset) == (page - First(c)) * C + offset \div program.chunk
InBatch(c, page, offset) ==
  /\ page \in First(c) .. First(c) + Count(c) - 1
  /\ ChunkOf(c, page, offset) \in writer[c].q .. writer[c].q + Pushed(c) - 1
BatchPages(c) ==
  First(c) + writer[c].q \div C .. First(c) + CeilDiv(writer[c].q + Pushed(c), C) - 1

\* The parts of a position's update that land in the batch, in the order of the
\* code's loops over window offset j, page s of the row and chunk k of the page:
\* what part of which entry, and from where in the source.
Pieces(c) ==
  LET position == writer[c].position
      b == position \div M
      words == Words(call.indices, b, position % M)
      Piece(x) ==
        LET j == x \div (S * C)
            s == (x \div C) % S
            k == x % C
            page == (b * N + WindowRow(spec, words, j)) * S + s
            start == IF spec.column THEN Clamped(spec, Len(words), Last(words)) ELSE 0
            end == IF spec.column THEN start + ColumnWindow ELSE R
            low == Max({start, k * program.chunk})
            high == Min({end, (k + 1) * program.chunk})
            source == IF spec.column THEN (position * W + j) * ColumnWindow ELSE ((position * W + j) * S + s) * R
        IN [lands |-> low < high /\ InBatch(c, page, k * program.chunk) /\ (spec.column \/ page \in BatchPages(c)),
            slot |-> ring[c].front + ChunkOf(c, page, k * program.chunk) - writer[c].q,
            at |-> low % program.chunk, n |-> high - low, from |-> source + low - start]
  IN IF OutOfBounds(spec, words, Len(words)) THEN <<>>
     ELSE SelectSeq([i \in 1 .. W * S * C |-> Piece(i - 1)], LAMBDA piece : piece.lands)

UpdatesLeft(c) == writer[c].at = "updating" /\ writer[c].position < EndPosition(c)
Updated(memory, piece, values, from, Combine(_, _)) ==
  [x \in DOMAIN memory |->
     IF x \in piece.at .. piece.at + piece.n - 1
     THEN Combine(memory[x], values[from + x - piece.at]) ELSE memory[x]]
\* Elements are the sequences of what was combined into them.
Reduced(x, y) == IF call.reduce THEN x \o y ELSE y

\* Column windows come from the source chunk, already in L1.
ApplyWindows(c) ==
  LET Apply(data, piece) ==
        [data EXCEPT ![piece.slot] = Updated(@, piece, call.source.data, piece.from, Reduced)]
  IN /\ UpdatesLeft(c) /\ spec.column
     /\ ring' = [ring EXCEPT ![c].data = FoldLeft(Apply, @, Pieces(c))]
     /\ writer' = [writer EXCEPT ![c].position = @ + 1]
     /\ UNCHANGED <<call, stage, program, cores, reader, loads, stores, output>>

\* An overwrite is read straight into the entries, with one barrier per position.
ReadOverwrite(c) ==
  /\ UpdatesLeft(c) /\ ~spec.column /\ ~call.reduce
  /\ loads' = [loads EXCEPT ![c] = @ \cup
       {Load("writer", Pieces(c)[i].slot, Pieces(c)[i].at, "source", Pieces(c)[i].from, Pieces(c)[i].n) :
          i \in DOMAIN Pieces(c)}]
  /\ writer' = [writer EXCEPT ![c].at = "landing"]
  /\ UNCHANGED <<call, stage, program, cores, reader, ring, stores, output>>
FinishOverwrite(c) ==
  /\ writer[c].at = "landing" /\ ~call.reduce
  /\ Landed(c, "writer")
  /\ writer' = [writer EXCEPT ![c].at = "updating", ![c].position = @ + 1]
  /\ UNCHANGED <<call, stage, program, cores, reader, ring, loads, stores, output>>

\* A reduction reads each part into the scratch entry, waits and combines it.
ReadReduction(c) ==
  LET i == writer[c].piece
      piece == Pieces(c)[i]
  IN /\ UpdatesLeft(c) /\ ~spec.column /\ call.reduce /\ i <= Len(Pieces(c))
     /\ loads' = [loads EXCEPT ![c] = @ \cup {Load("writer", Scratch, 0, "source", piece.from, piece.n)}]
     /\ writer' = [writer EXCEPT ![c].at = "landing"]
     /\ UNCHANGED <<call, stage, program, cores, reader, ring, stores, output>>
ApplyReduction(c) ==
  LET piece == Pieces(c)[writer[c].piece]
  IN /\ writer[c].at = "landing" /\ call.reduce
     /\ Landed(c, "writer")
     /\ ring' = [ring EXCEPT ![c].data[piece.slot] =
                   Updated(@, piece, ring[c].data[Scratch], 0, Reduced)]
     /\ writer' = [writer EXCEPT ![c].at = "updating", ![c].piece = @ + 1]
     /\ UNCHANGED <<call, stage, program, cores, reader, loads, stores, output>>
FinishReduction(c) ==
  /\ UpdatesLeft(c) /\ ~spec.column /\ call.reduce /\ writer[c].piece > Len(Pieces(c))
  /\ writer' = [writer EXCEPT ![c].position = @ + 1, ![c].piece = 1]
  /\ UNCHANGED <<call, stage, program, cores, reader, ring, loads, stores, output>>

StoreBatch(c) ==
  /\ writer[c].at = "updating" /\ writer[c].position >= EndPosition(c)
  /\ StoreAll(c, ScatterStore)

-----------------------------------------------------------------------------
(* The NoC: a read lands; a write's data leaves L1, and lands in DRAM.     *)

LandRead(c) ==
  \E load \in loads[c] :
    /\ loads' = [loads EXCEPT ![c] = @ \ {load}]
    /\ ring' = [ring EXCEPT ![c].data[load.slot] =
                  Copied(@, load.at, call[load.tensor].data, load.from, load.n)]
    /\ UNCHANGED <<call, stage, program, cores, reader, writer, stores, output>>

SendWrite(c) ==
  \E store \in stores[c] :
    /\ ~store.sent
    /\ stores' = [stores EXCEPT ![c] =
         (@ \ {store}) \cup
         {[store EXCEPT !.sent = TRUE,
                        !.data = [i \in 0 .. store.n - 1 |-> ring[c].data[store.slot][store.at + i]]]}]
    /\ UNCHANGED <<call, stage, program, cores, reader, writer, ring, loads, output>>

\* Writes are of different places (GoesOutOnce), so the order they land in is not
\* seen: one by one, from the lowest.
LandWrite(c) ==
  \E store \in stores[c] :
    /\ store.sent /\ \A other \in stores[c] : other.sent => store.to <= other.to
    /\ stores' = [stores EXCEPT ![c] = @ \ {store}]
    /\ output' = Copied(output, store.to, store.data, 0, store.n)
    /\ UNCHANGED <<call, stage, program, cores, reader, writer, ring, loads>>

Complete ==
  /\ stage = "running"
  /\ \A c \in Cores : writer[c].at = "done" /\ reader[c].base = Total(c)
  /\ stage' = "done"
  /\ UNCHANGED <<call, program, cores, reader, writer, ring, loads, stores, output>>

Stopped == stage \in {"done", "rejected"} /\ UNCHANGED rowsVars

Core(c) ==
  \/ ReserveGroup(c) \/ StreamIndex(c) \/ IssueRead(c) \/ PushGroup(c)
  \/ StoreGroup(c) \/ PopEntries(c) \/ FinishWriter(c)
  \/ TakeBatch(c) \/ ApplyWindows(c) \/ ReadOverwrite(c) \/ FinishOverwrite(c)
  \/ ReadReduction(c) \/ ApplyReduction(c) \/ FinishReduction(c) \/ StoreBatch(c)
  \/ LandRead(c) \/ SendWrite(c) \/ LandWrite(c)

RowsNext ==
  \/ Reject \/ ReturnEmpty \/ Launch \/ Complete \/ Stopped
  \/ stage = "running" /\ \E c \in Cores : Core(c)

RowsSpec == RowsInit /\ [][RowsNext]_rowsVars

-----------------------------------------------------------------------------
\* A program ends with what the operation promises: updates of a position in order,
\* duplicates in position order, whatever the cores, chunks, groups and batches
\* (rows_scatter_writer.cpp:9 "duplicates apply in position order").
Promised ==
  IF Scatters
  THEN RowsScatter(call.table, call.indices, call.source, spec, Reduced)
  ELSE RowsGather(call.table, call.indices, spec, <<>>)
EndsAsPromised == stage = "done" => output = Promised.data

\* Transfers stay within the ring's entries and the tensors: ranges of entries never
\* run past the ring's end, windows moved to their place in an entry fit in it.
TransfersStayInside ==
  stage = "running" => \A c \in Cores :
    /\ \A load \in loads[c] :
         /\ load.slot \in (IF load.kernel = "writer" THEN 0 .. Scratch ELSE 0 .. program.entries - 1)
         /\ load.at + load.n <= program.entry
         /\ load.from + load.n <= Volume(call[load.tensor].shape)
    /\ \A move \in reader[c].moves : move.to + move.n <= program.entry
    /\ \A store \in stores[c] : store.slot < program.entries /\ store.at + store.n <= program.entry

\* Every element goes out once, from one core ("Every output page is owned by one core",
\* rows_scatter_writer.cpp:8): a write under way is to a place in the output that nothing
\* was written to and no other write is under way to.
GoesOutOnce(c, store) ==
  /\ \A x \in store.to .. store.to + store.n - 1 : x \in DOMAIN output /\ output[x] = Unwritten
  /\ \A d \in Cores : \A other \in stores[d] :
       <<d, other>> = <<c, store>> \/ other.to + other.n <= store.to \/ store.to + store.n <= other.to
ElementsGoOutOnce ==
  stage = "running" => \A c \in Cores : \A store \in stores[c] : GoesOutOnce(c, store)

\* Reader and writer never wait for each other: the one for free entries, the other
\* for pushed ones ("a partial group at the end of the buffer would wait for space the
\* writer only frees after the full batch", indexed_rows_program_factory.cpp:265).
WaitsForSpace(c) ==
  LET r == reader[c] IN r.base = r.end /\ program.entries - ring[c].filled < Min({Total(c) - r.q, program.group})
WaitsForEntries(c) == writer[c].at = "waiting" /\ ring[c].filled < Pushed(c)
NeverWaitForEachOther ==
  stage = "running" => \A c \in Cores : ~(WaitsForSpace(c) /\ WaitsForEntries(c))
=============================================================================
