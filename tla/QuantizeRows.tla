---------------------------- MODULE QuantizeRows ----------------------------
(***************************************************************************)
(* quantize_rows (src/ttnn/cpp/ttnn/operations/experimental/quantize_rows):*)
(* a tile row split over cores, which trade row maxima, each with all the  *)
(* others, and divide by the scales made of them.  Per core a reader, a    *)
(* compute and a writer kernel share ring buffers.                         *)
(*                                                                         *)
(* A tile in memory is 64 face rows, of four faces of 16 rows; the 16      *)
(* elements of a face row are two here, one for its even and one for its   *)
(* odd columns, the two vectors of the SFPU that they are in.  Numbers are *)
(* integers, ordered as the bits of |x| are; a quotient is the pair of its *)
(* operands.                                                               *)
(***************************************************************************)
EXTENDS Integers, SequencesExt

CONSTANTS Calls,       \* the calls considered
          Unwritten,   \* what memory holds before anything is written there
          Infinity, NotANumber, \* above all numbers, the second above the first
          MaxCores,    \* the cores worth having, by the stride: 48 or 32
          ChunkTiles   \* chunk_tiles, 3

VARIABLES call, stage, plan,
          reader,   \* per core, where its reader is
          compute,  \* and its compute kernel, and the first tile of its chunk
          writer,   \* and its writer, and the first tile of its chunk
          in, part, \* in_dfb and part_dfb
          shares,   \* copies of its row maxima under way, by the core they go to
          tells,    \* cores it has yet to count itself on
          gather,   \* gather_dfb, which other cores write to
          done,     \* its semaphore
          out,      \* out_dfb: a ring of tiles
          scale,    \* scale_dfb of the first core
          q, scales \* the outputs

vars == <<call, stage, plan, reader, compute, writer, in, part, shares, tells, gather, done, out, scale, q, scales>>

CeilDiv(a, b) == (a + b - 1) \div b
Face(f) == 16 * f
NoTile == [at \in 0 .. 63 |-> <<Unwritten, Unwritten>>]

-----------------------------------------------------------------------------
(* quantize_rows_plan.                                                     *)

StrideOf(rows) == IF rows <= 4 THEN 4 ELSE IF rows <= 8 THEN 8 ELSE IF rows <= 16 THEN 16 ELSE 32
\* The smallest rectangle, widest first, with a core for every share.
Rectangle(c, limit, dense) ==
  LET per_core == CeilDiv(dense, limit)
      wanted == CeilDiv(dense, per_core)
      Smaller(best, h) ==
        LET w == CeilDiv(wanted, h)
        IN IF w <= c.grid_x /\ w * h < best.width * best.height THEN [width |-> w, height |-> h] ELSE best
  IN FoldLeft(Smaller, [width |-> c.grid_x, height |-> c.grid_y], [h \in 1 .. c.grid_y |-> h])
LimitOf(c, dense, stride) == Max({1, Min({dense, MaxCores[stride], c.grid_x * c.grid_y})})
PlanOf(c) ==
  LET stride == StrideOf(c.rows)
      pack == 32 \div stride
      dense == CeilDiv(c.tiles, pack)
      rectangle == Rectangle(c, LimitOf(c, dense, stride), dense)
  IN [stride |-> stride, pack |-> pack, dense |-> dense, cores |-> rectangle.width * rectangle.height]

Cores == 0 .. plan.cores - 1
GatherTiles == CeilDiv(plan.cores * plan.stride, 64)

\* create_program_artifacts: the first cores' runs are one longer.
Base == plan.dense \div plan.cores
Extra == plan.dense % plan.cores
NumDense(i) == Base + (IF i < Extra THEN 1 ELSE 0)
FirstDense(i) == i * Base + Min({i, Extra})
LastCount(i) == Min({plan.pack, call.tiles - (FirstDense(i) + NumDense(i) - 1) * plan.pack})
Count(i, d) == IF d + 1 = NumDense(i) THEN LastCount(i) ELSE plan.pack

-----------------------------------------------------------------------------
(* The compute kernel's tiles: vector v of a tile in DST holds, at i, what *)
(* row 4 * (v's band) + i has in its columns.                              *)

Vec(f, b, parity) == f * 8 + b * 2 + parity
BandVec(g, f, parity) == Vec((IF g < 4 THEN 0 ELSE 2) + f, g % 4, parity)
AccVec(band) == BandVec(band, 0, 0)
Groups == plan.stride \div 4

Unpacked(memory) == [v \in 0 .. 31 |-> [i \in 0 .. 3 |-> memory[(v \div 2) * 4 + i][1 + (v % 2)]]]
Packed(tile) == [at \in 0 .. 63 |-> [p \in 1 .. 2 |-> tile[(at \div 4) * 2 + p - 1][at % 4]]]

Abs(x) == IF x < 0 THEN -x ELSE x

\* zero_acc, fold_absmax over the dense tiles' first bands, finish_partial: accumulator
\* band b has, at i, the maximum of its row, in both column groups of its left face.
Bands(i, d) == (Count(i, d) * plan.stride) \div 4
Folded(i, band, r) ==
  Max({0} \cup {Abs(Unpacked(in[i][d])[BandVec(g, half, parity)][r]) :
                  <<d, g, half, parity>> \in
                    {x \in (0 .. NumDense(i) - 1) \X (0 .. 7) \X (0 .. 1) \X (0 .. 1) :
                       x[2] < Bands(i, x[1]) /\ x[2] % Groups = band}})
Maxima(i) ==
  Packed([v \in 0 .. 31 |-> [r \in 0 .. 3 |->
            IF \E band \in 0 .. Groups - 1 : v \in {AccVec(band), AccVec(band) + 1}
            THEN Folded(i, CHOOSE band \in 0 .. Groups - 1 : v \in {AccVec(band), AccVec(band) + 1}, r)
            ELSE Unwritten]])

\* The bands of a gather tile that hold maxima.
ValidBands(tile) == Min({plan.cores * Groups - 16 * tile, 16})

\* The SFPU's divide of a NaN is infinite; fp8_max is one.
Divided(x) == IF x > Infinity THEN Infinity ELSE x
ScaleOf(amax) == IF amax > Infinity THEN NotANumber ELSE Max({Divided(amax), call.min_scale})

\* make_divisor: zero_acc, fold_gather over the gather tiles, stage_scale, divide_staged
\* and spread_scale, to all bands and columns.
Divisor(i) ==
  LET Tile(t) == Unpacked([at \in 0 .. 63 |-> gather[i][64 * t + at]])
      Acc(band, r) ==
        Max({0} \cup {Tile(x[1])[Vec(x[2] \div 4, x[2] % 4, 0)][r] :
                        x \in {x \in (0 .. GatherTiles - 1) \X (0 .. 15) :
                                 x[2] < ValidBands(x[1]) /\ x[2] % Groups = band}})
      Band(v) == (v \div 16) * 4 + ((v \div 2) % 4)
  IN [v \in 0 .. 31 |-> [r \in 0 .. 3 |-> ScaleOf(Acc(Band(v) % Groups, r))]]

\* gather_rows and scatter_rows: the first rows of each band in whole vectors.
Transposed(v) == [j \in 0 .. 3 |-> [i \in 0 .. 3 |-> v[i][j]]]
BandOf(tile, b) == [j \in 0 .. 3 |-> tile[BandVec(b, j \div 2, j % 2)]]
GatherRows(tile, real) ==
  LET Gathered(t, b) ==
        [v \in 0 .. 31 |-> IF v \in b * real .. b * real + real - 1 THEN Transposed(BandOf(t, b))[v - b * real] ELSE t[v]]
  IN FoldLeft(Gathered, tile, [b \in 1 .. 8 |-> b - 1])
\* The last band first.
ScatterRows(tile, real) ==
  LET Scattered(t, b) ==
        LET vectors == Transposed([j \in 0 .. 3 |-> t[b * real + (IF j < real THEN j ELSE 0)]])
        IN [v \in 0 .. 31 |->
              IF \E j \in 0 .. 3 : v = BandVec(b, j \div 2, j % 2)
              THEN vectors[CHOOSE j \in 0 .. 3 : v = BandVec(b, j \div 2, j % 2)] ELSE t[v]]
  IN FoldLeft(Scattered, tile, [b \in 1 .. 8 |-> 8 - b])

Quotient(x, d) == <<x, d>>
DividedVectors(tile, divisor, n) ==
  [v \in 0 .. 31 |-> IF v < n THEN [r \in 0 .. 3 |-> Quotient(tile[v][r], divisor[v][r])] ELSE tile[v]]

\* quantize_tiles, of all 32 rows: with one or two data rows of every four, those alone.
Gathers == call.rows <= 2
Quantized(memory, divisor) ==
  IF Gathers
  THEN Packed(ScatterRows(DividedVectors(GatherRows(Unpacked(memory), call.rows), GatherRows(divisor, call.rows),
                                         8 * call.rows), call.rows))
  ELSE Packed(DividedVectors(Unpacked(memory), divisor, 32))
ScaleTile(divisor) == Packed(IF Gathers THEN ScatterRows(GatherRows(divisor, call.rows), call.rows) ELSE divisor)

-----------------------------------------------------------------------------
Init ==
  /\ call \in Calls
  /\ stage = "validating" /\ plan = <<>>
  /\ reader = <<>> /\ compute = <<>> /\ writer = <<>> /\ in = <<>> /\ part = <<>> /\ shares = <<>> /\ tells = <<>>
  /\ gather = <<>> /\ done = <<>> /\ out = <<>> /\ scale = <<>> /\ q = <<>> /\ scales = <<>>

\* validate_on_program_cache_miss.
Valid(c) == c.supported /\ c.rows \in 1 .. 32 /\ c.tiles >= 1
Reject ==
  /\ stage = "validating" /\ ~Valid(call)
  /\ stage' = "rejected"
  /\ UNCHANGED <<call, plan, reader, compute, writer, in, part, shares, tells, gather, done, out, scale, q, scales>>

Launch ==
  /\ stage = "validating" /\ Valid(call)
  /\ stage' = "running"
  /\ plan' = PlanOf(call)
  /\ reader' = [i \in Cores' |-> "reading"]
  /\ compute' = [i \in Cores' |-> [at |-> "folding", first |-> 0]]
  /\ writer' = [i \in Cores' |-> [at |-> "waiting", first |-> 0]]
  /\ in' = [i \in Cores' |-> <<>>]
  /\ part' = [i \in Cores' |-> <<>>]
  /\ shares' = [i \in Cores' |-> {}] /\ tells' = [i \in Cores' |-> {}]
  /\ gather' = [i \in Cores' |-> [at \in 0 .. GatherTiles' * 64 - 1 |-> <<Unwritten, Unwritten>>]]
  /\ done' = [i \in Cores' |-> 0]
  /\ out' = [i \in Cores' |-> [data |-> [e \in 0 .. 2 * ChunkTiles - 1 |-> NoTile], back |-> 0, front |-> 0, filled |-> 0]]
  /\ scale' = <<>>
  /\ q' = [page \in 0 .. call.tiles - 1 |-> NoTile]
  /\ scales' = NoTile
  /\ UNCHANGED call

-----------------------------------------------------------------------------
(* The reader.                                                             *)

\* Where face row at of half f of input tile jj is in its dense tile.
DenseAt(jj) == LET r0 == jj * plan.stride IN Face(IF r0 < 16 THEN 0 ELSE 2) + (r0 % 16)
Inside(at, from) == at \in from .. from + plan.stride - 1

ReadDense(i, d) ==
  LET Page(jj) == call.data[(FirstDense(i) + d) * plan.pack + jj]
      Holds(jj, f, at) == Inside(at, DenseAt(jj) + Face(f))
  IN IF plan.pack = 1 THEN Page(0)
     ELSE [at \in 0 .. 63 |->
             IF \E jj \in 0 .. Count(i, d) - 1, f \in 0 .. 1 : Holds(jj, f, at)
             THEN LET x == CHOOSE x \in (0 .. Count(i, d) - 1) \X (0 .. 1) : Holds(x[1], x[2], at)
                  IN Page(x[1])[Face(x[2]) + at - DenseAt(x[1]) - Face(x[2])]
             ELSE <<Unwritten, Unwritten>>]

\* Reads of the tiles, the barrier and the push.
ReadTiles(i) ==
  /\ reader[i] = "reading"
  /\ in' = [in EXCEPT ![i] = [d \in 0 .. NumDense(i) - 1 |-> ReadDense(i, d)]]
  /\ reader' = [reader EXCEPT ![i] = "sharing"]
  /\ UNCHANGED <<call, stage, plan, compute, writer, part, shares, tells, gather, done, out, scale, q, scales>>

\* part_dfb.wait_front, and a copy of the maxima to every core.
Share(i) ==
  /\ reader[i] = "sharing" /\ part[i] # <<>>
  /\ shares' = [shares EXCEPT ![i] = Cores]
  /\ reader' = [reader EXCEPT ![i] = "shared"]
  /\ UNCHANGED <<call, stage, plan, compute, writer, in, part, tells, gather, done, out, scale, q, scales>>

\* The rows of a core's slot: of the left faces, 16 of each.
SlotRow(memory, row) == memory[Face(IF row < 16 THEN 0 ELSE 2) + (row % 16)]
\* Copies go to different places, so the order they land in is not seen.
LandShare(i) ==
  /\ shares[i] # {}
  /\ LET to == Min(shares[i])
     IN /\ shares' = [shares EXCEPT ![i] = @ \ {to}]
        /\ gather' = [gather EXCEPT ![to] = [at \in DOMAIN @ |->
             IF Inside(at, i * plan.stride) THEN SlotRow(part[i], at - i * plan.stride) ELSE @[at]]]
  /\ UNCHANGED <<call, stage, plan, reader, compute, writer, in, part, tells, done, out, scale, q, scales>>

\* A mutant: without the barrier.
SharedAtOnce(i) == TRUE
\* async_write_barrier: every copy acknowledged before any core is told.
Shared(i) == shares[i] = {}
Tell(i) ==
  /\ reader[i] = "shared" /\ Shared(i)
  /\ tells' = [tells EXCEPT ![i] = Cores \ {i}]
  /\ reader' = [reader EXCEPT ![i] = "counting"]
  /\ UNCHANGED <<call, stage, plan, compute, writer, in, part, shares, gather, done, out, scale, q, scales>>

\* Increments arrive at any time, also after the reader waits.
CountItself(i) ==
  /\ tells[i] # {}
  /\ LET to == Min(tells[i])
     IN /\ tells' = [tells EXCEPT ![i] = @ \ {to}]
        /\ done' = [done EXCEPT ![to] = @ + 1]
  /\ UNCHANGED <<call, stage, plan, reader, compute, writer, in, part, shares, gather, out, scale, q, scales>>

\* done.wait and done.set: the reader alone waits, for exactly all others.
PushGather(i) ==
  /\ reader[i] = "counting" /\ done[i] = plan.cores - 1
  /\ done' = [done EXCEPT ![i] = 0]
  /\ reader' = [reader EXCEPT ![i] = "pushed"]
  /\ UNCHANGED <<call, stage, plan, compute, writer, in, part, shares, tells, gather, out, scale, q, scales>>

\* noc_async_atomic_barrier: its own increments have arrived.
FinishReader(i) ==
  /\ reader[i] = "pushed" /\ tells[i] = {}
  /\ reader' = [reader EXCEPT ![i] = "done"]
  /\ UNCHANGED <<call, stage, plan, compute, writer, in, part, shares, tells, gather, done, out, scale, q, scales>>

-----------------------------------------------------------------------------
(* The compute kernel and the writer.                                      *)

FoldMaxima(i) ==
  /\ compute[i].at = "folding" /\ reader[i] # "reading"
  /\ part' = [part EXCEPT ![i] = Maxima(i)]
  /\ compute' = [compute EXCEPT ![i].at = "dividing"]
  /\ UNCHANGED <<call, stage, plan, reader, writer, in, shares, tells, gather, done, out, scale, q, scales>>

Gathered(i) == reader[i] \in {"pushed", "done"}
ChunkOf(i, first) == Min({NumDense(i) - first, ChunkTiles})
QuantizeChunk(i) ==
  LET first == compute[i].first
      n == ChunkOf(i, first)
      divisor == Divisor(i)
      ring == out[i]
  IN /\ compute[i].at = "dividing" /\ first < NumDense(i) /\ Gathered(i)
     /\ 2 * ChunkTiles - ring.filled >= n
     /\ scale' = IF i = 0 /\ first = 0 THEN ScaleTile(divisor) ELSE scale
     /\ out' = [out EXCEPT ![i] =
          [@ EXCEPT !.data = [e \in DOMAIN @ |->
                      IF e \in ring.back .. ring.back + n - 1 THEN Quantized(in[i][first + e - ring.back], divisor) ELSE @[e]],
                    !.back = (@ + n) % (2 * ChunkTiles), !.filled = @ + n]]
     /\ compute' = [compute EXCEPT ![i].first = @ + ChunkTiles]
     /\ UNCHANGED <<call, stage, plan, reader, writer, in, part, shares, tells, gather, done, q, scales>>
FinishCompute(i) ==
  /\ compute[i].at = "dividing" /\ compute[i].first >= NumDense(i) /\ Gathered(i)
  /\ compute' = [compute EXCEPT ![i].at = "done"]
  /\ UNCHANGED <<call, stage, plan, reader, writer, in, part, shares, tells, gather, done, out, scale, q, scales>>

Written(i, d, tile) ==
  [page \in DOMAIN q |->
     IF page \in (FirstDense(i) + d) * plan.pack .. (FirstDense(i) + d) * plan.pack + Count(i, d) - 1
     THEN IF plan.pack = 1 THEN tile
          ELSE [at \in 0 .. 63 |->
                  IF \E f \in 0 .. 1 : Inside(at, Face(f))
                  THEN tile[DenseAt(page - (FirstDense(i) + d) * plan.pack) + at] ELSE q[page][at]]
     ELSE q[page]]

\* The writes, while the entries are not popped.
WriteChunk(i) ==
  LET first == writer[i].first
      n == ChunkOf(i, first)
  IN /\ writer[i].at = "waiting" /\ first < NumDense(i) /\ out[i].filled >= n
     /\ q' = [page \in DOMAIN q |->
          LET d == page \div plan.pack - FirstDense(i)
          IN IF d \in first .. first + n - 1 THEN Written(i, d, out[i].data[out[i].front + d - first])[page] ELSE q[page]]
     /\ writer' = [writer EXCEPT ![i].at = "writing"]
     /\ UNCHANGED <<call, stage, plan, reader, compute, in, part, shares, tells, gather, done, out, scale, scales>>
PopChunk(i) ==
  LET n == ChunkOf(i, writer[i].first)
  IN /\ writer[i].at = "writing"
     /\ out' = [out EXCEPT ![i].front = (@ + n) % (2 * ChunkTiles), ![i].filled = @ - n]
     /\ writer' = [writer EXCEPT ![i].at = "waiting", ![i].first = @ + ChunkTiles]
     /\ UNCHANGED <<call, stage, plan, reader, compute, in, part, shares, tells, gather, done, scale, q, scales>>
FinishWriter(i) ==
  /\ writer[i].at = "waiting" /\ writer[i].first >= NumDense(i)
  /\ IF i = 0 THEN scale # <<>> /\ scales' = scale ELSE UNCHANGED scales
  /\ writer' = [writer EXCEPT ![i].at = "done"]
  /\ UNCHANGED <<call, stage, plan, reader, compute, in, part, shares, tells, gather, done, out, scale, q>>

Complete ==
  /\ stage = "running"
  /\ \A i \in Cores : reader[i] = "done" /\ compute[i].at = "done" /\ writer[i].at = "done"
  /\ stage' = "done"
  /\ UNCHANGED <<call, plan, reader, compute, writer, in, part, shares, tells, gather, done, out, scale, q, scales>>
Stopped == stage \in {"done", "rejected"} /\ UNCHANGED vars

Core(i) ==
  \/ ReadTiles(i) \/ Share(i) \/ LandShare(i) \/ Tell(i) \/ CountItself(i) \/ PushGather(i) \/ FinishReader(i)
  \/ FoldMaxima(i) \/ QuantizeChunk(i) \/ FinishCompute(i)
  \/ WriteChunk(i) \/ PopChunk(i) \/ FinishWriter(i)

Next == Reject \/ Launch \/ Complete \/ Stopped \/ (stage = "running" /\ \E i \in Cores : Core(i))
Spec == Init /\ [][Next]_vars

-----------------------------------------------------------------------------
\* Row m of the tensor: its elements by tile, face of the row's pair and column group.
RowAt(m, half) == Face(half + (IF m < 16 THEN 0 ELSE 2)) + (m % 16)
RowMax(m) == Max({Abs(call.data[page][RowAt(m, half)][p]) : page \in 0 .. call.tiles - 1, half \in 0 .. 1, p \in 1 .. 2})

\* Every element of a row is divided by the row's scale, of the maximum over all cores
\* ("codes equal ttnn.divide and ttnn.typecast's", quantize_rows_sfpu.h:24; "NaN for a
\* NaN maximum as in PyTorch", :21), and the scale written is the one divided by.
QuantizesByRow ==
  stage = "done" => \A m \in 0 .. call.rows - 1, half \in 0 .. 1, p \in 1 .. 2 :
    /\ scales[RowAt(m, half)][p] = ScaleOf(RowMax(m))
    /\ \A page \in 0 .. call.tiles - 1 :
         q[page][RowAt(m, half)][p] = Quotient(call.data[page][RowAt(m, half)][p], ScaleOf(RowMax(m)))
=============================================================================
