---------------------------- MODULE RowsLowering ----------------------------
(***************************************************************************)
(* StableHLO gather, scatter and dynamic_update_slice onto rows_gather and *)
(* rows_scatter: src/tt_mlir/lib/Conversion/StableHLOToTTIR/IndexedRows.cpp. *)
(* An operation is lowered to TTIR operations over its operands; here the  *)
(* lowering is the tensor those operations compute.  Dimensions are        *)
(* numbered from 1, index components too, component 0 is a constant zero.  *)
(***************************************************************************)
EXTENDS RowsOps

CONSTANT MaxUnrolledApply  \* kMaxUnrolledApply, 1024 in the code

\* The lowering did not match ("notifyMatchFailure"), or failed ("emitError").
NoMatch == [shape |-> <<>>, data |-> <<>>]

From(first, last) == [i \in 1 .. last - first + 1 |-> first + i - 1]
Lookup(seq, at, other) == IF at \in 1 .. Len(seq) THEN seq[at] ELSE other

\* What an operand dimension is to the rows ops (OperandDim).
Dim(kind, column, window, size) ==
  [kind |-> kind, column |-> column, window |-> window, size |-> size]
NeedsComponent(dim) ==
  dim.kind = "indexed" \/ (dim.kind = "free" /\ dim.window # dim.size)
Region(dims) == {d \in 1 .. Len(dims) : NeedsComponent(dims[d])}

\* The operand keeps its order when its batching dimensions are exactly the
\* dimensions before the region, apart from size-1 ones.
Natural(dims) ==
  LET region == Region(dims)
      Leading(d) == \A e \in region : d < e
      IsBatch(d) == dims[d].kind = "batch"
      Unit(d) == region # {} /\ dims[d].kind = "free" /\ dims[d].size = 1
  IN \A d \in 1 .. Len(dims) :
       /\ IsBatch(d) => Leading(d)
       /\ (\E e \in 1 .. Len(dims) : IsBatch(e)) /\ Leading(d) => IsBatch(d) \/ Unit(d)

TableOrder(dims) ==
  LET Those(Test(_)) == SelectSeq(Identity(Len(dims)), LAMBDA d : Test(dims[d]))
  IN IF Natural(dims) THEN Identity(Len(dims))
     ELSE Those(LAMBDA dim : dim.kind = "batch") \o Those(NeedsComponent)
          \o Those(LAMBDA dim : dim.kind = "free" /\ ~NeedsComponent(dim))

\* canonicalize: the operand as [batch dims][component dims][row dims].
Canonical(permutation, dims) ==
  LET region == Region(dims)
      first == IF region = {} THEN Len(dims) ELSE Min(region)
      last == IF region = {} THEN Len(dims) - 1 ELSE Max(region)
      components == SubSeq(dims, first, last)
      OrUnit(seq, unit) == IF seq = <<>> THEN <<unit>> ELSE seq
  IN [permutation |-> permutation, dims |-> dims,
      batchDims |-> From(1, first - 1), componentDims |-> From(first, last), rowDims |-> From(last + 1, Len(dims)),
      columns |-> OrUnit([i \in DOMAIN components |->
                            IF components[i].kind = "indexed" THEN components[i].column ELSE 0], 0),
      sizes |-> OrUnit([i \in DOMAIN components |-> components[i].size], 1),
      windows |-> OrUnit([i \in DOMAIN components |-> components[i].window], 1),
      column |-> components # <<>> /\ last = Len(dims)]
Canonicalize(operandDims) ==
  LET permutation == TableOrder(operandDims) IN Canonical(permutation, Permuted(operandDims, permutation))

Extents(c, ds) == [i \in 1 .. Len(ds) |-> c.dims[ds[i]].size]
RowsSpec(c, unsigned, fill) ==
  [sizes |-> c.sizes, windows |-> c.windows, column |-> c.column, unsigned |-> unsigned, fill |-> fill]

TableShape(c) ==
  LET B == Volume(Extents(c, c.batchDims))
      N == Rows(RowsSpec(c, FALSE, FALSE))
  IN <<B, N>> \o (IF c.column THEN <<Last(c.sizes)>>
                  ELSE IF c.rowDims = <<>> THEN <<1>> ELSE Extents(c, c.rowDims))
BuildTable(operand, c) == Reshape(Permute(operand, c.permutation), TableShape(c))
Untable(table, c, shape) ==
  Permute(Reshape(table, Permuted(shape, c.permutation)),
          [d \in 1 .. Len(shape) |-> Position(c.permutation, d)])

\* A reshape when only size-1 dimensions move, else a permute.
MoveDims(t, permutation) ==
  LET NonUnit(ds) == SelectSeq(ds, LAMBDA d : t.shape[d] # 1)
  IN IF NonUnit(Identity(Len(permutation))) = NonUnit(permutation)
     THEN Reshape(t, Permuted(t.shape, permutation)) ELSE Permute(t, permutation)

\* The index tensor, given as the pieces of a concatenate along its vector
\* dimension (one piece: no concatenate), as [Bi, K, M] pages.  Pieces differ in
\* the vector dimension only.
HasVector(op) == op.vectorDim <= Len(op.pieces[1].shape)
OtherDims(op, batching) ==
  SelectSeq(Identity(Len(op.pieces[1].shape)), LAMBDA d : d # op.vectorDim /\ ~Contains(batching, d))
IndexExtents(op, ds) == Permuted(op.pieces[1].shape, ds)

IndexPage(op, piece, batching, others) ==
  LET vector == IF HasVector(op) THEN <<op.vectorDim>> ELSE <<>>
  IN Reshape(MoveDims(piece, batching \o vector \o others),
             <<Volume(IndexExtents(op, batching)), Volume(Permuted(piece.shape, vector)),
               Volume(IndexExtents(op, others))>>)
SelectColumns(pages, columns) ==
  LET Column(k) ==
        IF k = 0 THEN Full([pages.shape EXCEPT ![2] = 1], 0) ELSE Slice(pages, 2, k - 1, k)
  IN IF columns = Identity(pages.shape[2]) THEN pages
     ELSE Concat([i \in 1 .. Len(columns) |-> Column(columns[i])], 2)
BuildIndices(op, batching, c) ==
  LET others == OtherDims(op, batching)
  IN SelectColumns(Concat([i \in 1 .. Len(op.pieces) |-> IndexPage(op, op.pieces[i], batching, others)], 2),
                   c.columns)

\* A mutant: paired in the order they are given.
IndexBatchingAsGiven(op) == op.indexBatching
\* Index dimensions paired with the operand's batching dimensions, in the order
\* of the operand's dimensions.
IndexBatching(op) ==
  LET batch == SelectSeq(Identity(Len(op.dims)), LAMBDA d : Contains(op.operandBatching, d))
  IN [i \in 1 .. Len(batch) |-> op.indexBatching[Position(op.operandBatching, batch[i])]]

\* What gather and scatter share: op.dims[d] is the window of operand dimension d
\* (slice size or update extent); a dimension past them is the trailing one of a
\* complex tensor.
OperandDims(op) ==
  [d \in 1 .. Len(op.operand.shape) |->
     LET size == op.operand.shape[d] IN
     IF d > Len(op.dims) THEN Dim("free", 0, size, size)
     ELSE IF Contains(op.operandBatching, d) THEN Dim("batch", 0, op.dims[d], size)
     ELSE IF Contains(op.indexMap, d) THEN Dim("indexed", Position(op.indexMap, d), op.dims[d], size)
     ELSE Dim("free", 0, op.dims[d], size)]
Extra(op) == Len(op.operand.shape) - Len(op.dims)
Kept(op) ==
  SelectSeq(Identity(Len(op.dims)),
            LAMBDA d : ~Contains(op.collapsed, d) /\ ~Contains(op.operandBatching, d))
IndexDims(op) == SelectSeq(Identity(Len(op.pieces[1].shape)), LAMBDA d : d # op.vectorDim)
IndexBatches(op) == Volume(IndexExtents(op, IndexBatching(op)))
BatchesMatch(op, c) == IndexBatches(op) \in {1, TableShape(c)[1]}

-----------------------------------------------------------------------------
(* Gather. *)

\* enumerateResultDims: the dimensions of the gathered rows, and which of them is
\* an operand dimension or an index dimension (0: none).
ResultDims(op, c) ==
  LET others == OtherDims(op, IndexBatching(op))
      shown == SelectSeq(Identity(Len(c.componentDims)),
                         LAMBDA i : ~Contains(op.collapsed, c.permutation[c.componentDims[i]]))
      nb == Len(c.batchDims)
      no == Len(others)
      OfOperand(d) ==
        LET p == Position(c.permutation, d) IN
        IF Contains(c.batchDims, p) THEN Position(c.batchDims, p)
        ELSE IF Contains(c.rowDims, p) THEN nb + no + Len(shown) + Position(c.rowDims, p)
        ELSE IF ~Contains(op.collapsed, d)
             THEN nb + no + Position(shown, Position(c.componentDims, p)) ELSE 0
      OfIndex(d) ==
        IF Contains(op.indexBatching, d)
        THEN OfOperand(op.operandBatching[Position(op.indexBatching, d)])
        ELSE nb + Position(others, d)
  IN [shape |-> Extents(c, c.batchDims) \o IndexExtents(op, others)
                \o [i \in 1 .. Len(shown) |-> c.windows[shown[i]]] \o Extents(c, c.rowDims),
      ofOperand |-> [d \in 1 .. Len(op.operand.shape) |-> OfOperand(d)],
      ofIndex |-> [i \in 1 .. Len(IndexDims(op)) |-> OfIndex(IndexDims(op)[i])]]

\* The result dimensions: offset dims hold the kept operand dims in operand order,
\* the last ones the extra dims, the others the index dims in index order.
ResultOrder(op, r) ==
  LET rank == Len(op.result) - Extra(op)
      Before(p) == Cardinality({q \in 1 .. p : ~Contains(op.offsetDims, q)})
  IN [p \in 1 .. Len(op.result) |->
        IF p > rank THEN r.ofOperand[Len(op.dims) + p - rank]
        ELSE IF Contains(op.offsetDims, p) THEN r.ofOperand[Kept(op)[Position(op.offsetDims, p)]]
        ELSE r.ofIndex[Before(p)]]

GatherRows(op, c, order, shape) ==
  LET indices == BuildIndices(op, IndexBatching(op), c)
      gathered == RowsGather(BuildTable(op.operand, c), indices, RowsSpec(c, op.unsigned, op.fill), 0)
  IN IF \/ Len(op.offsetDims) # Len(Kept(op))
        \/ ~BatchesMatch(op, c)
        \/ Contains(order, 0) \/ Len(shape) # Len(order)
     THEN NoMatch
     ELSE Permute(Reshape(gathered, shape), order)
GatherFrom(op, c) ==
  LET r == ResultDims(op, c) IN GatherRows(op, c, ResultOrder(op, r), r.shape)
LowerGather(op) ==
  IF Volume(op.result) = 0 THEN Full(op.result, 0) ELSE GatherFrom(op, Canonicalize(OperandDims(op)))

-----------------------------------------------------------------------------
(* Scatter.  The update computation is a block of at most one operation,   *)
(* op(lhs, rhs) of its arguments "operand" and "update" (or a constant     *)
(* one), and returns that operation's result or an argument.               *)

\* What classifyUpdateComputation makes of it: an overwrite, a reduction of
\* possibly negated updates, a unary function, or no match.
Computation(reduce, negate, unary) == [reduce |-> reduce, negate |-> negate, unary |-> unary]
Unmatched == Computation("unmatched", FALSE, "none")
Binaries == {"add", "multiply", "maximum", "minimum"}
Unaries == {"negate", "function"}  \* "function" for sine, cosine, sqrt, log, exp

Classify(block) ==
  LET OnBoth == block.lhs = "operand" /\ block.rhs = "update" IN
  IF block.op = "none"
  THEN IF block.result = "update" THEN Computation("overwrite", FALSE, "none") ELSE Unmatched
  ELSE IF block.result # "op" THEN Unmatched
  ELSE IF block.op \in Binaries /\ OnBoth THEN Computation(block.op, FALSE, "none")
  ELSE IF block.op = "subtract" /\ OnBoth THEN Computation("add", TRUE, "none")
  ELSE IF block.op \in Unaries /\ block.lhs = "operand" THEN Computation("overwrite", FALSE, block.op)
  ELSE IF block.op = "multiply" /\ block.lhs = "operand" /\ block.rhs = "operand"
  THEN Computation("overwrite", FALSE, "square")
  ELSE IF block.op = "subtract" /\ block.lhs = "operand" /\ block.rhs = "one"
  THEN Computation("overwrite", FALSE, "subtract one")
  ELSE Unmatched

Combine(reduce, current, update) ==
  CASE reduce = "overwrite" -> update
    [] reduce = "add" -> current + update
    [] reduce = "multiply" -> current * update
    [] reduce = "maximum" -> Max({current, update})
    [] reduce = "minimum" -> Min({current, update})
AFunction(x) == 2 * x + 1
ApplyUnary(kind, x) ==
  CASE kind = "negate" -> 0 - x
    [] kind = "function" -> AFunction(x)
    [] kind = "square" -> x * x
    [] kind = "subtract one" -> x - 1

\* The updates as [B, M * W, R] rows.
UpdateOrder(op, c) ==
  LET scatterDims == SelectSeq(Identity(Len(op.updates.shape) - Extra(op)),
                               LAMBDA u : ~Contains(op.offsetDims, u))
      OfOperand(d) ==
        IF d > Len(op.dims) THEN Len(op.updates.shape) - Extra(op) + d - Len(op.dims)
        ELSE IF Contains(Kept(op), d) THEN op.offsetDims[Position(Kept(op), d)] ELSE 0
      OfIndex(d) == scatterDims[Position(IndexDims(op), d)]
      OfBatch(p) ==
        LET d == c.permutation[p]
        IN IF c.dims[p].kind = "batch" THEN OfIndex(op.indexBatching[Position(op.operandBatching, d)])
           ELSE OfOperand(d)
      others == OtherDims(op, IndexBatching(op))
      windows == [i \in 1 .. Len(c.componentDims) |-> OfOperand(c.permutation[c.componentDims[i]])]
  IN [i \in 1 .. Len(c.batchDims) |-> OfBatch(c.batchDims[i])]
     \o [i \in 1 .. Len(others) |-> OfIndex(others[i])]
     \o SelectSeq(windows, LAMBDA u : u > 0)
     \o [i \in 1 .. Len(c.rowDims) |-> OfOperand(c.permutation[c.rowDims[i]])]

\* A unary function is gathered, applied and scattered back: at once when the
\* indices are unique, else position by position.
ScatterUnary(op, c, unary) ==
  LET spec == RowsSpec(c, op.unsigned, FALSE)
      indices == BuildIndices(op, IndexBatching(op), c)
      parts == IF op.unique THEN <<indices>>
               ELSE [m \in 1 .. indices.shape[3] |-> Slice(indices, 3, m - 1, m)]
      Step(table, at) ==
        RowsScatter(table, at, Mapped(RowsGather(table, at, spec, 0), LAMBDA x : ApplyUnary(unary, x)),
                    spec, LAMBDA x, y : y)
  IN IF Len(parts) > MaxUnrolledApply THEN NoMatch
     ELSE Untable(FoldLeft(Step, BuildTable(op.operand, c), parts), c, op.operand.shape)

ScatterRows(op, c, computation, indices, source) ==
  LET Negated(x) == IF computation.negate THEN 0 - x ELSE x
  IN Untable(RowsScatter(BuildTable(op.operand, c), indices, Mapped(source, Negated),
                         RowsSpec(c, op.unsigned, FALSE),
                         LAMBDA x, y : Combine(computation.reduce, x, y)),
             c, op.operand.shape)
ScatterUpdates(op, c, computation, indices, order) ==
  LET shape == GatheredShape(RowsSpec(c, op.unsigned, FALSE), BuildTable(op.operand, c), indices)
  IN IF Contains(order, 0) \/ Len(order) # Len(op.updates.shape) THEN NoMatch
     ELSE ScatterRows(op, c, computation, indices, Reshape(Permute(op.updates, order), shape))

ScatterFrom(op, computation, c) ==
  IF Len(op.offsetDims) # Len(Kept(op)) \/ ~BatchesMatch(op, c) THEN NoMatch
  ELSE IF computation.unary # "none" THEN ScatterUnary(op, c, computation.unary)
  ELSE ScatterUpdates(op, c, computation, BuildIndices(op, IndexBatching(op), c), UpdateOrder(op, c))

LowerScatter(op) ==
  LET computation == Classify(op.block)
  IN IF op.inputs # 1 \/ computation = Unmatched THEN NoMatch
     ELSE IF Volume(op.updates.shape) = 0 \/ Volume(op.operand.shape) = 0 THEN op.operand
     ELSE ScatterFrom(op, computation, Canonicalize(OperandDims(op)))

-----------------------------------------------------------------------------
(* Dynamic update slice: one position whose window is the update's shape;  *)
(* its start indices, one per dimension, are clamped.                      *)
IndexedDims(op) ==
  SelectSeq(Identity(Len(op.operand.shape)),
            LAMBDA d : d <= Len(op.starts) /\ op.updates.shape[d] # op.operand.shape[d])
SlicedDims(op, indexed) ==
  [d \in 1 .. Len(op.operand.shape) |->
     IF Contains(indexed, d)
     THEN Dim("indexed", Position(indexed, d), op.updates.shape[d], op.operand.shape[d])
     ELSE Dim("free", 0, op.updates.shape[d], op.operand.shape[d])]
SliceStart(op, d) ==
  LET value == IF op.unsigned THEN op.starts[d] ELSE Signed(op.starts[d])
  IN Max({0, Min({value, op.operand.shape[d] - op.updates.shape[d]})})
SliceIndices(op, indexed, columns) ==
  TensorOf(<<1, Len(columns), 1>>,
           LAMBDA at : IF columns[at[2] + 1] = 0 THEN 0 ELSE SliceStart(op, indexed[columns[at[2] + 1]]))

UpdateRows(op, c, indices) ==
  LET spec == RowsSpec(c, op.unsigned, FALSE)
      table == BuildTable(op.operand, c)
  IN Untable(RowsScatter(table, indices, Reshape(op.updates, GatheredShape(spec, table, indices)),
                         spec, LAMBDA x, y : y), c, op.operand.shape)
UpdateFrom(op, indexed, c) == UpdateRows(op, c, SliceIndices(op, indexed, c.columns))
LowerUpdateSlice(op) ==
  IF op.updates.shape = op.operand.shape THEN op.updates
  ELSE IF Volume(op.updates.shape) = 0 THEN op.operand
  ELSE LET indexed == IndexedDims(op) IN UpdateFrom(op, indexed, Canonicalize(SlicedDims(op, indexed)))
=============================================================================
