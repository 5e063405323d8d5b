------------------------------ MODULE StableHlo -----------------------------
(***************************************************************************)
(* What the operations mean that RowsLowering and RowsDecomposition lower: *)
(* StableHLO's gather, scatter and dynamic_update_slice, TTIR's gather,    *)
(* scatter, embedding and embedding_backward, one element of the result or *)
(* one update at a time.  They are not part of src/; its tests compare     *)
(* with them (tests/libtt/indexed_rows_regression_test.py).  Operations    *)
(* are records as RowsLowering and RowsDecomposition take them.            *)
(***************************************************************************)
EXTENDS Tensors

CONSTANT IndexBits

Value(word, unsigned) ==
  IF unsigned \/ word < 2 ^ (IndexBits - 1) THEN word ELSE word - 2 ^ IndexBits
Clamp(x, high) == Max({0, Min({x, high})})

Indices(op) ==
  IF Len(op.pieces) = 1 THEN op.pieces[1] ELSE Concat(op.pieces, op.vectorDim)
BatchShape(op) ==
  LET shape == op.pieces[1].shape
  IN IF op.vectorDim <= Len(shape) THEN RemoveAt(shape, op.vectorDim) ELSE shape
\* Index positions that share a batch of the operand.
Positions(op) ==
  LET shape == op.pieces[1].shape
  IN Volume([i \in 1 .. Len(shape) |->
               IF i = op.vectorDim \/ Contains(op.indexBatching, i) THEN 1 ELSE shape[i]])
HasWindow(op, d) ==
  d \notin ToSet(op.collapsed) \cup ToSet(op.operandBatching)
WindowDims(op) == SelectSeq(Identity(Len(op.dims)), LAMBDA d : HasWindow(op, d))

\* The start along operand dimension d for one batch of index coordinates.
Start(op, batch, d) ==
  LET k == Position(op.indexMap, d) - 1
      at == IF op.vectorDim <= Len(op.pieces[1].shape) THEN InsertAt(batch, op.vectorDim, k) ELSE batch
  IN Value(At(Indices(op), at), op.unsigned)
Highest(op, d) == op.operand.shape[d] - op.dims[d]
InBounds(op, batch) ==
  \A d \in ToSet(op.indexMap) : Start(op, batch, d) \in 0 .. Highest(op, d)

\* The operand coordinates of window coordinates offset (one per window dimension,
\* then the complex one) at a batch.
OperandAt(op, batch, offset) ==
  LET windows == WindowDims(op)
      Batched(d) ==
        LET i == op.indexBatching[Position(op.operandBatching, d)]
        IN batch[IF op.vectorDim < i THEN i - 1 ELSE i]
  IN [d \in 1 .. Len(op.operand.shape) |->
        IF d > Len(op.dims) THEN offset[Len(windows) + d - Len(op.dims)]
        ELSE (IF Contains(op.indexMap, d) THEN Clamp(Start(op, batch, d), Highest(op, d)) ELSE 0)
             + (IF Contains(op.operandBatching, d) THEN Batched(d) ELSE 0)
             + (IF HasWindow(op, d) THEN offset[Position(windows, d)] ELSE 0)]

\* Coordinates of a gather's result or a scatter's updates, split and joined.
Rank(op) == Len(op.offsetDims) + Len(BatchShape(op))
BatchDims(op) == SelectSeq(Identity(Rank(op)), LAMBDA p : ~Contains(op.offsetDims, p))
BatchPart(op, c) == Permuted(c, BatchDims(op))
OffsetPart(op, c) == Permuted(c, op.offsetDims) \o SubSeq(c, Rank(op) + 1, Len(c))
OffsetShape(op) ==
  Permuted(op.dims, WindowDims(op)) \o SubSeq(op.operand.shape, Len(op.dims) + 1, Len(op.operand.shape))
Joined(op, batch, offset) ==
  [p \in 1 .. Len(batch) + Len(offset) |->
     IF p > Rank(op) THEN offset[p - Len(batch)]
     ELSE IF Contains(op.offsetDims, p) THEN offset[Position(op.offsetDims, p)]
     ELSE batch[Position(BatchDims(op), p)]]
ResultShape(op) == Joined(op, BatchShape(op), OffsetShape(op))

GatherMeaning(op) ==
  TensorOf(ResultShape(op),
           LAMBDA c : IF op.fill /\ ~InBounds(op, BatchPart(op, c)) THEN 0
                      ELSE At(op.operand, OperandAt(op, BatchPart(op, c), OffsetPart(op, c))))

-----------------------------------------------------------------------------
AFunction(x) == 2 * x + 1
BlockMeaning(block, current, update) ==
  LET Argument(name) == CASE name = "operand" -> current [] name = "update" -> update [] name = "one" -> 1
      l == Argument(block.lhs)
      r == Argument(block.rhs)
  IN CASE block.result = "operand" -> current
       [] block.result = "update" -> update
       [] block.op = "add" -> l + r
       [] block.op = "subtract" -> l - r
       [] block.op = "multiply" -> l * r
       [] block.op = "maximum" -> Max({l, r})
       [] block.op = "minimum" -> Min({l, r})
       [] block.op = "negate" -> 0 - l
       [] block.op = "function" -> AFunction(l)

\* Batches in order; one whose window is not in bounds is skipped.
ScatterMeaning(op) ==
  LET offsets == 0 .. Volume(OffsetShape(op)) - 1
      Target(batch, o) ==
        FlatIndex(op.operand.shape, OperandAt(op, batch, Coordinates(OffsetShape(op), o)))
      Apply(data, i) ==
        LET batch == Coordinates(BatchShape(op), i - 1) IN
        IF ~InBounds(op, batch) THEN data
        ELSE [x \in DOMAIN data |->
                IF \E o \in offsets : Target(batch, o) = x
                THEN LET o == CHOOSE o \in offsets : Target(batch, o) = x
                     IN BlockMeaning(op.block, data[x],
                                     At(op.updates, Joined(op, batch, Coordinates(OffsetShape(op), o))))
                ELSE data[x]]
  IN [op.operand EXCEPT !.data = FoldLeft(Apply, @, Identity(Volume(BatchShape(op))))]

UpdateSliceMeaning(op) ==
  LET From(d) == IF d > Len(op.starts) THEN 0
                 ELSE Clamp(Value(op.starts[d], op.unsigned), op.operand.shape[d] - op.updates.shape[d])
      Inside(c) == \A d \in 1 .. Len(c) : c[d] \in From(d) .. From(d) + op.updates.shape[d] - 1
  IN TensorOf(op.operand.shape,
              LAMBDA c : IF Inside(c) THEN At(op.updates, [d \in 1 .. Len(c) |-> c[d] - From(d)])
                         ELSE At(op.operand, c))

-----------------------------------------------------------------------------
Dimension(op) == IF op.dim < 0 THEN Len(op.input.shape) + 1 + op.dim ELSE op.dim
ElementMeaning(op, at) ==
  [Coordinates(op.index.shape, at) EXCEPT ![Dimension(op)] = op.index.data[at]]

TorchGatherMeaning(op) ==
  [op.index EXCEPT !.data = [at \in DOMAIN @ |-> At(op.input, ElementMeaning(op, at))]]
TorchScatterMeaning(op, Reduce(_, _)) ==
  LET Apply(data, i) ==
        [data EXCEPT ![FlatIndex(op.input.shape, ElementMeaning(op, i - 1))] = Reduce(@, op.source.data[i - 1])]
  IN [op.input EXCEPT !.data = FoldLeft(Apply, @, Identity(Volume(op.index.shape)))]
EmbeddingMeaning(op) ==
  TensorOf(op.index.shape \o <<Last(op.input.shape)>>,
           LAMBDA c : At(op.input, [d \in 1 .. Len(op.input.shape) |->
                                      IF d = Len(op.input.shape) THEN Last(c)
                                      ELSE IF d = Len(op.input.shape) - 1 THEN At(op.index, Front(c)) ELSE 0]))
EmbeddingBackwardMeaning(op) ==
  TensorOf(op.input.shape,
           LAMBDA c : FoldLeft(LAMBDA sum, i :
                                 IF op.index.data[i - 1] = c[Len(c) - 1]
                                 THEN sum + op.source.data[(i - 1) * Last(op.input.shape) + Last(c)] ELSE sum,
                               0, Identity(Volume(op.index.shape))))
=============================================================================
