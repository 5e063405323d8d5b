--------------------------- MODULE RowsConversion ---------------------------
(***************************************************************************)
(* The conversion of one indexed operation of a program to the rows ops:   *)
(* StableHLO operations by RowsLowering, the TTIR operations that come     *)
(* from composites by RowsDecomposition.  The value of the rows ops and    *)
(* the operations around them is what the program computes from then on.   *)
(***************************************************************************)
EXTENDS Naturals, Tensors

CONSTANTS Operations,        \* the operations a program may hold
          IndexBits, MaxUnrolledApply

VARIABLES operation, converted, value
vars == <<operation, converted, value>>

Lowering == INSTANCE RowsLowering
Decomposition == INSTANCE RowsDecomposition
Source == INSTANCE StableHlo

NoValue == Lowering!NoMatch
Init ==
  /\ operation \in Operations
  /\ converted = FALSE
  /\ value = NoValue

Convert(kind, result) ==
  /\ operation.kind = kind
  /\ ~converted
  /\ converted' = TRUE
  /\ value' = result
  /\ UNCHANGED operation

ConvertGather == Convert("gather", Lowering!LowerGather(operation))
ConvertScatter == Convert("scatter", Lowering!LowerScatter(operation))
ConvertUpdateSlice == Convert("update_slice", Lowering!LowerUpdateSlice(operation))
ConvertTorchGather == Convert("torch_gather", Decomposition!DecomposeGather(operation))
ConvertTorchScatter ==
  Convert("torch_scatter",
          Decomposition!DecomposeScatter(operation, LAMBDA x, y : Lowering!Combine(operation.reduce, x, y)))
ConvertEmbedding == Convert("embedding", Decomposition!DecomposeEmbedding(operation))
ConvertEmbeddingBackward == Convert("embedding_backward", Decomposition!DecomposeEmbeddingBackward(operation))

Next ==
  \/ ConvertGather \/ ConvertScatter \/ ConvertUpdateSlice
  \/ ConvertTorchGather \/ ConvertTorchScatter \/ ConvertEmbedding \/ ConvertEmbeddingBackward

Spec == Init /\ [][Next]_vars

-----------------------------------------------------------------------------
Meaning(op) ==
  CASE op.kind = "gather" -> Source!GatherMeaning(op)
    [] op.kind = "scatter" -> Source!ScatterMeaning(op)
    [] op.kind = "update_slice" -> Source!UpdateSliceMeaning(op)
    [] op.kind = "torch_gather" -> Source!TorchGatherMeaning(op)
    [] op.kind = "torch_scatter" ->
         Source!TorchScatterMeaning(op, LAMBDA x, y : Lowering!Combine(op.reduce, x, y))
    [] op.kind = "embedding" -> Source!EmbeddingMeaning(op)
    [] op.kind = "embedding_backward" -> Source!EmbeddingBackwardMeaning(op)

\* The dimensions of the operand that are not batched; those that windows cover, and
\* those that they move over.
Unbatched(op) == SelectSeq(Identity(Len(op.operand.shape)), LAMBDA d : ~Contains(op.operandBatching, d))
Whole(op, d) == d > Len(op.dims) \/ op.dims[d] = op.operand.shape[d]
Moved(op, d) ==
  Contains(op.indexMap, d) \/ (~Whole(op, d) /\ ~Contains(op.operandBatching, d))

\* How many positions the index tensor has for a batch.
PositionsPerBatch(op) ==
  LET index == op.pieces[1].shape
      Counted(d) == d # op.vectorDim /\ ~Contains(op.indexBatching, d)
  IN Volume(Permuted(index, SelectSeq(Identity(Len(index)), Counted)))

\* The operations that are left unconverted: a scatter of several tensors, an
\* update computation the rows ops lack, a function applied at more positions than
\* are unrolled, a size-1 dimension that is collapsed without being indexed and lies
\* between no dimensions that windows move over, and an operation of several batches
\* where windows move over no dimension and more than one is left to the rows.
Unsupported(op) ==
  \/ /\ op.kind = "scatter"
     /\ LET computation == Lowering!Classify(op.block)
        IN \/ op.inputs > 1
           \/ computation = Lowering!Unmatched
           \/ computation.unary # "none" /\ ~op.unique /\ PositionsPerBatch(op) > MaxUnrolledApply
  \/ /\ op.kind \in {"gather", "scatter"}
     /\ \E i \in 1 .. Len(op.collapsed) :
          LET d == op.collapsed[i]
          IN /\ op.operand.shape[d] = 1 /\ ~Contains(op.indexMap, d)
             /\ ~\E e \in 1 .. d - 1, f \in d + 1 .. Len(op.operand.shape) : Moved(op, e) /\ Moved(op, f)
  \/ /\ op.kind \in {"gather", "scatter"}
     /\ op.indexMap = <<>> /\ Volume(Permuted(op.operand.shape, op.operandBatching)) > 1
     /\ \A d \in 1 .. Len(op.operand.shape) : ~Moved(op, d)
     /\ LET rest == Unbatched(op)
        IN rest = <<>> \/ \E i \in 1 .. Len(rest) - 1 : op.operand.shape[rest[i]] # 1

\* What a conversion computes is what the operation means: whatever dimensions are
\* batched, indexed, windowed, collapsed or copied, in whatever order the index
\* tensor, the result and the updates hold theirs ("exactly as StableHLO
\* specifies", IndexedRows.cpp:23).  And no others are left than Unsupported lists
\* (indexed_rows_regression_test.py:3 "Every StableHLO gather, scatter and
\* dynamic_update_slice compiles to ttir.rows_gather or ttir.rows_scatter").
ComputesTheOperation ==
  converted => IF Unsupported(operation) THEN value = NoValue ELSE value = Meaning(operation)
=============================================================================
