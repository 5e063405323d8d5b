-------------------------- MODULE RowsDecomposition -------------------------
(***************************************************************************)
(* ttir.gather, ttir.scatter, ttir.embedding and ttir.embedding_backward   *)
(* onto rows_gather and rows_scatter:                                      *)
(* src/tt_mlir/lib/Conversion/TTIRToTTIRDecomposition/                     *)
(* IndexedRowsDecomposition.cpp.  Indices are int32 words.                 *)
(***************************************************************************)
EXTENDS RowsOps

\* The operand as a [1, rows, last dim] table.
AsRows(t) == LET width == Last(t.shape) IN Reshape(t, <<1, Volume(t.shape) \div width, width>>)

\* The row and the column, in that table, of every element of the index tensor,
\* whose value is the coordinate along dim; the others are the element's own.
RowColumnIndices(index, operandShape, dim) ==
  LET last == Len(operandShape)
      width == operandShape[last]
      positions == Volume(index.shape)
      RowStride(d) == Volume(SubSeq(operandShape, d + 1, last)) \div width
      Coordinate(at, d) == IF d = dim THEN index.data[at] ELSE Coordinates(index.shape, at)[d]
      Row(at) ==
        FoldLeftDomain(LAMBDA row, d : Word(row + Coordinate(at, d) * RowStride(d)), 0, Front(operandShape))
  IN [shape |-> <<1, 2, positions>>,
      data |-> [at \in 0 .. 2 * positions - 1 |->
                  IF at < positions THEN Row(at) ELSE Coordinate(at - positions, last)]]

ElementSpec(table) ==
  [sizes |-> <<table.shape[2], table.shape[3]>>, windows |-> <<1, 1>>,
   column |-> TRUE, unsigned |-> FALSE, fill |-> FALSE]
RowSpec(table) ==
  [sizes |-> <<table.shape[2]>>, windows |-> <<1>>, column |-> FALSE, unsigned |-> FALSE, fill |-> FALSE]

\* A negative dim counts from the end.
DimOf(op) == IF op.dim < 0 THEN op.dim + Len(op.input.shape) + 1 ELSE op.dim

DecomposeGather(op) ==
  LET table == AsRows(op.input)
      indices == RowColumnIndices(op.index, op.input.shape, DimOf(op))
  IN Reshape(RowsGather(table, indices, ElementSpec(table), 0), op.index.shape)

DecomposeScatter(op, Reduce(_, _)) ==
  LET table == AsRows(op.input)
      indices == RowColumnIndices(op.index, op.input.shape, DimOf(op))
      source == Reshape(op.source, <<1, Volume(op.index.shape)>>)
  IN Reshape(RowsScatter(table, indices, source, ElementSpec(table), Reduce), op.input.shape)

DecomposeEmbedding(op) ==
  LET table == AsRows(op.input)
      indices == Reshape(op.index, <<1, 1, Volume(op.index.shape)>>)
  IN Reshape(RowsGather(table, indices, RowSpec(table), 0), op.index.shape \o <<Last(op.input.shape)>>)

\* The gradient of a weight of op.input's shape, from zeros.
DecomposeEmbeddingBackward(op) ==
  LET table == AsRows(Full(op.input.shape, 0))
      positions == Volume(op.index.shape)
      indices == Reshape(op.index, <<1, 1, positions>>)
      source == Reshape(op.source, <<1, positions, Last(op.input.shape)>>)
  IN Reshape(RowsScatter(table, indices, source, RowSpec(table), LAMBDA x, y : x + y), op.input.shape)
=============================================================================
