------------------------------ MODULE RowsOps -------------------------------
(***************************************************************************)
(* What rows_gather and rows_scatter promise (ttnn::experimental,          *)
(* indexed_rows.hpp): rows of a table [B, N, S..., R] moved by an index    *)
(* tensor [Bi, K, M].  The lowerings of RowsLowering and RowsDecomposition *)
(* end in these operations and the programs of IndexedRows carry them out. *)
(*                                                                         *)
(* spec = [sizes, windows, column, unsigned, fill]: sizes and windows one  *)
(* per component, column whether the last one addresses columns of a row's *)
(* page.  Indices are words of IndexBits bits (32 in the code).            *)
(***************************************************************************)
EXTENDS Tensors

CONSTANT IndexBits
ASSUME IndexBitsAssumption == IndexBits \in Nat \ {0}

Word(x) == x % 2 ^ IndexBits
Signed(word) == IF word < 2 ^ (IndexBits - 1) THEN word ELSE word - 2 ^ IndexBits

RowComponents(spec) == Len(spec.sizes) - (IF spec.column THEN 1 ELSE 0)

\* W, the rows one position names, and N, the rows that the components span.
Window(spec) == Volume(SubSeq(spec.windows, 1, RowComponents(spec)))
Rows(spec) == Volume(SubSeq(spec.sizes, 1, RowComponents(spec)))

\* decode: every component clamped into [0, size - window]; unsigned indices
\* compare as unsigned.
High(spec, k) == spec.sizes[k] - spec.windows[k]
Clamped(spec, k, word) ==
  LET value == IF spec.unsigned THEN word ELSE Signed(word)
  IN IF value < 0 THEN 0 ELSE IF value > High(spec, k) THEN High(spec, k) ELSE value
OutOfBounds(spec, words, components) ==
  \E k \in 1 .. components :
    Clamped(spec, k, words[k]) # (IF spec.unsigned THEN words[k] ELSE Signed(words[k]))

\* window_row: the row of window offset j, the components' offsets row-major.
WindowRow(spec, words, j) ==
  LET KR == RowComponents(spec)
      offset == Coordinates(SubSeq(spec.windows, 1, KR), j)
  IN FlatIndex(SubSeq(spec.sizes, 1, KR), [k \in 1 .. KR |-> Clamped(spec, k, words[k]) + offset[k]])

Words(indices, b, m) ==
  LET bi == IF indices.shape[1] = 1 THEN 0 ELSE b
  IN [k \in 1 .. indices.shape[2] |-> At(indices, <<bi, k - 1, m>>)]

RowSize(table) == Volume(SubSeq(table.shape, 3, Len(table.shape)))
Moved(spec, table) == IF spec.column THEN spec.windows[Len(spec.windows)] ELSE RowSize(table)

GatheredShape(spec, table, indices) ==
  LET positions == indices.shape[3] * Window(spec) IN
  IF spec.column
  THEN <<table.shape[1], positions * Moved(spec, table)>>
  ELSE <<table.shape[1], positions>> \o SubSeq(table.shape, 3, Len(table.shape))

\* The table element that element e of window offset j at a position is about.
Addressed(spec, table, words, b, j, e) ==
  LET start == IF spec.column THEN Clamped(spec, Len(words), words[Len(words)]) ELSE 0
  IN (b * table.shape[2] + WindowRow(spec, words, j)) * RowSize(table) + start + e

\* out[b, m * W + j, ...] = table[b, row_j(indices[bi, :, m]), ...]
RowsGather(table, indices, spec, zero) ==
  LET M == indices.shape[3]
      W == Window(spec)
      w == Moved(spec, table)
      Element(at) ==
        LET e == at % w
            j == (at \div w) % W
            m == (at \div (w * W)) % M
            b == at \div (w * W * M)
            words == Words(indices, b, m)
        IN IF spec.fill /\ OutOfBounds(spec, words, Len(words))
           THEN zero
           ELSE table.data[Addressed(spec, table, words, b, j, e)]
      shape == GatheredShape(spec, table, indices)
  IN [shape |-> shape, data |-> [at \in 0 .. Volume(shape) - 1 |-> Element(at)]]

\* A copy of the table with the source's rows applied in increasing m,
\* positions out of bounds dropped.
RowsScatter(table, indices, source, spec, Reduce(_, _)) ==
  LET M == indices.shape[3]
      W == Window(spec)
      w == Moved(spec, table)
      Updates(b, m) ==
        [x \in {Addressed(spec, table, Words(indices, b, m), b, y \div w, y % w) : y \in 0 .. W * w - 1} |->
           source.data[(b * M + m) * W * w
                       + CHOOSE y \in 0 .. W * w - 1 :
                           Addressed(spec, table, Words(indices, b, m), b, y \div w, y % w) = x]]
      Apply(data, bm) ==
        LET b == bm \div M
            m == bm % M
            words == Words(indices, b, m)
            updates == Updates(b, m)
        IN IF OutOfBounds(spec, words, Len(words))
           THEN data
           ELSE [x \in DOMAIN data |->
                   IF x \in DOMAIN updates THEN Reduce(data[x], updates[x]) ELSE data[x]]
  IN [table EXCEPT !.data = FoldLeft(Apply, @, [i \in 1 .. table.shape[1] * M |-> i - 1])]
=============================================================================
