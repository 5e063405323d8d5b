---------------------------- MODULE DeviceCalls -----------------------------
(***************************************************************************)
(* The calls of the repository's own operations that their device programs *)
(* are checked on.                                                         *)
(***************************************************************************)
EXTENDS RowsOps

CONSTANTS Bits, Infinity, NotANumber

-----------------------------------------------------------------------------
(* rows_gather and rows_scatter: small tables, with chunks of 2 elements, so *)
(* that pages, windows, groups and batches end inside one another.           *)
Garbage == <<0>>

Tensor(shape, from) == [shape |-> shape, data |-> [at \in 0 .. Volume(shape) - 1 |-> <<from + at>>]]
IndexTensor(shape, words) ==
  [shape |-> shape, data |-> [at \in 0 .. Volume(shape) - 1 |-> words[(at % Len(words)) + 1]]]
A(sizes, windows, column, unsigned, fill) ==
  [sizes |-> sizes, windows |-> windows, column |-> column, unsigned |-> unsigned, fill |-> fill]

\* Tables with the specs that address them.
Tables ==
  {<<<<1, 3, 3>>, A(<<3>>, <<1>>, FALSE, FALSE, FALSE)>>,
   <<<<1, 3, 2>>, A(<<3>>, <<2>>, FALSE, TRUE, TRUE)>>,
   <<<<2, 2, 2, 3>>, A(<<2>>, <<1>>, FALSE, FALSE, TRUE)>>,
   <<<<1, 4, 1>>, A(<<2, 2>>, <<2, 1>>, FALSE, FALSE, FALSE)>>,
   <<<<2, 2, 5>>, A(<<2, 5>>, <<1, 3>>, TRUE, FALSE, FALSE)>>,
   <<<<1, 3, 5>>, A(<<3, 5>>, <<2, 2>>, TRUE, TRUE, TRUE)>>,
   <<<<2, 1, 4>>, A(<<4>>, <<3>>, TRUE, FALSE, FALSE)>>}
Patterns == {<<1, 0, 1, 0>>, <<0, 2 ^ IndexBits - 1, 1>>, <<2, 1, 0, 4, 1>>}

Gather(grid, table, spc, indices) ==
  [kind |-> "gather", grid |-> grid, table |-> Tensor(table, 1), indices |-> indices, spec |-> spc,
   source |-> Tensor(<<0>>, 0), reduce |-> FALSE]
Scatter(grid, table, spc, indices, reduce) ==
  [kind |-> "scatter", grid |-> grid, table |-> Tensor(table, 1), indices |-> indices, spec |-> [spc EXCEPT !.fill = FALSE],
   source |-> Tensor(GatheredShape(spc, Tensor(table, 1), indices), 51), reduce |-> reduce]

Of(table, batches, positions) ==
  {IndexTensor(<<bi, Len(table[2].sizes), positions>>, pattern) :
     bi \in batches, pattern \in Patterns}

\* Nothing to do, and calls that do not fit: batches, windows, rows, columns, source.
Odd ==
  LET spc == A(<<3>>, <<1>>, FALSE, FALSE, FALSE)
      columns == A(<<3, 2>>, <<1, 1>>, TRUE, FALSE, FALSE)
      none == IndexTensor(<<1, 1, 0>>, <<0>>)
      one == IndexTensor(<<1, 1, 1>>, <<2>>)
  IN {Gather(1, <<1, 3, 2>>, spc, none), Scatter(1, <<1, 3, 2>>, spc, none, FALSE),
      Gather(1, <<0, 3, 2>>, spc, one), Scatter(1, <<1, 3, 0>>, spc, one, FALSE),
      Gather(1, <<3, 3, 2>>, spc, IndexTensor(<<2, 1, 1>>, <<0>>)),
      Gather(1, <<1, 3, 2>>, [spc EXCEPT !.windows = <<4>>], one),
      Gather(1, <<1, 2, 2>>, spc, one), Gather(1, <<1, 3, 2>>, columns, one),
      Gather(1, <<1, 3, 2, 2>>, columns, IndexTensor(<<1, 2, 1>>, <<1>>)),
      [Scatter(1, <<1, 3, 2>>, spc, one, FALSE) EXCEPT !.source = Tensor(<<1, 2, 2>>, 51)]}

RowsCalls ==
  UNION {{Gather(1, t[1], t[2], indices) : indices \in Of(t, {1, t[1][1]}, 2)}
         \cup {Scatter(1, t[1], t[2], indices, reduce) : indices \in Of(t, {1, t[1][1]}, 2), reduce \in BOOLEAN}
         \cup {Gather(2, t[1], t[2], indices) : indices \in Of(t, {1}, 1)} :
         t \in Tables}
  \cup {Gather(3, <<1, 3, 1>>, A(<<3>>, <<1>>, FALSE, FALSE, FALSE), indices) :
          indices \in {IndexTensor(<<1, 1, 4>>, pattern) : pattern \in Patterns}}
  \cup {Scatter(2, <<1, 3, 1>>, A(<<3>>, <<1>>, FALSE, FALSE, FALSE), indices, FALSE) :
          indices \in {IndexTensor(<<1, 1, 2>>, pattern) : pattern \in Patterns}}
  \cup {Scatter(2, <<1, 2, 3>>, A(<<2, 3>>, <<windows, 2>>, TRUE, FALSE, FALSE), indices, TRUE) :
          windows \in {1, 2}, indices \in {IndexTensor(<<1, 2, 2>>, pattern) : pattern \in Patterns}}
  \cup Odd

-----------------------------------------------------------------------------
(* TopK. *)
\* Values that repeat within rows and are on both sides of the sign; padding that would
\* be the best of all.
TopKCall(slabs, height, width, k, largest, bf16, cores, seed) ==
  LET top == IF bf16 THEN 2^(Bits \div 2) ELSE 2^Bits
      Value(b, r, c) == ((b * 5 + r * 7 + c * (c + 3)) * 3 + seed) % top
  IN [slabs |-> slabs, height |-> height, width |-> width, k |-> k, largest |-> largest,
      bf16 |-> bf16, cores |-> cores, supported |-> TRUE,
      data |-> [x \in (0 .. slabs - 1) \X (0 .. height - 1) \X (0 .. width - 1) |-> Value(x[1], x[2], x[3])],
      padding |-> IF largest THEN top \div 2 - 1 ELSE top - 1]

\* One row in several segments, the last one shorter; several groups of rows; two tile
\* rows, one of them short; a core with several rows; k over a tile; calls not taken.
TopKCalls ==
  {TopKCall(1, 1, 11, 3, TRUE, FALSE, 3, 1), TopKCall(1, 2, 7, 5, FALSE, FALSE, 4, 2),
   TopKCall(1, 3, 9, 2, TRUE, TRUE, 2, 0), TopKCall(1, 6, 10, 3, FALSE, TRUE, 4, 3),
   TopKCall(2, 1, 6, 2, TRUE, FALSE, 4, 4), TopKCall(1, 2, 9, 6, TRUE, TRUE, 6, 5),
   TopKCall(1, 1, 8, 2, TRUE, FALSE, 2, 7), TopKCall(1, 4, 9, 1, TRUE, FALSE, 1, 1)}
  \cup {[TopKCall(1, 1, width, k, TRUE, FALSE, 2, 0) EXCEPT !.supported = supported] :
          width \in {3, 7, 11, 30}, k \in 1 .. 3, supported \in BOOLEAN}
  \cup {TopKCall(slabs, height, width, k, TRUE, FALSE, cores, 0) :
          slabs \in {0, 1, 3}, height \in {1, 8}, width \in {5, 13}, k \in {0, 5, 9}, cores \in {1, 4}}

-----------------------------------------------------------------------------
(* quantize_rows. *)
MostCores == [stride \in {4, 8, 16, 32} |-> IF stride <= 8 THEN 4 ELSE 3]

\* Rows with maxima in different tiles; padding rows that would win, were they taken.
Data(rows, tiles, special) ==
  [page \in 0 .. tiles - 1 |->
     [at \in 0 .. 63 |->
        LET m == (at \div 32) * 16 + (at % 16)
            Value(p) == (((page * 7 + m * 5 + (at \div 16) * 3 + p) * 11) % 19) - 9
        IN IF m >= rows THEN <<Infinity, NotANumber>>
           ELSE IF special /\ m = page % 3 /\ at < 16 THEN <<Value(1), NotANumber - (page \div 3)>>
           ELSE <<Value(1), Value(2)>>]]
QuantizeCall(rows, tiles, grid_x, grid_y, min_scale, special) ==
  [rows |-> rows, tiles |-> tiles, grid_x |-> grid_x, grid_y |-> grid_y, min_scale |-> min_scale,
   supported |-> TRUE, data |-> Data(rows, tiles, special)]

\* One and two rows, which are gathered; strides of 4, 8, 16 and 32; a last dense tile
\* that is not full; cores with several chunks, fewer cores than there are; NaN and infinity.
QuantizeCalls ==
  {QuantizeCall(1, 11, 2, 1, 0, FALSE), QuantizeCall(2, 30, 1, 1, 3, FALSE), QuantizeCall(3, 9, 1, 2, 0, TRUE), QuantizeCall(8, 6, 2, 1, 8, FALSE),
   QuantizeCall(16, 5, 3, 1, 0, FALSE), QuantizeCall(17, 7, 1, 1, 0, FALSE), QuantizeCall(32, 2, 2, 2, 1, TRUE), QuantizeCall(1, 33, 2, 1, 0, TRUE),
   QuantizeCall(32, 4, 1, 1, 1, TRUE), QuantizeCall(16, 7, 3, 1, 0, FALSE),
   [QuantizeCall(1, 1, 1, 1, 0, FALSE) EXCEPT !.supported = FALSE], QuantizeCall(33, 1, 1, 1, 0, FALSE), QuantizeCall(1, 0, 1, 1, 0, FALSE)}

-----------------------------------------------------------------------------
(* state_pool_copy. *)
PoolCopies ==
  {c \in [slots : {6}, pages_per_slot : {1, 3}, cores : {1, 2}, rank : {2, 3}, supported : BOOLEAN,
     sources : {<<>>, <<1, 2>>, <<1, 0, 2>>, <<5, 5, 5>>, <<5, 1, 0, 2>>, <<5, 5, 5, 5, 5>>},
     targets : {<<>>, <<3, 4>>, <<4, 3, 0>>, <<1, 2, 3>>, <<4, 0, 3, 3>>, <<1, 2, 3, 4, 0>>}] :
     \A i \in DOMAIN c.sources, j \in DOMAIN c.targets : c.sources[i] = 0 \/ c.sources[i] # c.targets[j]}
=============================================================================
