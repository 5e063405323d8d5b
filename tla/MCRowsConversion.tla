-------------------------- MODULE MCRowsConversion --------------------------
(***************************************************************************)
(* Operations on small tensors for RowsConversion: every assignment of     *)
(* roles to the dimensions of a few operands, in a number of layouts of    *)
(* the index tensor, the result and the updates.  Elements are numbers     *)
(* that tell where they come from.                                         *)
(***************************************************************************)
EXTENDS RowsConversion, Tensors

CONSTANT Shapes         \* number of operand shapes used, of OperandShapes

OperandShapes == <<<<3>>, <<3, 2>>, <<2, 1, 3>>, <<2, 2, 2>>>>
Roles == {"batch", "take", "window", "whole", "part", "fixed"}
CanBe(role, size) == role \in {"window", "part"} => size > 1
WindowOf(role, size) ==
  CASE role \in {"batch", "take", "fixed"} -> 1
    [] role \in {"window", "part"} -> size - 1
    [] role = "whole" -> size
Numbered(shape, from) == [shape |-> shape, data |-> [at \in 0 .. Volume(shape) - 1 |-> from + at]]

\* Index words: in bounds with duplicates, out of bounds below and above.
Patterns == {<<1, 0, 1, 0, 1, 1, 0>>, <<2 ^ IndexBits - 1, 1, 0, 1, 2 ^ IndexBits - 3, 2, 0>>}

\* vector: where the index tensor has its components; down: index components,
\* batching dimensions from the last operand dimension to the first; positionFirst,
\* windowFirst: the positions before the batching dimensions, the windows before
\* everything else; split: the index tensor is a concatenate; complex: a trailing
\* dimension of 2.
Layout(vector, down, positionFirst, windowFirst, split, complex, unsigned) ==
  [vector |-> vector, down |-> down, positionFirst |-> positionFirst, windowFirst |-> windowFirst,
   split |-> split, complex |-> complex, unsigned |-> unsigned]
Layouts ==
  {Layout("last", FALSE, FALSE, FALSE, FALSE, FALSE, FALSE),
   Layout("last", TRUE, TRUE, TRUE, TRUE, FALSE, TRUE),
   Layout("first", TRUE, FALSE, TRUE, FALSE, TRUE, FALSE),
   Layout("middle", FALSE, TRUE, FALSE, TRUE, FALSE, FALSE),
   Layout("none", FALSE, TRUE, TRUE, FALSE, FALSE, TRUE)}

Turned(seq, turn) == IF turn THEN Reverse(seq) ELSE seq
WithRole(roles, names) == SelectSeq(Identity(Len(roles)), LAMBDA d : roles[d] \in names)

\* The parts gather and scatter share.
Indexed(shape, roles, layout, pattern, positions) ==
  LET batching == Turned(WithRole(roles, {"batch"}), layout.down)
      map == Turned(WithRole(roles, {"take", "window"}), layout.down)
      extents == Permuted(shape, batching)
      plain == IF layout.positionFirst THEN <<positions>> \o extents ELSE extents \o <<positions>>
      vectorDim == CASE layout.vector = "first" -> 1
                     [] layout.vector = "middle" -> 2
                     [] OTHER -> Len(plain) + 1
      whole == IF layout.vector = "none" THEN plain ELSE InsertAt(plain, vectorDim, Len(map))
      indices == [shape |-> whole,
                  data |-> [at \in 0 .. Volume(whole) - 1 |-> pattern[(at % Len(pattern)) + 1]]]
      Place(i) == LET q == IF layout.positionFirst THEN i + 1 ELSE i
                  IN IF layout.vector # "none" /\ q >= vectorDim THEN q + 1 ELSE q
      kept == WithRole(roles, {"window", "whole", "part"})
  IN [operand |-> Numbered(shape \o (IF layout.complex THEN <<2>> ELSE <<>>), 1),
      dims |-> [d \in 1 .. Len(shape) |-> WindowOf(roles[d], shape[d])],
      operandBatching |-> batching,
      indexBatching |-> [i \in 1 .. Len(batching) |-> Place(i)],
      indexMap |-> map,
      collapsed |-> WithRole(roles, {"take", "fixed"}),
      offsetDims |-> [i \in 1 .. Len(kept) |-> i + (IF layout.windowFirst THEN 0 ELSE Len(plain))],
      vectorDim |-> vectorDim,
      pieces |-> IF layout.split /\ Len(map) > 1
                 THEN [k \in 1 .. Len(map) |-> Slice(indices, vectorDim, k - 1, k)] ELSE <<indices>>,
      unsigned |-> layout.unsigned]

\* A function of one argument of TLC's records: f with the fields of g.
And(f, g) == g @@ f

Cases ==
  {<<shape, roles, layout>> \in
     UNION {{OperandShapes[i]} \X [1 .. Len(OperandShapes[i]) -> Roles] \X Layouts : i \in 1 .. Shapes} :
     /\ \A d \in 1 .. Len(shape) : CanBe(roles[d], shape[d])
     /\ layout.vector = "none" => Len(WithRole(roles, {"take", "window"})) = 1}

Gather(shape, roles, layout, pattern, positions) ==
  LET op == And(Indexed(shape, roles, layout, pattern, positions), [kind |-> "gather"])
  IN And(op, [fill |-> layout.unsigned, result |-> Source!ResultShape(op)])
Gathers ==
  {Gather(c[1], c[2], c[3], pattern, 2) : c \in Cases, pattern \in Patterns}
  \cup {Gather(<<3, 2>>, <<"take", "whole">>, layout, <<0>>, 0) : layout \in Layouts}

Block(op, lhs, rhs, result) == [op |-> op, lhs |-> lhs, rhs |-> rhs, result |-> result]
Overwrite == Block("none", "operand", "operand", "update")
OtherBlocks ==
  {Block("none", "operand", "operand", "operand"), Block("add", "update", "operand", "op"),
   Block("subtract", "operand", "update", "op"), Block("subtract", "update", "operand", "op"),
   Block("subtract", "operand", "one", "op"), Block("multiply", "operand", "operand", "op"),
   Block("negate", "operand", "operand", "op"), Block("negate", "update", "operand", "op"),
   Block("function", "operand", "operand", "op"), Block("add", "operand", "update", "update")}
  \cup {Block(name, "operand", "update", "op") : name \in {"add", "multiply", "maximum", "minimum"}}

Scatter(shape, roles, layout, pattern, positions, block, unique) ==
  LET op == And(Indexed(shape, roles, layout, pattern, positions), [kind |-> "scatter"])
  IN And(op, [updates |-> Numbered(Source!ResultShape(op), 101), block |-> block, unique |-> unique,
              inputs |-> 1])
\* Of a scatter of several inputs, the first one's operand and updates.
Scatters ==
  {[Scatter(<<3, 2>>, <<"take", "whole">>, layout, <<2, 0>>, 2, Overwrite, FALSE) EXCEPT !.inputs = 2] :
     layout \in Layouts}
  \cup {Scatter(c[1], c[2], c[3], pattern, 2, Overwrite, FALSE) : c \in Cases, pattern \in Patterns}
  \cup {Scatter(<<3, 2>>, roles, layout, pattern, positions, block, FALSE) :
          roles \in {<<"take", "whole">>, <<"window", "take">>, <<"batch", "take">>},
          layout \in {l \in Layouts : l.vector = "last"}, pattern \in Patterns,
          positions \in {0, 2, 4}, block \in OtherBlocks}
  \cup {Scatter(<<3, 2>>, <<"take", "whole">>, layout, <<2, 0>>, 2, block, TRUE) :
          layout \in {l \in Layouts : l.vector = "last"}, block \in OtherBlocks}

UpdateSlices ==
  {[kind |-> "update_slice", operand |-> Numbered(<<3, 2, 2>>, 1), updates |-> Numbered(extents, 101),
    starts |-> starts, unsigned |-> unsigned] :
     extents \in {<<i, j, 2>> : i \in 1 .. 3, j \in 1 .. 2} \cup {<<2, 2, 1>>, <<3, 1, 1>>, <<0, 2, 2>>},
     starts \in {<<0, 1, 0>>, <<2, 2 ^ IndexBits - 1, 1>>, <<2 ^ IndexBits - 2, 0, 3>>, <<1, 1>>},
     unsigned \in BOOLEAN}

\* Two indices of the last dimension of a [2, 3] input, or of its first; ids of rows.
Torches ==
  LET input == Numbered(<<2, 3>>, 1)
      index(shape, words) == [shape |-> shape, data |-> [at \in 0 .. Volume(shape) - 1 |-> words[at + 1]]]
      Along(dim, shape, size) ==
        {[input |-> input, dim |-> dim, index |-> index(shape, words), source |-> Numbered(shape, 101)] :
           words \in [1 .. Volume(shape) -> 0 .. size - 1]}
      ops == Along(2, <<2, 2>>, 3) \cup Along(-1, <<1, 3>>, 3) \cup Along(1, <<2, 2>>, 2) \cup Along(-2, <<2, 3>>, 2)
      Ids(kind) ==
        {[kind |-> kind, input |-> Numbered(<<3, 2>>, 1), index |-> index(<<2, 2>>, words),
          source |-> Numbered(<<2, 2, 2>>, 101)] : words \in [1 .. 4 -> 0 .. 2]}
  IN {And(op, [kind |-> "torch_gather"]) : op \in ops}
     \cup {And(op, [kind |-> "torch_scatter", reduce |-> reduce]) : op \in ops, reduce \in {"overwrite", "add"}}
     \cup Ids("embedding") \cup Ids("embedding_backward")

SmallOperations == Gathers \cup Scatters \cup UpdateSlices \cup Torches
=============================================================================
