------------------------------ MODULE Tensors -------------------------------
(***************************************************************************)
(* Row-major tensors: a shape (a sequence of extents) and the elements in  *)
(* row-major order, numbered from 0.  Dimensions are numbered from 1.      *)
(* These are the few tensor operations (reshape, permute, concatenate,     *)
(* slice) that the lowerings of src/tt_mlir/lib/Conversion emit; what they *)
(* do is TTIR's, which is not part of src/.                                *)
(***************************************************************************)
EXTENDS Integers, Sequences, SequencesExt

Volume(shape) == FoldLeft(LAMBDA a, b : a * b, 1, shape)

\* The place of coordinates c (from 0) in a tensor of that shape, and back.
FlatIndex(shape, c) == FoldLeftDomain(LAMBDA at, d : at * shape[d] + c[d], 0, shape)
Coordinates(shape, at) ==
  [d \in 1 .. Len(shape) |->
     (at \div Volume(SubSeq(shape, d + 1, Len(shape)))) % shape[d]]

\* The tensor whose element at coordinates c is Element(c).
TensorOf(shape, Element(_)) ==
  [shape |-> shape,
   data  |-> [at \in 0 .. Volume(shape) - 1 |-> Element(Coordinates(shape, at))]]

At(t, c) == t.data[FlatIndex(t.shape, c)]

Position(seq, x) == CHOOSE i \in 1 .. Len(seq) : seq[i] = x
Identity(n) == [d \in 1 .. n |-> d]
Permuted(seq, permutation) == [i \in 1 .. Len(permutation) |-> seq[permutation[i]]]

Reshape(t, shape) == [t EXCEPT !.shape = shape]

\* Dimension i of the result is dimension permutation[i] of t.
Permute(t, permutation) ==
  TensorOf(Permuted(t.shape, permutation),
           LAMBDA c : At(t, [d \in 1 .. Len(t.shape) |-> c[Position(permutation, d)]]))

\* Pieces of the same shape but for dimension d, one after the other along d.
Concat(pieces, d) ==
  LET extents == [i \in 1 .. Len(pieces) |-> pieces[i].shape[d]]
      Before(i) == FoldLeft(LAMBDA a, b : a + b, 0, SubSeq(extents, 1, i - 1))
      Of(x) == CHOOSE i \in 1 .. Len(pieces) : Before(i) <= x /\ x < Before(i) + extents[i]
  IN TensorOf([pieces[1].shape EXCEPT ![d] = Before(Len(pieces) + 1)],
              LAMBDA c : At(pieces[Of(c[d])], [c EXCEPT ![d] = @ - Before(Of(c[d]))]))

\* Positions from .. to - 1 of dimension d.
Slice(t, d, from, to) ==
  TensorOf([t.shape EXCEPT ![d] = to - from], LAMBDA c : At(t, [c EXCEPT ![d] = @ + from]))

Mapped(t, Op(_)) == [t EXCEPT !.data = [at \in DOMAIN @ |-> Op(@[at])]]
Full(shape, value) == TensorOf(shape, LAMBDA c : value)
=============================================================================
