------------------------------ MODULE WhileLoop ------------------------------
(***************************************************************************)
(* What stablehlo.while means: evaluate the condition on the carries and,  *)
(* as long as it holds, replace the carries by what the body returns.      *)
(* The operators describe a loop to the extent that its lowering looks at  *)
(* it (tt_mlir_control_flow.cpp).                                          *)
(***************************************************************************)
EXTENDS Integers

CONSTANTS
  Carries,    \* the loop's carried values
  Values,     \* integers that operands and other carries can be
  HalfRange,  \* the carries are integers of -HalfRange .. HalfRange - 1
  NoCarry     \* the condition compares no carry

VARIABLES
  loop,       \* the loop
  captured,   \* an integer from outside that its regions use
  carry, ended

vars == <<loop, captured, carry, ended>>

Numbers == -HalfRange .. HalfRange - 1

\* The sum of two integers of the type.
Add(a, b) == ((a + b + HalfRange) % (2 * HalfRange)) - HalfRange

\* What an operand is, in the condition or in the body.
Operands ==
  [kind : {"constant"}, value : Values] \cup [kind : {"carry"}, of : Carries]
    \cup [kind : {"capture", "computed"}]

\* The loops: the carry on the left of the condition's comparison and whether that
\* is a signed less-than; what the body adds to that carry; and the carries the
\* body returns as they came.
Loops ==
  {l \in [counter : Carries \cup {NoCarry}, signedLess : BOOLEAN,
          limit : Operands, adds : BOOLEAN, step : Operands, kept : SUBSET Carries] :
     /\ l.adds => l.counter \in Carries \ l.kept}

\* The values an operand can have: those of computed ones are not looked into.
ValueOf(operand, carries, capture) ==
  CASE operand.kind = "constant" -> {operand.value}
    [] operand.kind = "carry"    -> {carries[operand.of]}
    [] operand.kind = "capture"  -> {capture}
    [] operand.kind = "computed" -> Values

\* What the condition can say.
Holds(l, carries, capture) ==
  IF l.signedLess /\ l.counter \in Carries
  THEN {holds \in BOOLEAN : \E v \in ValueOf(l.limit, carries, capture) :
          holds <=> carries[l.counter] < v}
  ELSE BOOLEAN

\* The carries the body can return.
Body(l, carries, capture) ==
  {after \in [Carries -> Numbers] : \A c \in Carries :
     CASE c \in l.kept                -> after[c] = carries[c]
       [] l.adds /\ c = l.counter     -> \E v \in ValueOf(l.step, carries, capture) :
                                           after[c] = Add(carries[c], v)
       [] OTHER                       -> after[c] \in Values}

Init ==
  /\ loop \in Loops
  /\ captured \in Values
  /\ carry \in [Carries -> Values]
  /\ ended = FALSE

Iterate ==
  /\ ~ended
  /\ TRUE \in Holds(loop, carry, captured)
  /\ carry' \in Body(loop, carry, captured)
  /\ UNCHANGED <<loop, captured, ended>>

End ==
  /\ ~ended
  /\ FALSE \in Holds(loop, carry, captured)
  /\ ended' = TRUE
  /\ UNCHANGED <<loop, captured, carry>>

Next == Iterate \/ End

Spec == Init /\ [][Next]_vars
=============================================================================
