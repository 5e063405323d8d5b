----------------------------- MODULE CountedLoop -----------------------------
(***************************************************************************)
(* stablehlo.while lowered and run (tt_mlir_control_flow.cpp,              *)
(* tt_mlir_control_flow_runtime.cpp): the lowering recognizes counted      *)
(* loops, whose trip count the runtime computes once from their bounds;    *)
(* it runs the outlined condition before every iteration of the others.    *)
(***************************************************************************)
EXTENDS Integers

CONSTANTS
  Carries,    \* the loop's carried values
  Values,     \* integers that operands and other carries can be
  HalfRange,  \* the carries are integers of -HalfRange .. HalfRange - 1
  Word,       \* the runtime's unsigned arithmetic is modulo Word
  NoCarry     \* the condition compares no carry

ASSUME LoopAssumption ==
  /\ NoCarry \notin Carries
  /\ HalfRange \in Nat \ {0}
  /\ Values \subseteq -HalfRange .. HalfRange - 1
  /\ Word \in Nat /\ Word > 4 * HalfRange

VARIABLES
  loop,       \* the loop
  captured,   \* an integer from outside that its regions use
  carry,      \* the mutable prefix of the runtime's inputs
  phase,      \* where the loop is: lowered, begun, ended ...
  iteration, tripCount,
  overflowed  \* history: a counted loop's addition went past the end of its type

vars == <<loop, captured, carry, phase, iteration, tripCount, overflowed>>

\* A counted loop whose counter overflowed ends, but not as the while does, which
\* finds the counter below the limit again and goes on.
While == INSTANCE WhileLoop WITH ended <- phase = "ended" /\ ~overflowed

-----------------------------------------------------------------------------
(* The lowering.                                                            *)

\* resolveBound finds the constant, the carry the body returns as it came, or the
\* capture.
Resolves(operand) ==
  \/ operand.kind \in {"constant", "capture"}
  \/ operand.kind = "carry" /\ operand.of \in loop.kept

\* analyzeCountedLoop accepts the loop.
IsCounted ==
  /\ loop.signedLess /\ loop.counter # NoCarry
  /\ Resolves(loop.limit)
  /\ loop.adds
  /\ Resolves(loop.step)
  /\ loop.step.kind = "constant" => loop.step.value > 0

\* Mutant: the counter is the host's, the body need not return it.
OutputsWithoutCounter == Carries \ (loop.kept \cup (IF IsCounted THEN {loop.counter} ELSE {}))

\* computeLoopOutputs: the body program returns the carries it changes.
Outputs == Carries \ loop.kept

-----------------------------------------------------------------------------
(* The runtime.                                                             *)

\* The bound's constant, or the scalar read from an input.
Bound(operand) ==
  CASE operand.kind = "constant" -> operand.value
    [] operand.kind = "carry"    -> carry[operand.of]
    [] OTHER                     -> captured

Unsigned(x) == x % Word

TripCount(initial, limit, step) ==
  IF initial < limit
  THEN LET distance == Unsigned(Unsigned(limit) - Unsigned(initial))
       IN Unsigned(distance + Unsigned(step) - 1) \div Unsigned(step)
  ELSE 0

Init ==
  /\ loop \in While!Loops
  /\ captured \in Values
  /\ carry \in [Carries -> Values]
  /\ phase = "lowered"
  /\ iteration = 0 /\ tripCount = 0
  /\ overflowed = FALSE

\* A loop with a condition program begins.
BeginConditional ==
  /\ phase = "lowered" /\ ~IsCounted
  /\ phase' = "condition"
  /\ UNCHANGED <<loop, captured, carry, iteration, tripCount, overflowed>>

\* A counted loop reads its bounds; the step only if there is an iteration, and
\* it must be positive.
BeginCounted ==
  /\ phase = "lowered" /\ IsCounted
  /\ LET initial == carry[loop.counter]
         limit == Bound(loop.limit)
         step == Bound(loop.step)
     IN IF initial < limit /\ step <= 0
        THEN phase' = "failed" /\ UNCHANGED tripCount
        ELSE phase' = "counted" /\ tripCount' = TripCount(initial, limit, step)
  /\ UNCHANGED <<loop, captured, carry, iteration, overflowed>>

\* executeBody: the body runs on the inputs, its outputs replace the carries they
\* belong to.
ExecuteBody ==
  \E after \in While!Body(loop, carry, captured) :
    carry' = [c \in Carries |-> IF c \in Outputs THEN after[c] ELSE carry[c]]

\* The condition program runs, and its result is read.
Condition ==
  /\ phase = "condition"
  /\ \/ TRUE \in While!Holds(loop, carry, captured) /\ phase' = "body"
     \/ FALSE \in While!Holds(loop, carry, captured) /\ phase' = "ended"
  /\ UNCHANGED <<loop, captured, carry, iteration, tripCount, overflowed>>

ConditionalIteration ==
  /\ phase = "body"
  /\ ExecuteBody
  /\ phase' = "condition"
  /\ UNCHANGED <<loop, captured, iteration, tripCount, overflowed>>

CountedIteration ==
  /\ phase = "counted" /\ iteration < tripCount
  /\ ExecuteBody
  /\ iteration' = iteration + 1
  /\ overflowed' = (overflowed \/ carry[loop.counter] + Bound(loop.step) >= HalfRange)
  /\ UNCHANGED <<loop, captured, phase, tripCount>>

\* The carries the body changed become the loop's results.
CountedEnd ==
  /\ phase = "counted" /\ iteration = tripCount
  /\ phase' = "ended"
  /\ UNCHANGED <<loop, captured, carry, iteration, tripCount, overflowed>>

Next ==
  \/ BeginConditional \/ BeginCounted
  \/ Condition \/ ConditionalIteration \/ CountedIteration \/ CountedEnd

Spec == Init /\ [][Next]_vars

-----------------------------------------------------------------------------
\* The values the variables take; a counted loop makes no more iterations than its trip
\* count, and its carries stay in the integers of their type.
TypeOK ==
  /\ loop \in While!Loops
  /\ captured \in Values
  /\ carry \in [Carries -> While!Numbers]
  /\ phase \in {"lowered", "condition", "body", "counted", "ended", "failed"}
  /\ iteration \in Nat /\ tripCount \in Nat
  /\ iteration <= tripCount
  /\ overflowed \in BOOLEAN

\* A loop recognized as counted does what the while it was recognized in does, the
\* iterations in the order of the while with the same carries, and ends where that
\* ends (tt_mlir_control_flow.cpp:279 "The runtime uses static bounds when
\* counted-loop analysis succeeds; otherwise it evaluates the outlined scalar
\* condition between body invocations").  One loop is excepted, and only its end:
\* whose last addition takes the counter past the end of its type, which a step
\* above one can do and the analysis (:140-192) does not exclude.  Up to there its
\* iterations are the while's; it then ends, where the while would go on.
ImplementsWhile == While!Spec

\* The trip count, computed once, says at every iteration what the condition would
\* have said: the counter is below the limit just as long as iterations are left,
\* unless it overflowed, which only the last iteration does, with a step above one.
CountsAsTheCondition ==
  phase = "counted" =>
    IF overflowed
    THEN iteration = tripCount /\ Bound(loop.step) > 1
    ELSE iteration < tripCount <=> carry[loop.counter] < Bound(loop.limit)
=============================================================================
