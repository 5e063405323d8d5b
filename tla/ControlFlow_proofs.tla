-------------------------- MODULE ControlFlow_proofs --------------------------
(***************************************************************************)
(* A counted loop does what the while it was recognized in does, for any   *)
(* carries, any width and any loop; only where the last addition takes the *)
(* counter past the end of its type does it end earlier.  Programs in one  *)
(* another, however deep, never free a tensor that a name is left for.     *)
(***************************************************************************)
EXTENDS CountedLoop, NestedTensors, FiniteSetTheorems, SequenceTheorems, WellFoundedInduction, TLAPS

-----------------------------------------------------------------------------
(* Part 1: what a loop computes (CountedLoop).                              *)

(* Arithmetic.                                                              *)

LEMMA ModOfSmall ==
  ASSUME NEW m \in Nat, NEW a \in Nat, a < m
  PROVE  a % m = a
BY Z3

LEMMA ModOfNegative ==
  ASSUME NEW m \in Nat, NEW a \in Int, a < 0, -m <= a, m > 0
  PROVE  a % m = a + m
BY Z3

LEMMA DivBounds ==
  ASSUME NEW a \in Nat, NEW s \in Nat \ {0}
  PROVE  /\ a \div s \in Nat
         /\ s * (a \div s) <= a
         /\ a < s * (a \div s) + s
BY Z3

LEMMA OneLess ==
  ASSUME NEW r \in Int, NEW s \in Int
  PROVE  /\ (r - 1) * s = r * s - s
         /\ r * s \in Int
         /\ r * s = s * r
BY Z3

\* The unsigned difference of two signed integers is their distance.
LEMMA Distance ==
  ASSUME NEW a \in While!Numbers, NEW b \in While!Numbers, a < b
  PROVE  Unsigned(Unsigned(b) - Unsigned(a)) = b - a
<1> USE LoopAssumption DEF While!Numbers
<1>1. CASE a >= 0
  <2>1. Unsigned(a) = a /\ Unsigned(b) = b
    BY <1>1, ModOfSmall DEF Unsigned
  <2>2. (b - a) % Word = b - a
    BY <1>1, ModOfSmall
  <2> QED BY <2>1, <2>2 DEF Unsigned
<1>2. CASE a < 0 /\ b >= 0
  <2>1. Unsigned(a) = a + Word
    BY <1>2, ModOfNegative DEF Unsigned
  <2>2. Unsigned(b) = b
    BY <1>2, ModOfSmall DEF Unsigned
  <2>3. (b - (a + Word)) % Word = b - a
    BY <1>2, ModOfNegative
  <2> QED BY <2>1, <2>2, <2>3 DEF Unsigned
<1>3. CASE b < 0
  <2>1. Unsigned(a) = a + Word /\ Unsigned(b) = b + Word
    BY <1>3, ModOfNegative DEF Unsigned
  <2>2. (b - a) % Word = b - a
    BY <1>3, ModOfSmall
  <2>3. (b + Word) - (a + Word) = b - a
    OBVIOUS
  <2> QED BY <2>1, <2>2, <2>3 DEF Unsigned
<1> QED BY <1>1, <1>2, <1>3

\* TripCount steps from `initial` reach `limit`; one step less does not.
LEMMA TripCountReaches ==
  ASSUME NEW initial \in While!Numbers, NEW limit \in While!Numbers,
         NEW step \in While!Numbers, initial < limit, step > 0
  PROVE  LET n == TripCount(initial, limit, step)
         IN /\ n \in Nat \ {0}
            /\ initial + (n - 1) * step < limit
            /\ initial + n * step >= limit
<1> USE LoopAssumption DEF While!Numbers
<1> DEFINE d == limit - initial
           n == (d + step - 1) \div step
<1>1. Unsigned(Unsigned(limit) - Unsigned(initial)) = d
  BY Distance
<1>2. Unsigned(step) = step /\ Unsigned(d + step - 1) = d + step - 1
  BY ModOfSmall DEF Unsigned
<1>3. TripCount(initial, limit, step) = n
  BY <1>1, <1>2 DEF TripCount
<1>4. /\ n \in Nat
      /\ step * n <= d + step - 1
      /\ d + step - 1 < step * n + step
  BY DivBounds
<1>5. (n - 1) * step = step * n - step /\ n * step = step * n /\ step * n \in Int
  BY <1>4, OneLess
<1>6. n # 0
  <2> SUFFICES ASSUME n = 0 PROVE FALSE
    OBVIOUS
  <2>1. step * n = 0
    BY Z3
  <2> QED BY <1>4, <2>1
<1> HIDE DEF n
<1> QED BY <1>3, <1>4, <1>5, <1>6

LEMMA AddIsSum ==
  ASSUME NEW a \in Int, NEW b \in Int, -HalfRange <= a + b, a + b < HalfRange
  PROVE  While!Add(a, b) = a + b
<1>1. (a + b + HalfRange) % (2 * HalfRange) = a + b + HalfRange
  BY LoopAssumption, ModOfSmall
<1> QED BY <1>1, LoopAssumption DEF While!Add

-----------------------------------------------------------------------------
(* The invariant.                                                           *)

\* Bounds are values: the carries that are bounds stay what the loop began with.
KeptAreValues == \A c \in loop.kept : carry[c] \in Values

\* The body of a loop with a condition runs only where the condition holds.
BodyIsDue == phase = "body" => TRUE \in While!Holds(loop, carry, captured)

Left == tripCount - iteration

\* What is left to count: Left steps from here reach the limit, and no fewer, unless
\* the last iteration took the counter past the end of its type.
CountIsExact ==
  phase = "counted" =>
    /\ IsCounted
    /\ overflowed => Left = 0 /\ Bound(loop.step) > 1
    /\ Left = 0 /\ ~overflowed => carry[loop.counter] >= Bound(loop.limit)
    /\ Left > 0 =>
         /\ Bound(loop.step) > 0
         /\ carry[loop.counter] + (Left - 1) * Bound(loop.step) < Bound(loop.limit)
         /\ carry[loop.counter] + Left * Bound(loop.step) >= Bound(loop.limit)

\* Nothing has been counted before the loop begins.
Zero == phase = "lowered" => iteration = 0 /\ tripCount = 0 /\ ~overflowed

\* Only a counted loop overflows.
OnlyCounted == overflowed => phase \in {"counted", "ended"}

LoopIInv == TypeOK /\ Zero /\ OnlyCounted /\ KeptAreValues /\ BodyIsDue /\ CountIsExact

-----------------------------------------------------------------------------
(* Bounds.                                                                  *)

LEMMA BoundIsValue ==
  ASSUME TypeOK, KeptAreValues, NEW operand \in While!Operands, Resolves(operand)
  PROVE  /\ Bound(operand) \in Values
         /\ While!ValueOf(operand, carry, captured) = {Bound(operand)}
<1>1. CASE operand.kind = "constant"
  BY <1>1 DEF Bound, While!ValueOf, While!Operands
<1>2. CASE operand.kind = "carry"
  BY <1>2 DEF Bound, While!ValueOf, Resolves, KeptAreValues
<1>3. CASE operand.kind = "capture"
  BY <1>3 DEF Bound, While!ValueOf, TypeOK
<1> QED BY <1>1, <1>2, <1>3 DEF Resolves

LEMMA CountedBounds ==
  ASSUME TypeOK, KeptAreValues, IsCounted
  PROVE  /\ loop.counter \in Carries \ loop.kept
         /\ Bound(loop.limit) \in Values
         /\ Bound(loop.step) \in Values
         /\ TRUE \in While!Holds(loop, carry, captured)
              <=> carry[loop.counter] < Bound(loop.limit)
         /\ FALSE \in While!Holds(loop, carry, captured)
              <=> ~(carry[loop.counter] < Bound(loop.limit))
         /\ While!ValueOf(loop.step, carry, captured) = {Bound(loop.step)}
<1>1. /\ loop.limit \in While!Operands /\ loop.step \in While!Operands
      /\ loop.counter \in Carries \ loop.kept
  BY DEF TypeOK, While!Loops, IsCounted
<1>2. /\ Bound(loop.limit) \in Values
      /\ While!ValueOf(loop.limit, carry, captured) = {Bound(loop.limit)}
  BY <1>1, BoundIsValue DEF IsCounted
<1>3. /\ Bound(loop.step) \in Values
      /\ While!ValueOf(loop.step, carry, captured) = {Bound(loop.step)}
  BY <1>1, BoundIsValue DEF IsCounted
<1>4. /\ TRUE \in While!Holds(loop, carry, captured)
           <=> carry[loop.counter] < Bound(loop.limit)
      /\ FALSE \in While!Holds(loop, carry, captured)
           <=> ~(carry[loop.counter] < Bound(loop.limit))
  BY <1>1, <1>2 DEF While!Holds, IsCounted
<1> QED BY <1>1, <1>2, <1>3, <1>4

\* The body changes no carry that is a bound, and returns all it changes.
LEMMA BodyOutputs ==
  ASSUME TypeOK, KeptAreValues, ExecuteBody, loop' = loop, captured' = captured
  PROVE  /\ carry' \in While!Body(loop, carry, captured)
         /\ carry' \in [Carries -> While!Numbers]
         /\ \A c \in loop.kept : carry'[c] = carry[c]
<1>1. PICK after \in While!Body(loop, carry, captured) :
        carry' = [c \in Carries |-> IF c \in Outputs THEN after[c] ELSE carry[c]]
  BY DEF ExecuteBody
<1>2. after \in [Carries -> While!Numbers] /\ \A c \in loop.kept : after[c] = carry[c]
  BY DEF While!Body, TypeOK, While!Loops
<1>3. \A c \in Carries : carry'[c] = after[c]
  BY <1>1, <1>2 DEF Outputs
<1>4. carry' = after
  BY <1>1, <1>2, <1>3
<1>5. loop.kept \subseteq Carries
  BY DEF TypeOK, While!Loops
<1> QED BY <1>2, <1>4, <1>5

LEMMA BoundsKept ==
  ASSUME IsCounted, loop' = loop, captured' = captured,
         \A c \in loop.kept : carry'[c] = carry[c]
  PROVE  /\ IsCounted'
         /\ Bound(loop.limit)' = Bound(loop.limit)
         /\ Bound(loop.step)' = Bound(loop.step)
<1>1. IsCounted'
  BY DEF IsCounted, Resolves
<1>2. Bound(loop.limit)' = Bound(loop.limit)
  BY DEF Bound, IsCounted, Resolves
<1>3. Bound(loop.step)' = Bound(loop.step)
  BY DEF Bound, IsCounted, Resolves
<1> QED BY <1>1, <1>2, <1>3

-----------------------------------------------------------------------------
(* The steps.                                                               *)

LEMMA LoopInitIInv == Init => LoopIInv
<1> SUFFICES ASSUME Init PROVE LoopIInv
  OBVIOUS
<1>1. carry \in [Carries -> While!Numbers]
  BY LoopAssumption DEF Init, While!Numbers
<1>2. TypeOK
  <2>1. overflowed \in BOOLEAN
    BY DEF Init
  <2> QED BY <1>1, <2>1 DEF Init, TypeOK
<1>3. KeptAreValues
  BY DEF Init, KeptAreValues, While!Loops
<1> QED BY <1>2, <1>3 DEF Init, LoopIInv, Zero, OnlyCounted, BodyIsDue, CountIsExact

LEMMA BeginCountedStep ==
  ASSUME LoopIInv, BeginCounted
  PROVE  LoopIInv'
<1> DEFINE initial == carry[loop.counter]
           limit == Bound(loop.limit)
           step == Bound(loop.step)
<1> USE DEF LoopIInv
<1>1. /\ IsCounted /\ phase = "lowered"
      /\ loop' = loop /\ captured' = captured /\ carry' = carry /\ iteration' = iteration
      /\ overflowed' = overflowed /\ ~overflowed
  BY DEF BeginCounted, Zero
<1>2. /\ loop.counter \in Carries /\ limit \in Values /\ step \in Values
  BY <1>1, CountedBounds
<1>3. initial \in While!Numbers /\ limit \in While!Numbers /\ step \in While!Numbers
  BY <1>2, LoopAssumption DEF TypeOK, While!Numbers
<1>4. IsCounted' /\ Bound(loop.limit)' = limit /\ Bound(loop.step)' = step
  BY <1>1, BoundsKept
<1>5. KeptAreValues'
  BY <1>1 DEF KeptAreValues
<1>6. CASE phase' = "failed"
  <2>1. tripCount' = tripCount
    BY <1>6 DEF BeginCounted
  <2> QED BY <1>1, <1>5, <1>6, <2>1 DEF TypeOK, Zero, OnlyCounted, BodyIsDue, CountIsExact
<1>7. CASE phase' = "counted" /\ initial >= limit /\ iteration = 0
  <2>1. tripCount' = 0
    BY <1>7, <1>3 DEF BeginCounted, TripCount, While!Numbers
  <2>2. CountIsExact'
    BY <1>1, <1>4, <1>7, <2>1 DEF CountIsExact, Left
  <2> QED BY <1>1, <1>5, <1>7, <2>1, <2>2 DEF TypeOK, Zero, OnlyCounted, BodyIsDue
<1>8. CASE phase' = "counted" /\ initial < limit /\ iteration = 0
  <2>1. step > 0 /\ tripCount' = TripCount(initial, limit, step)
    BY <1>8, <1>3, LoopAssumption DEF BeginCounted, While!Numbers
  <2>2. /\ tripCount' \in Nat \ {0}
        /\ initial + (tripCount' - 1) * step < limit
        /\ initial + tripCount' * step >= limit
    BY <1>3, <1>8, <2>1, TripCountReaches
  <2>3. Left' = tripCount'
    <3>1. iteration' = 0
      BY <1>1, <1>8
    <3>2. \A n \in Nat : n - 0 = n
      OBVIOUS
    <3> QED BY <3>1, <3>2, <2>2 DEF Left
  <2>4. CountIsExact'
    BY <1>1, <1>4, <2>1, <2>2, <2>3 DEF CountIsExact
  <2> QED BY <1>1, <1>5, <1>8, <2>2, <2>4 DEF TypeOK, Zero, OnlyCounted, BodyIsDue
<1> QED BY <1>3, <1>6, <1>7, <1>8 DEF BeginCounted, While!Numbers, Zero

LEMMA CountedIterationStep ==
  ASSUME LoopIInv, CountedIteration
  PROVE  LoopIInv'
<1> DEFINE at == carry[loop.counter]
           limit == Bound(loop.limit)
           step == Bound(loop.step)
<1> USE DEF LoopIInv
<1>1. /\ phase = "counted" /\ phase' = "counted" /\ iteration < tripCount
      /\ loop' = loop /\ captured' = captured
      /\ iteration' = iteration + 1 /\ tripCount' = tripCount
      /\ overflowed' = (overflowed \/ at + step >= HalfRange)
      /\ ExecuteBody
  BY DEF CountedIteration
<1>2. iteration \in Nat /\ tripCount \in Nat
  BY DEF TypeOK
<1>3. Left \in Nat \ {0} /\ Left' = Left - 1
  BY <1>1, <1>2 DEF Left
<1>4. /\ IsCounted /\ step > 0 /\ ~overflowed
      /\ at + (Left - 1) * step < limit
      /\ at + Left * step >= limit
  BY <1>1, <1>3 DEF CountIsExact
<1>5. /\ loop.counter \in Carries /\ limit \in Values /\ step \in Values
      /\ While!ValueOf(loop.step, carry, captured) = {step}
  BY <1>4, CountedBounds
<1>6. at \in While!Numbers /\ limit \in While!Numbers /\ step \in While!Numbers
  BY <1>5, LoopAssumption DEF TypeOK, While!Numbers
<1>7. /\ carry' \in While!Body(loop, carry, captured)
      /\ carry' \in [Carries -> While!Numbers]
      /\ \A c \in loop.kept : carry'[c] = carry[c]
  BY <1>1, BodyOutputs
<1>8. IsCounted' /\ Bound(loop.limit)' = limit /\ Bound(loop.step)' = step
  BY <1>1, <1>4, <1>7, BoundsKept
<1>9. at < limit
  <2>1. (Left - 1) * step >= 0
    <3> HIDE DEF step
    <3>1. \A a, b \in Nat : a * b >= 0
      BY Z3
    <3>2. Left - 1 \in Nat /\ step \in Nat
      BY <1>3, <1>4, <1>6 DEF While!Numbers
    <3> QED BY <3>1, <3>2
  <2>2. (Left - 1) * step \in Int
    BY <1>3, <1>6, OneLess DEF While!Numbers
  <2> HIDE DEF at, limit, step
  <2> QED BY <1>4, <1>6, <2>1, <2>2 DEF While!Numbers
<1>10. at + step < HalfRange => carry'[loop.counter] = at + step
  <2>1. loop.adds /\ loop.counter \in Carries \ loop.kept
    BY <1>4, CountedBounds DEF IsCounted
  <2>2. carry'[loop.counter] = While!Add(at, step)
    BY <1>5, <1>7, <2>1 DEF While!Body
  <2>3. -HalfRange <= at + step
    BY <1>4, <1>6, LoopAssumption DEF While!Numbers
  <2> QED BY <1>6, <2>2, <2>3, AddIsSum DEF While!Numbers
<1>11. /\ (Left - 1) * step = Left * step - step
       /\ (Left - 2) * step = (Left - 1) * step - step
       /\ Left * step \in Int
  <2>1. (Left - 1) - 1 = Left - 2 /\ Left - 1 \in Int /\ Left \in Int /\ step \in Int
    BY <1>3, <1>6 DEF While!Numbers
  <2> HIDE DEF step
  <2>2. (Left - 1) * step = Left * step - step /\ Left * step \in Int
    BY <2>1, OneLess
  <2>3. ((Left - 1) - 1) * step = (Left - 1) * step - step
    BY <2>1, OneLess
  <2> QED BY <2>1, <2>2, <2>3
<1>12. ASSUME at + step < HalfRange PROVE CountIsExact'
  <2>1. /\ Left' = 0 => carry'[loop.counter] >= limit
        /\ Left' > 0 => /\ carry'[loop.counter] + (Left' - 1) * step < limit
                        /\ carry'[loop.counter] + Left' * step >= limit
    <3>1. Left' - 1 = Left - 2
      BY <1>3
    <3>2. Left = 1 => Left * step = step
      BY <1>6 DEF While!Numbers
    <3>3. carry'[loop.counter] = at + step
      BY <1>10, <1>12
    <3> HIDE DEF at, limit, step
    <3> QED BY <1>3, <1>4, <1>6, <1>11, <3>1, <3>2, <3>3 DEF While!Numbers
  <2>2. ~(at + step >= HalfRange)
    BY <1>6, <1>12, LoopAssumption DEF While!Numbers
  <2>3. ~overflowed'
    <3> HIDE DEF at, step
    <3> QED BY <1>1, <1>4, <2>2, Zenon
  <2> QED BY <1>1, <1>4, <1>8, <2>1, <2>3 DEF CountIsExact
<1>13. ASSUME at + step >= HalfRange PROVE CountIsExact'
  <2>1. step > 1
    BY <1>4, <1>6, <1>9, <1>13, LoopAssumption DEF While!Numbers
  <2>2. Left' = 0
    <3> SUFFICES ASSUME Left # 1 PROVE FALSE
      BY <1>3
    <3>1. (Left - 2) * step >= 0
      <4> HIDE DEF step
      <4>1. \A a, b \in Nat : a * b >= 0
        BY Z3
      <4>2. Left - 2 \in Nat /\ step \in Nat
        BY <1>3, <1>4, <1>6 DEF While!Numbers
      <4> QED BY <4>1, <4>2
    <3>2. limit < HalfRange /\ HalfRange \in Int
      BY <1>6, LoopAssumption DEF While!Numbers
    <3>3. at \in Int /\ limit \in Int /\ step \in Int
      BY <1>6 DEF While!Numbers
    <3> HIDE DEF at, limit, step
    <3> QED BY <1>4, <1>11, <1>13, <3>1, <3>2, <3>3
  <2>3. overflowed'
    <3> HIDE DEF at, step
    <3> QED BY <1>1, <1>13, Zenon
  <2>4. ~(Left' > 0)
    BY <2>2
  <2> QED BY <1>8, <2>1, <2>2, <2>3, <2>4 DEF CountIsExact
<1>14. CountIsExact'
  <2>1. at + step < HalfRange \/ at + step >= HalfRange
    BY <1>6, LoopAssumption DEF While!Numbers
  <2> QED BY <1>12, <1>13, <2>1
<1>15. TypeOK' /\ Zero' /\ OnlyCounted' /\ BodyIsDue'
  <2>1. overflowed' \in BOOLEAN
    BY <1>1
  <2> QED BY <1>1, <1>2, <1>7, <2>1 DEF TypeOK, Zero, OnlyCounted, BodyIsDue
<1>16. KeptAreValues'
  BY <1>1, <1>7 DEF KeptAreValues
<1> QED BY <1>14, <1>15, <1>16

\* Every other step leaves the count alone.
LEMMA OtherSteps ==
  ASSUME LoopIInv,
         \/ BeginConditional \/ Condition \/ ConditionalIteration \/ CountedEnd
         \/ UNCHANGED vars
  PROVE  LoopIInv'
<1> USE DEF LoopIInv
<1>1. CASE BeginConditional
  BY <1>1 DEF BeginConditional, TypeOK, Zero, OnlyCounted, KeptAreValues, BodyIsDue, CountIsExact
<1>2. CASE Condition
  <2>1. UNCHANGED <<loop, captured, carry, iteration, tripCount, overflowed>> /\ phase' # "counted"
    BY <1>2 DEF Condition
  <2>2. TypeOK' /\ Zero' /\ OnlyCounted' /\ KeptAreValues' /\ CountIsExact'
    <3>1. overflowed' \in BOOLEAN /\ ~overflowed /\ ~overflowed'
      BY <1>2, <2>1 DEF Condition, TypeOK, OnlyCounted
    <3> QED BY <1>2, <2>1, <3>1 DEF Condition, TypeOK, Zero, OnlyCounted, KeptAreValues, CountIsExact
  <2>3. BodyIsDue'
    BY <1>2, <2>1 DEF Condition, BodyIsDue
  <2> QED BY <2>2, <2>3
<1>3. CASE ConditionalIteration
  <2>1. /\ phase = "body" /\ phase' = "condition" /\ UNCHANGED <<loop, captured, iteration, tripCount, overflowed>>
        /\ ExecuteBody
    BY <1>3 DEF ConditionalIteration
  <2>2. /\ carry' \in [Carries -> While!Numbers]
        /\ \A c \in loop.kept : carry'[c] = carry[c]
    BY <2>1, BodyOutputs
  <2> QED BY <2>1, <2>2 DEF TypeOK, Zero, OnlyCounted, KeptAreValues, BodyIsDue, CountIsExact
<1>4. CASE CountedEnd
  BY <1>4 DEF CountedEnd, TypeOK, Zero, OnlyCounted, KeptAreValues, BodyIsDue, CountIsExact
<1>5. CASE UNCHANGED vars
  <2>1. UNCHANGED <<loop, captured, carry, phase, iteration, tripCount, overflowed>>
    BY <1>5 DEF vars
  <2>2. IsCounted' = IsCounted /\ Left' = Left
    BY <2>1 DEF IsCounted, Resolves, Left
  <2>3. Bound(loop.limit)' = Bound(loop.limit) /\ Bound(loop.step)' = Bound(loop.step)
    BY <2>1 DEF Bound
  <2> QED BY <2>1, <2>2, <2>3 DEF TypeOK, Zero, OnlyCounted, KeptAreValues, BodyIsDue, CountIsExact
<1> QED BY <1>1, <1>2, <1>3, <1>4, <1>5

\* The inductive invariant: what is left to count is exactly what brings the
\* counter from where it is to the limit.  A counter that overflows does so in the
\* last iteration, and only with a step above one.
THEOREM LoopInvariant == Spec => []LoopIInv
<1>1. LoopIInv /\ [Next]_vars => LoopIInv'
  BY BeginCountedStep, CountedIterationStep, OtherSteps DEF Next
<1> QED BY <1>1, LoopInitIInv, PTL DEF Spec

\* A carry never leaves its integer type, and no iteration runs beyond the count.
THEOREM LoopTypeCorrect == Spec => []TypeOK
BY LoopInvariant, PTL DEF LoopIInv

-----------------------------------------------------------------------------
\* What is left to count says what the condition would.
LEMMA CountIsCondition == LoopIInv => CountsAsTheCondition
<1> SUFFICES ASSUME LoopIInv, phase = "counted"
             PROVE  IF overflowed
                    THEN iteration = tripCount /\ Bound(loop.step) > 1
                    ELSE iteration < tripCount <=> carry[loop.counter] < Bound(loop.limit)
  BY DEF CountsAsTheCondition
<1> DEFINE at == carry[loop.counter]
           limit == Bound(loop.limit)
           step == Bound(loop.step)
<1>1. IsCounted /\ TypeOK /\ KeptAreValues /\ CountIsExact
  BY DEF LoopIInv, CountIsExact
<1>2. loop.counter \in Carries /\ limit \in Values /\ step \in Values
  BY <1>1, CountedBounds
<1>3. at \in Int /\ limit \in Int /\ step \in Int
  <2>1. at \in While!Numbers /\ limit \in While!Numbers /\ step \in While!Numbers
    BY <1>1, <1>2, LoopAssumption DEF TypeOK, While!Numbers
  <2> QED BY <2>1 DEF While!Numbers
<1>4. /\ Left \in Nat
      /\ iteration < tripCount <=> Left > 0
      /\ overflowed => Left = 0 /\ step > 1
      /\ Left = 0 /\ ~overflowed => at >= limit
      /\ Left > 0 => step > 0 /\ at + (Left - 1) * step < limit
  BY <1>1 DEF CountIsExact, Left, TypeOK
<1>5. Left > 0 => (Left - 1) * step \in Nat
  <2> HIDE DEF step
  <2>1. \A a, b \in Nat : a * b \in Nat
    BY Z3
  <2>2. Left > 0 => Left - 1 \in Nat /\ step \in Nat
    BY <1>3, <1>4
  <2> QED BY <2>1, <2>2
<1> HIDE DEF at, limit, step
<1>6. ~overflowed => (iteration < tripCount <=> at < limit)
  BY <1>3, <1>4, <1>5
<1>7. overflowed => iteration = tripCount /\ step > 1
  BY <1>1, <1>4 DEF TypeOK
<1> QED BY <1>6, <1>7 DEF at, limit, step

\* As long as iterations are left, and no longer, the counter is below the limit;
\* only the last iteration can overflow it, and then the step is above one.
THEOREM CountingIsCondition == Spec => []CountsAsTheCondition
BY LoopInvariant, CountIsCondition, PTL

-----------------------------------------------------------------------------
(* The refinement.                                                          *)

LEMMA BodyIterates ==
  ASSUME LoopIInv, ExecuteBody, UNCHANGED <<loop, captured>>,
         TRUE \in While!Holds(loop, carry, captured),
         phase # "ended", phase' # "ended"
  PROVE  While!Iterate
<1>1. carry' \in While!Body(loop, carry, captured)
  BY BodyOutputs DEF LoopIInv
<1> QED BY <1>1 DEF While!Iterate

LEMMA StepIsWhileStep ==
  ASSUME LoopIInv, [Next]_vars
  PROVE  [While!Next]_While!vars
<1> USE DEF While!Next, While!vars
<1>1. CASE BeginConditional
  BY <1>1 DEF BeginConditional
<1>2. CASE BeginCounted
  BY <1>2 DEF BeginCounted
<1>3. CASE Condition
  BY <1>3 DEF Condition, While!End, LoopIInv, OnlyCounted
<1>4. CASE ConditionalIteration
  BY <1>4, BodyIterates DEF ConditionalIteration, LoopIInv, BodyIsDue
<1>5. CASE CountedIteration
  <2>1. /\ phase = "counted" /\ iteration < tripCount /\ phase' = phase
        /\ ExecuteBody /\ UNCHANGED <<loop, captured>>
    BY <1>5 DEF CountedIteration
  <2>2. carry[loop.counter] < Bound(loop.limit)
    BY <2>1, CountIsCondition DEF CountsAsTheCondition, LoopIInv, TypeOK
  <2>3. IsCounted /\ TypeOK /\ KeptAreValues
    BY <2>1 DEF LoopIInv, CountIsExact
  <2>4. TRUE \in While!Holds(loop, carry, captured)
    BY <2>2, <2>3, CountedBounds
  <2> QED BY <2>1, <2>4, BodyIterates
<1>6. CASE CountedEnd /\ overflowed
  BY <1>6 DEF CountedEnd
<1>7. CASE CountedEnd /\ ~overflowed
  <2>1. /\ phase = "counted" /\ iteration = tripCount /\ phase' = "ended"
        /\ UNCHANGED <<loop, captured, carry, overflowed>>
    BY <1>7 DEF CountedEnd
  <2>2. IsCounted /\ TypeOK /\ KeptAreValues
    BY <2>1 DEF LoopIInv, CountIsExact
  <2>3. ~(carry[loop.counter] < Bound(loop.limit))
    BY <1>7, <2>1, <2>2, CountIsCondition DEF CountsAsTheCondition, TypeOK
  <2>4. FALSE \in While!Holds(loop, carry, captured)
    BY <2>2, <2>3, CountedBounds
  <2> QED BY <1>7, <2>1, <2>4 DEF While!End
<1>8. CASE UNCHANGED vars
  BY <1>8 DEF vars
<1> QED BY <1>1, <1>2, <1>3, <1>4, <1>5, <1>6, <1>7, <1>8 DEF Next

\* The lowered loop, counted or not, does what stablehlo.while means: every body
\* program it runs is an iteration, and it ends where the condition fails.  The end
\* of a counted loop that its last addition overflowed is the exception: it maps to
\* no step of the while (While, CountedLoop).
THEOREM LoopRefinement == Spec => ImplementsWhile
<1>1. Init => While!Init
  BY DEF Init, While!Init
<1>2. LoopIInv /\ [Next]_vars => [While!Next]_While!vars
  BY StepIsWhileStep
<1> QED BY <1>1, <1>2, LoopInvariant, PTL DEF Spec, ImplementsWhile, While!Spec

-----------------------------------------------------------------------------
(* Part 2: the tensors of programs in one another (NestedTensors).           *)
(*                                                                           *)
(* The inductive invariant, of a stack s, the flags f and the tensors h of    *)
(* the framework, so that the steps that retain and those that run a program  *)
(* can be told apart.                                                         *)

Lists == Seq(Tensors)

\* A tensor that is there twice has one flag.
Retentions ==
  {r \in [tensors : Lists, flags : Seq(BOOLEAN)] :
     /\ Len(r.flags) = Len(r.tensors)
     /\ \A i, j \in 1 .. Len(r.tensors) : r.tensors[i] = r.tensors[j] => r.flags[i] = r.flags[j]}

Pools == UNION {[S -> Nat \ {0}] : S \in SUBSET Tensors}

Loops ==
  [kind : {"while"}, inputs : Lists, outs : Nat, outer : Retentions, inner : Retentions]
Cases == [kind : {"case"}, inputs : Lists, outer : Retentions, inner : Retentions]

Programs ==
  [what : {"main", "condition", "body", "branch"}, traced : BOOLEAN, called : BOOLEAN,
   op : {NoOp} \cup Loops \cup Cases, pool : Pools]

NamesOf(p) == BagToSet(p.pool)
InputsOf(p) == IF p.op = NoOp THEN {} ELSE ToSet(p.op.inputs)
OuterOf(p) == IF p.op = NoOp THEN NoRetention ELSE p.op.outer
InnerOf(p) == IF p.op = NoOp THEN NoRetention ELSE p.op.inner

\* Retention r ends t's being retained.
Frees(r, t) == \E i \in DOMAIN r.tensors : r.tensors[i] = t /\ ~r.flags[i]

\* A program that runs another one has an operation, whose values are retained.
Runs(p) == p.op # NoOp /\ InputsOf(p) \subseteq RetainedBy(p)

ProperAt(p, d) ==
  /\ p.op # NoOp => d < MaxDepth /\ p.called
  /\ p.op.kind = "while" => Len(p.op.inputs) = LoopInputs /\ p.op.outs <= LoopInputs

Shaped(s) ==
  \A d \in 1 .. Len(s) : (d < Len(s) => Runs(s[d])) /\ ProperAt(s[d], d)

\* Tensors of the framework, constants and slots are retained, by whatever is left.
KeepsRetained(s, f, h) ==
  \A t \in h \cup {Constant} \cup Slots :
    f[t] /\ \A d \in 1 .. Len(s) : ~Frees(OuterOf(s[d]), t) /\ ~Frees(InnerOf(s[d]), t)

\* A tensor that is not retained has one name, or is a value of the last loop.
Alone(s, f) ==
  \A t \in Tensors : \A d \in 1 .. Len(s) :
    ~f[t] /\ t \in NamesOf(s[d]) =>
      /\ s[d].pool[t] = 1
      /\ \A e \in 1 .. Len(s) : t \notin InputsOf(s[e]) /\ (e # d => t \notin NamesOf(s[e]))

\* What an operation retains stays so until it ends.
StayRetained(s, f) ==
  \A d \in 1 .. Len(s) : \A t \in RetainedBy(s[d]) :
    /\ f[t]
    /\ \A e \in d + 1 .. Len(s) : ~Frees(OuterOf(s[e]), t) /\ ~Frees(InnerOf(s[e]), t)
    /\ t \in ToSet(OuterOf(s[d]).tensors) => ~Frees(InnerOf(s[d]), t)

\* What will not be retained has one name then, or is a value of the loop.
AloneAgain(s) ==
  \A d \in 1 .. Len(s) : \A t \in Tensors :
    /\ Frees(OuterOf(s[d]), t) =>
         /\ t \in NamesOf(s[d]) /\ s[d].pool[t] = 1
         /\ \A e \in 1 .. d - 1 : t \notin NamesOf(s[e]) /\ t \notin InputsOf(s[e])
    /\ Frees(InnerOf(s[d]), t) => \A e \in 1 .. d : t \notin NamesOf(s[e])

\* A trace's slot has names in its program and in those this one runs, and where
\* the program returned it.
SlotsPublished(s) ==
  \A k \in 1 .. MaxDepth : \A e \in 1 .. Len(s) :
    Slot(k) \in NamesOf(s[e]) \cup InputsOf(s[e]) =>
      \/ k <= e /\ s[k].traced
      \/ k > e /\ s[e].called /\ s[e].op = NoOp

Good(s, f, h) ==
  /\ s \in Seq(Programs) /\ Len(s) <= MaxDepth /\ f \in [Tensors -> BOOLEAN] /\ h \in SUBSET Own
  /\ Shaped(s) /\ KeepsRetained(s, f, h) /\ Alone(s, f) /\ StayRetained(s, f)
  /\ AloneAgain(s) /\ SlotsPublished(s)

\* A branch runs for a case, a condition or a body for a loop.
Called(s) ==
  \A d \in 1 .. Len(s) :
    /\ d = 1 => s[d].what = "main"
    /\ d > 1 /\ s[d].what \in {"condition", "body"} => s[d - 1].op.kind = "while"
    /\ d > 1 /\ s[d].what = "branch" => s[d - 1].op.kind = "case"

TensorsIInv ==
  /\ freed = {} /\ Called(stack)
  /\ Good(stack, retain, held)
  /\ Depth > 0 => InnerOf(Top) = NoRetention

-----------------------------------------------------------------------------
(* Sequences and pools.                                                      *)

LEMMA HasFirst ==
  ASSUME NEW D, D # {}, D \subseteq Nat
  PROVE  \E i \in D : \A j \in D : i <= j
<1> DEFINE Below == OpToRel(<, Nat)
<1>1. IsWellFoundedOn(Below, Nat)
  BY NatLessThanWellFounded
<1>2. PICK i \in D : \A j \in D : ~ (<<j, i>> \in Below)
  <2> HIDE DEF Below
  <2> QED BY <1>1, WFMin
<1>3. \A j \in D : ~ (j < i)
  BY <1>2 DEF OpToRel
<1> QED BY <1>3

LEMMA HasLast ==
  ASSUME NEW n \in Nat, NEW R \in SUBSET (1 .. n), R # {}
  PROVE  \E i \in R : \A j \in R : j <= i
<1> DEFINE D == {n - i : i \in R}
<1>0. \A i \in R : i \in Nat /\ n - i \in Nat
  OBVIOUS
<1>1. D # {} /\ D \subseteq Nat
  <2>1. \A d \in D : \E i \in R : d = n - i
    OBVIOUS
  <2>2. D # {}
    OBVIOUS
  <2> HIDE DEF D
  <2> QED BY <1>0, <2>1, <2>2
<1>2. PICK d \in D : \A e \in D : d <= e
  <2> HIDE DEF D
  <2> QED BY <1>1, HasFirst
<1>3. PICK i \in R : d = n - i
  BY <1>2
<1>4. \A j \in R : j <= i
  <2> SUFFICES ASSUME NEW j \in R PROVE j <= i
    OBVIOUS
  <2>1. n - j \in D
    OBVIOUS
  <2>2. n - i <= n - j /\ i \in Nat /\ j \in Nat
    BY <1>0, <1>2, <1>3, <2>1
  <2> QED BY <2>2
<1> QED BY <1>4

LEMMA ListIs ==
  ASSUME NEW l \in Lists
  PROVE  /\ Len(l) \in Nat /\ DOMAIN l = 1 .. Len(l) /\ ToSet(l) \subseteq Tensors
         /\ \A t : t \in ToSet(l) <=> \E i \in 1 .. Len(l) : l[i] = t
BY DEF Lists, ToSet

LEMMA LastPlaceIs ==
  ASSUME NEW l \in Lists, NEW t \in ToSet(l)
  PROVE  LastPlace(t, l) \in DOMAIN l /\ l[LastPlace(t, l)] = t
<1> DEFINE R == {i \in DOMAIN l : l[i] = t}
<1>1. Len(l) \in Nat /\ DOMAIN l = 1 .. Len(l) /\ R \in SUBSET (1 .. Len(l)) /\ R # {}
  BY ListIs
<1>2. \E i \in R : \A j \in R : j <= i
  <2> HIDE DEF R
  <2> QED BY <1>1, HasLast
<1>3. \E i \in DOMAIN l : l[i] = t /\ \A j \in DOMAIN l : l[j] = t => j <= i
  BY <1>2
<1> QED BY <1>3 DEF LastPlace

LEMMA RetentionIs ==
  ASSUME NEW r \in Retentions
  PROVE  /\ r.tensors \in Lists /\ DOMAIN r.flags = DOMAIN r.tensors
         /\ \A i \in DOMAIN r.tensors : r.flags[i] \in BOOLEAN
         /\ \A i, j \in DOMAIN r.tensors : r.tensors[i] = r.tensors[j] => r.flags[i] = r.flags[j]
<1>1. /\ r.tensors \in Lists /\ r.flags \in Seq(BOOLEAN) /\ Len(r.flags) = Len(r.tensors)
      /\ \A i, j \in 1 .. Len(r.tensors) : r.tensors[i] = r.tensors[j] => r.flags[i] = r.flags[j]
  BY DEF Retentions
<1>2. DOMAIN r.tensors = 1 .. Len(r.tensors) /\ DOMAIN r.flags = 1 .. Len(r.flags)
  BY <1>1, ListIs
<1> QED BY <1>1, <1>2

\* restore() unretains what the retention frees, and nothing else of its own.
LEMMA RestoredIs ==
  ASSUME NEW r \in Retentions, NEW inputs, NEW f \in [Tensors -> BOOLEAN]
  PROVE  /\ Restored(r, inputs, f) \in [Tensors -> BOOLEAN]
         /\ \A t \in Tensors : t \notin ToSet(r.tensors) => Restored(r, inputs, f)[t] = f[t]
         /\ \A t \in ToSet(r.tensors) : Restored(r, inputs, f)[t] <=> ~Frees(r, t)
<1> DEFINE g == Restored(r, inputs, f)
<1>1. r.tensors \in Lists /\ ToSet(r.tensors) \subseteq Tensors
  BY RetentionIs, ListIs
<1>2. g = [t \in Tensors |-> IF t \in ToSet(r.tensors) THEN r.flags[LastPlace(t, r.tensors)] ELSE f[t]]
  BY DEF Restored, PutBack
<1>3. ASSUME NEW t \in ToSet(r.tensors)
      PROVE  r.flags[LastPlace(t, r.tensors)] \in BOOLEAN /\ (r.flags[LastPlace(t, r.tensors)] <=> ~Frees(r, t))
  <2> DEFINE i == LastPlace(t, r.tensors)
  <2>1. i \in DOMAIN r.tensors /\ r.tensors[i] = t
    BY <1>1, LastPlaceIs
  <2> HIDE DEF i
  <2>2. r.flags[i] \in BOOLEAN /\ \A j \in DOMAIN r.tensors : r.tensors[j] = t => r.flags[j] = r.flags[i]
    BY <2>1, RetentionIs
  <2>3. r.flags[i] <=> ~Frees(r, t)
    BY <2>1, <2>2 DEF Frees
  <2> QED BY <2>2, <2>3 DEF i
<1>4. \A t \in Tensors : g[t] \in BOOLEAN
  BY <1>2, <1>3
<1>5. g \in [Tensors -> BOOLEAN]
  <2>1. g = [t \in Tensors |-> g[t]]
    BY <1>2
  <2> HIDE DEF g
  <2> QED BY <1>4, <2>1
<1> QED BY <1>1, <1>2, <1>3, <1>5

LEMMA NothingRetained ==
  /\ NoRetention \in Retentions /\ ToSet(NoRetention.tensors) = {} /\ \A t : ~Frees(NoRetention, t)
<1>1. NoRetention.tensors = << >> /\ NoRetention.flags = << >>
  BY DEF NoRetention
<1>2. << >> \in Lists /\ << >> \in Seq(BOOLEAN) /\ Len(<< >>) = 0
  BY DEF Lists
<1>3. NoRetention \in Retentions
  BY <1>2 DEF NoRetention, Retentions
<1> QED BY <1>1, <1>3 DEF ToSet, Frees

LEMMA RetainingIs ==
  ASSUME NEW l \in Lists, retain \in [Tensors -> BOOLEAN]
  PROVE  /\ Retaining(l) \in Retentions /\ Retaining(l).tensors = l
         /\ \A t : Frees(Retaining(l), t) <=> t \in ToSet(l) /\ ~retain[t]
<1> DEFINE fl == [i \in DOMAIN l |-> retain[l[i]]]
<1>1. Len(l) \in Nat /\ DOMAIN l = 1 .. Len(l) /\ ToSet(l) \subseteq Tensors
  BY ListIs
<1>2. \A i \in DOMAIN l : l[i] \in Tensors /\ retain[l[i]] \in BOOLEAN
  BY <1>1 DEF ToSet
<1>3. fl \in Seq(BOOLEAN) /\ Len(fl) = Len(l)
  BY <1>1, <1>2
<1>4. Retaining(l) = [tensors |-> l, flags |-> fl]
  BY DEF Retaining
<1>5. \A i \in DOMAIN l : fl[i] = retain[l[i]]
  OBVIOUS
<1> HIDE DEF fl
<1>6. Retaining(l).tensors = l /\ Retaining(l).flags = fl
  BY <1>4
<1>7. Retaining(l) \in Retentions
  BY <1>1, <1>3, <1>4, <1>5 DEF Retentions
<1>8. ASSUME NEW t PROVE Frees(Retaining(l), t) <=> t \in ToSet(l) /\ ~retain[t]
  BY <1>5, <1>6 DEF Frees, ToSet
<1> QED BY <1>6, <1>7, <1>8

LEMMA PoolIs ==
  ASSUME NEW pool \in Pools
  PROVE  /\ BagToSet(pool) \subseteq Tensors /\ pool = [t \in BagToSet(pool) |-> pool[t]]
         /\ \A t \in BagToSet(pool) : pool[t] \in Nat /\ pool[t] # 0
<1>1. PICK S \in SUBSET Tensors : pool \in [S -> Nat \ {0}]
  BY DEF Pools
<1> QED BY <1>1 DEF BagToSet

LEMMA IsPool ==
  ASSUME NEW pool, BagToSet(pool) \subseteq Tensors, pool = [t \in BagToSet(pool) |-> pool[t]],
         \A t \in BagToSet(pool) : pool[t] \in Nat /\ pool[t] # 0
  PROVE  pool \in Pools
<1>1. pool \in [BagToSet(pool) -> Nat \ {0}]
  BY DEF BagToSet
<1> QED BY <1>1 DEF Pools

\* How often a tensor is in a list.
LEMMA Times ==
  ASSUME NEW l \in Lists, NEW t
  PROVE  LET n == Cardinality({i \in DOMAIN l : l[i] = t}) IN
         /\ n \in Nat /\ (n = 0 <=> t \notin ToSet(l))
         /\ t \in ToSet(l) /\ t \notin Repeated(l) => n = 1
<1> DEFINE P == {i \in DOMAIN l : l[i] = t}
<1>1. Len(l) \in Nat /\ DOMAIN l = 1 .. Len(l)
  BY ListIs
<1>2. IsFiniteSet(1 .. Len(l))
  BY <1>1, FS_Interval
<1>3. IsFiniteSet(P)
  <2>1. P \in SUBSET (1 .. Len(l))
    BY <1>1
  <2> HIDE DEF P
  <2> QED BY <1>2, <2>1, FS_Subset
<1>4. P = {} <=> t \notin ToSet(l)
  BY DEF ToSet
<1>5. ASSUME t \in ToSet(l), t \notin Repeated(l) PROVE \E i : P = {i}
  <2>1. PICK i \in DOMAIN l : l[i] = t
    BY <1>5 DEF ToSet
  <2>2. \A j \in DOMAIN l : l[j] = t => j = i
    <3> SUFFICES ASSUME NEW j \in DOMAIN l, l[j] = t, j # i PROVE FALSE
      OBVIOUS
    <3>1. i < j \/ j < i
      BY <1>1
    <3> QED BY <1>5, <2>1, <3>1 DEF Repeated
  <2> QED BY <2>1, <2>2
<1> HIDE DEF P
<1>6. Cardinality(P) \in Nat /\ (Cardinality(P) = 0 <=> P = {})
  BY <1>3, FS_EmptySet, FS_CardinalityType
<1>7. t \in ToSet(l) /\ t \notin Repeated(l) => Cardinality(P) = 1
  BY <1>3, <1>5, FS_Singleton
<1> QED BY <1>4, <1>6, <1>7 DEF P

LEMMA NamedIs ==
  ASSUME NEW pool \in Pools, NEW l \in Lists
  PROVE  /\ Named(pool, l) \in Pools
         /\ BagToSet(Named(pool, l)) = BagToSet(pool) \cup ToSet(l)
         /\ \A t \in BagToSet(pool) \ ToSet(l) : Named(pool, l)[t] = pool[t]
         /\ \A t \in ToSet(l) \ (BagToSet(pool) \cup Repeated(l)) : Named(pool, l)[t] = 1
         /\ \A t \in ToSet(l) : Copies(t, Named(pool, l)) > Copies(t, pool)
<1> DEFINE new == Named(pool, l)
           n(t) == Cardinality({i \in DOMAIN l : l[i] = t})
<1>1. \A t : /\ n(t) \in Nat /\ (n(t) = 0 <=> t \notin ToSet(l))
             /\ t \in ToSet(l) /\ t \notin Repeated(l) => n(t) = 1
  BY Times
<1>2. new = [t \in BagToSet(pool) \cup ToSet(l) |-> Copies(t, pool) + n(t)]
  BY DEF Named
<1> HIDE DEF n, new
<1>3. BagToSet(new) = BagToSet(pool) \cup ToSet(l)
  BY <1>2 DEF BagToSet
<1>4. \A t \in BagToSet(new) : new[t] = Copies(t, pool) + n(t)
  BY <1>2, <1>3
<1>5. \A t : Copies(t, pool) = IF t \in BagToSet(pool) THEN pool[t] ELSE 0
  BY DEF Copies, BagIn
<1>6. \A t \in BagToSet(pool) : pool[t] \in Nat /\ pool[t] # 0
  BY PoolIs
<1>7. \A t \in BagToSet(new) : new[t] \in Nat /\ new[t] # 0
  BY <1>1, <1>3, <1>4, <1>5, <1>6
<1>8. new \in Pools
  <2>1. BagToSet(new) \subseteq Tensors
    BY <1>3, PoolIs, ListIs
  <2>2. new = [t \in BagToSet(new) |-> new[t]]
    BY <1>2 DEF BagToSet
  <2> QED BY <1>7, <2>1, <2>2, IsPool
<1>9. \A t \in ToSet(l) : Copies(t, new) > Copies(t, pool)
  <2> SUFFICES ASSUME NEW t \in ToSet(l) PROVE Copies(t, new) > Copies(t, pool)
    OBVIOUS
  <2>1. Copies(t, new) = Copies(t, pool) + n(t) /\ n(t) \in Nat /\ n(t) # 0
    BY <1>1, <1>3, <1>4 DEF Copies, BagIn
  <2>2. Copies(t, pool) \in Nat
    BY <1>5, <1>6
  <2> QED BY <2>1, <2>2
<1>10. \A t \in BagToSet(pool) \ ToSet(l) : new[t] = pool[t]
  BY <1>1, <1>3, <1>4, <1>5, <1>6
<1>11. \A t \in ToSet(l) \ (BagToSet(pool) \cup Repeated(l)) : new[t] = 1
  BY <1>1, <1>3, <1>4, <1>5
<1> QED BY <1>3, <1>8, <1>9, <1>10, <1>11 DEF new

LEMMA WithoutIs ==
  ASSUME NEW pool \in Pools, NEW t \in BagToSet(pool)
  PROVE  /\ Without(pool, t) \in Pools
         /\ BagToSet(Without(pool, t)) = IF pool[t] = 1 THEN BagToSet(pool) \ {t} ELSE BagToSet(pool)
         /\ \A u \in BagToSet(pool) \ {t} : Without(pool, t)[u] = pool[u]
<1>1. /\ BagToSet(pool) \subseteq Tensors /\ pool = [u \in BagToSet(pool) |-> pool[u]]
      /\ \A u \in BagToSet(pool) : pool[u] \in Nat /\ pool[u] # 0
  BY PoolIs
<1> DEFINE new == Without(pool, t)
<1>2. BagToSet(new) = (IF pool[t] = 1 THEN BagToSet(pool) \ {t} ELSE BagToSet(pool))
      /\ new = [u \in BagToSet(new) |-> new[u]]
  BY <1>1 DEF Without, BagToSet
<1>3. \A u \in BagToSet(pool) \ {t} : new[u] = pool[u]
  BY <1>1 DEF Without, BagToSet
<1>4. pool[t] # 1 => new[t] \in Nat /\ new[t] # 0
  BY <1>1 DEF Without, BagToSet
<1> HIDE DEF new
<1>5. new \in Pools
  BY <1>1, <1>2, <1>3, <1>4, IsPool
<1> QED BY <1>2, <1>3, <1>5 DEF new

-----------------------------------------------------------------------------
(* Programs and stacks.                                                      *)

LEMMA ProgramIs ==
  ASSUME NEW p \in Programs
  PROVE  /\ OuterOf(p) \in Retentions /\ InnerOf(p) \in Retentions /\ p.pool \in Pools
         /\ RetainedBy(p) = ToSet(OuterOf(p).tensors) \cup ToSet(InnerOf(p).tensors)
         /\ NamesOf(p) \subseteq Tensors /\ InputsOf(p) \subseteq Tensors /\ RetainedBy(p) \subseteq Tensors
<1>1. p.pool \in Pools /\ p.op \in {NoOp} \cup Loops \cup Cases
  BY DEF Programs
<1>2. NamesOf(p) \subseteq Tensors
  BY <1>1, PoolIs DEF NamesOf
<1>3. p.op # NoOp => p.op.inputs \in Lists /\ p.op.outer \in Retentions /\ p.op.inner \in Retentions
  BY <1>1 DEF Loops, Cases
<1>4. OuterOf(p) \in Retentions /\ InnerOf(p) \in Retentions
  BY <1>3, NothingRetained DEF OuterOf, InnerOf
<1>5. RetainedBy(p) = ToSet(OuterOf(p).tensors) \cup ToSet(InnerOf(p).tensors)
  BY NothingRetained DEF RetainedBy, OuterOf, InnerOf
<1>6. InputsOf(p) \subseteq Tensors
  BY <1>3, ListIs DEF InputsOf
<1>7. RetainedBy(p) \subseteq Tensors
  BY <1>4, <1>5, RetentionIs, ListIs
<1> QED BY <1>1, <1>2, <1>4, <1>5, <1>6, <1>7

Idle(p) == p.op = NoOp

LEMMA IdleIs ==
  ASSUME NEW p, Idle(p)
  PROVE  /\ OuterOf(p) = NoRetention /\ InnerOf(p) = NoRetention /\ RetainedBy(p) = {} /\ InputsOf(p) = {}
         /\ p.op.kind # "while" /\ \A t : ~Frees(OuterOf(p), t) /\ ~Frees(InnerOf(p), t)
<1>1. p.op.kind = "none"
  BY DEF Idle, NoOp
<1> QED BY <1>1, NothingRetained DEF Idle, OuterOf, InnerOf, RetainedBy, InputsOf

LEMMA NewProgram ==
  ASSUME NEW l \in Lists, NEW what \in {"main", "condition", "body", "branch"}
  PROVE  /\ Program(l, what) \in Programs /\ NamesOf(Program(l, what)) = ToSet(l)
         /\ Idle(Program(l, what)) /\ Program(l, what).what = what
         /\ ~Program(l, what).traced /\ ~Program(l, what).called
<1>1. BagToSet(EmptyBag) = {} /\ EmptyBag = [t \in {} |-> EmptyBag[t]]
  BY DEF EmptyBag, SetToBag, BagToSet
<1>2. EmptyBag \in Pools
  BY <1>1, IsPool
<1> DEFINE pool == Named(EmptyBag, l)
<1>3. pool \in Pools /\ BagToSet(pool) = ToSet(l)
  BY <1>1, <1>2, NamedIs
<1> HIDE DEF pool
<1>4. Program(l, what) = [what |-> what, traced |-> FALSE, called |-> FALSE, op |-> NoOp, pool |-> pool]
  BY DEF Program, pool
<1>5. Program(l, what) \in Programs
  BY <1>3, <1>4 DEF Programs
<1> QED BY <1>3, <1>4, <1>5 DEF NamesOf, Idle

\* u is the first n - 1 programs of s, and p.
Topped(u, s, n, p) ==
  /\ u \in Seq(Programs) /\ n \in Nat \ {0} /\ Len(u) = n /\ u[n] = p
  /\ \A d \in 1 .. n - 1 : u[d] = s[d]

LEMMA ReplacedIs ==
  ASSUME stack \in Seq(Programs), Depth > 0, NEW p \in Programs
  PROVE  Topped(Replaced(Depth, p), stack, Depth, p)
BY DEF Topped, Replaced, Depth

LEMMA PushedIs ==
  ASSUME NEW s \in Seq(Programs), NEW p \in Programs
  PROVE  Topped(Append(s, p), s, Len(s) + 1, p)
BY DEF Topped

LEMMA PoppedIs ==
  ASSUME stack \in Seq(Programs), Depth > 1, NEW p \in Programs
  PROVE  Topped(Popped(p), stack, Depth - 1, p)
<1> DEFINE low == SubSeq(stack, 1, Depth - 2)
<1>1. Depth \in Nat /\ Depth = Len(stack) /\ \A d \in 1 .. Depth : stack[d] \in Programs
  BY DEF Depth
<1>2. low \in Seq(Programs) /\ Len(low) = Depth - 2 /\ \A d \in 1 .. Depth - 2 : low[d] = stack[d]
  <2>1. \A d \in 1 .. Depth - 2 : stack[d] \in Programs
    BY <1>1
  <2>2. /\ low \in Seq(Programs)
        /\ Len(low) = IF 1 <= Depth - 2 THEN Depth - 2 - 1 + 1 ELSE 0
        /\ \A d \in 1 .. Depth - 2 - 1 + 1 : low[d] = stack[1 + d - 1]
    BY <1>1, <2>1, SubSeqProperties
  <2> QED BY <1>1, <2>2
<1> HIDE DEF low
<1>3. Topped(Append(low, p), low, Depth - 2 + 1, p)
  BY <1>2, PushedIs
<1> QED BY <1>1, <1>2, <1>3 DEF Topped, Popped, low

LEMMA ShapedIs ==
  ASSUME NEW s \in Seq(Programs), Shaped(s), NEW n, NEW p, NEW u, Topped(u, s, n, p),
         n <= Len(s) + 1, n = Len(s) + 1 /\ n > 1 => Runs(s[n - 1]), ProperAt(p, n)
  PROVE  Shaped(u)
<1>1. Len(s) \in Nat /\ n \in Nat /\ Len(u) = n /\ u[n] = p /\ \A d \in 1 .. n - 1 : u[d] = s[d]
  BY DEF Topped
<1> SUFFICES ASSUME NEW d \in 1 .. n PROVE (d < n => Runs(u[d])) /\ ProperAt(u[d], d)
  BY <1>1 DEF Shaped
<1>2. CASE d = n
  BY <1>1, <1>2
<1>3. CASE d < n
  <2>1. u[d] = s[d] /\ d \in 1 .. Len(s)
    BY <1>1, <1>3
  <2>2. Runs(s[d])
    <3>1. CASE d < Len(s)
      BY <2>1, <3>1 DEF Shaped
    <3>2. CASE d = Len(s)
      BY <1>1, <1>3, <3>2
    <3> QED BY <1>1, <2>1, <3>1, <3>2
  <2>3. ProperAt(s[d], d)
    BY <2>1 DEF Shaped
  <2> QED BY <2>1, <2>2, <2>3
<1> QED BY <1>1, <1>2, <1>3

LEMMA CalledIs ==
  ASSUME NEW s \in Seq(Programs), Called(s), NEW n, NEW p, NEW u, Topped(u, s, n, p),
         n <= Len(s), p.what = s[n].what
  PROVE  Called(u)
<1>1. Len(s) \in Nat /\ n \in Nat /\ n >= 1 /\ Len(u) = n /\ u[n] = p /\ \A d \in 1 .. n - 1 : u[d] = s[d]
  BY DEF Topped
<1> SUFFICES ASSUME NEW d \in 1 .. n
             PROVE  /\ d = 1 => u[d].what = "main"
                    /\ d > 1 /\ u[d].what \in {"condition", "body"} => u[d - 1].op.kind = "while"
                    /\ d > 1 /\ u[d].what = "branch" => u[d - 1].op.kind = "case"
  BY <1>1 DEF Called
<1>2. d \in 1 .. Len(s) /\ u[d].what = s[d].what /\ (d > 1 => u[d - 1] = s[d - 1])
  BY <1>1
<1> QED BY <1>2 DEF Called

LEMMA KeepsRetainedIs ==
  ASSUME NEW s \in Seq(Programs), NEW f, NEW h, KeepsRetained(s, f, h), NEW n, NEW p, NEW u, Topped(u, s, n, p),
         n <= Len(s) + 1, NEW g,
         \A t \in h \cup {Constant} \cup Slots : g[t] /\ ~Frees(OuterOf(p), t) /\ ~Frees(InnerOf(p), t)
  PROVE  KeepsRetained(u, g, h)
<1>1. Len(s) \in Nat /\ n \in Nat /\ Len(u) = n /\ u[n] = p /\ \A d \in 1 .. n - 1 : u[d] = s[d]
  BY DEF Topped
<1> SUFFICES ASSUME NEW t \in h \cup {Constant} \cup Slots, NEW d \in 1 .. n
             PROVE  ~Frees(OuterOf(u[d]), t) /\ ~Frees(InnerOf(u[d]), t)
  BY <1>1 DEF KeepsRetained
<1>2. d = n \/ (u[d] = s[d] /\ d \in 1 .. Len(s))
  BY <1>1
<1> QED BY <1>1, <1>2 DEF KeepsRetained

LEMMA StayRetainedIs ==
  ASSUME NEW s \in Seq(Programs), NEW f, StayRetained(s, f), NEW n, NEW p, NEW u, Topped(u, s, n, p),
         n <= Len(s) + 1, NEW g,
         \A d \in 1 .. n - 1 : \A t \in RetainedBy(s[d]) :
           g[t] /\ ~Frees(OuterOf(p), t) /\ ~Frees(InnerOf(p), t),
         \A t \in RetainedBy(p) : g[t] /\ (t \in ToSet(OuterOf(p).tensors) => ~Frees(InnerOf(p), t))
  PROVE  StayRetained(u, g)
<1>1. Len(s) \in Nat /\ n \in Nat /\ Len(u) = n /\ u[n] = p /\ \A d \in 1 .. n - 1 : u[d] = s[d]
  BY DEF Topped
<1> SUFFICES ASSUME NEW d \in 1 .. n, NEW t \in RetainedBy(u[d])
             PROVE  /\ g[t]
                    /\ \A e \in d + 1 .. n : ~Frees(OuterOf(u[e]), t) /\ ~Frees(InnerOf(u[e]), t)
                    /\ t \in ToSet(OuterOf(u[d]).tensors) => ~Frees(InnerOf(u[d]), t)
  BY <1>1 DEF StayRetained
<1>2. CASE d = n
  <2>1. d + 1 .. n = {}
    BY <1>1, <1>2
  <2> QED BY <1>1, <1>2, <2>1
<1>3. CASE d < n
  <2>1. u[d] = s[d] /\ d \in 1 .. n - 1 /\ d \in 1 .. Len(s) /\ t \in RetainedBy(s[d])
    BY <1>1, <1>3
  <2>2. /\ \A e \in d + 1 .. Len(s) : ~Frees(OuterOf(s[e]), t) /\ ~Frees(InnerOf(s[e]), t)
        /\ t \in ToSet(OuterOf(s[d]).tensors) => ~Frees(InnerOf(s[d]), t)
    BY <2>1 DEF StayRetained
  <2>3. ASSUME NEW e \in d + 1 .. n PROVE ~Frees(OuterOf(u[e]), t) /\ ~Frees(InnerOf(u[e]), t)
    <3>1. e = n \/ (u[e] = s[e] /\ e \in d + 1 .. Len(s))
      BY <1>1, <2>1
    <3> QED BY <1>1, <2>1, <2>2, <3>1
  <2> QED BY <2>1, <2>2, <2>3
<1> QED BY <1>1, <1>2, <1>3

LEMMA AloneAgainIs ==
  ASSUME NEW s \in Seq(Programs), AloneAgain(s), NEW n, NEW p, NEW u, Topped(u, s, n, p), n <= Len(s) + 1,
         \A t \in Tensors :
           /\ Frees(OuterOf(p), t) =>
                /\ t \in NamesOf(p) /\ p.pool[t] = 1
                /\ \A e \in 1 .. n - 1 : t \notin NamesOf(s[e]) /\ t \notin InputsOf(s[e])
           /\ Frees(InnerOf(p), t) => t \notin NamesOf(p) /\ \A e \in 1 .. n - 1 : t \notin NamesOf(s[e])
  PROVE  AloneAgain(u)
<1>1. Len(s) \in Nat /\ n \in Nat /\ Len(u) = n /\ u[n] = p /\ \A d \in 1 .. n - 1 : u[d] = s[d]
  BY DEF Topped
<1> SUFFICES ASSUME NEW d \in 1 .. n, NEW t \in Tensors
             PROVE  /\ Frees(OuterOf(u[d]), t) =>
                         /\ t \in NamesOf(u[d]) /\ u[d].pool[t] = 1
                         /\ \A e \in 1 .. d - 1 : t \notin NamesOf(u[e]) /\ t \notin InputsOf(u[e])
                    /\ Frees(InnerOf(u[d]), t) => \A e \in 1 .. d : t \notin NamesOf(u[e])
  BY <1>1 DEF AloneAgain
<1>2. CASE d = n
  <2>1. \A e \in 1 .. d : e = n \/ (e \in 1 .. n - 1 /\ u[e] = s[e])
    BY <1>1, <1>2
  <2>2. \A e \in 1 .. d - 1 : e \in 1 .. n - 1 /\ u[e] = s[e]
    BY <1>1, <1>2
  <2> QED BY <1>1, <1>2, <2>1, <2>2
<1>3. CASE d < n
  <2>1. d \in 1 .. Len(s) /\ \A e \in 1 .. d : u[e] = s[e]
    BY <1>1, <1>3
  <2>2. /\ Frees(OuterOf(s[d]), t) =>
             /\ t \in NamesOf(s[d]) /\ s[d].pool[t] = 1
             /\ \A e \in 1 .. d - 1 : t \notin NamesOf(s[e]) /\ t \notin InputsOf(s[e])
        /\ Frees(InnerOf(s[d]), t) => \A e \in 1 .. d : t \notin NamesOf(s[e])
    BY <2>1 DEF AloneAgain
  <2>3. u[d] = s[d] /\ \A e \in 1 .. d - 1 : u[e] = s[e]
    BY <2>1
  <2> QED BY <2>1, <2>2, <2>3
<1> QED BY <1>1, <1>2, <1>3

-----------------------------------------------------------------------------
(* What keeps the invariant.                                                 *)

\* The flags of tensors that nothing refers to any more do not matter.
HandlesIn(s, h) == h \cup {Constant} \cup Slots \cup UNION {HandlesOf(s[d]) : d \in 1 .. Len(s)}

LEMMA Forgetting ==
  ASSUME NEW s, NEW f, NEW h, NEW g, Good(s, f, h), g = [t \in Tensors |-> t \in HandlesIn(s, h) /\ f[t]]
  PROVE  Good(s, g, h)
<1>1. g \in [Tensors -> BOOLEAN]
  OBVIOUS
<1>2. \A t \in Tensors \cap HandlesIn(s, h) : g[t] <=> f[t]
  OBVIOUS
<1>3. Constant \in Tensors /\ Slots \subseteq Tensors /\ h \subseteq Tensors
  BY DEF Good, Tensors
<1>4. \A d \in 1 .. Len(s) : HandlesOf(s[d]) \subseteq HandlesIn(s, h)
  BY DEF HandlesIn
<1>5. \A d \in 1 .. Len(s) : NamesOf(s[d]) \subseteq HandlesOf(s[d]) /\ RetainedBy(s[d]) \subseteq HandlesOf(s[d])
  BY DEF NamesOf, NamedBy, HandlesOf
<1>6. \A d \in 1 .. Len(s) : NamesOf(s[d]) \subseteq Tensors /\ RetainedBy(s[d]) \subseteq Tensors
  BY ProgramIs DEF Good
<1>7. KeepsRetained(s, g, h)
  BY <1>2, <1>3 DEF Good, KeepsRetained, HandlesIn
<1>8. Alone(s, g)
  BY <1>2, <1>4, <1>5 DEF Good, Alone
<1>9. StayRetained(s, g)
  BY <1>2, <1>4, <1>5, <1>6 DEF Good, StayRetained
<1> QED BY <1>1, <1>7, <1>8, <1>9 DEF Good

\* No program runs.
LEMMA NoProgram ==
  ASSUME NEW f \in [Tensors -> BOOLEAN], NEW h \in SUBSET Own, \A t \in h \cup {Constant} \cup Slots : f[t]
  PROVE  Good(<< >>, f, h)
<1>1. << >> \in Seq(Programs) /\ Len(<< >>) = 0 /\ 0 <= MaxDepth
  BY TensorsAssumption
<1>2. 1 .. 0 = {}
  OBVIOUS
<1>3. /\ Shaped(<< >>) /\ KeepsRetained(<< >>, f, h) /\ Alone(<< >>, f)
      /\ StayRetained(<< >>, f) /\ AloneAgain(<< >>) /\ SlotsPublished(<< >>)
  BY <1>1, <1>2 DEF Shaped, KeepsRetained, Alone, StayRetained, AloneAgain, SlotsPublished
<1> QED BY <1>1, <1>3 DEF Good

\* What flags g do not retain of the names l, the first n programs do not use.
NewAlone(s, n, g, l) ==
  \A t \in Tensors : ~g[t] /\ t \in ToSet(l) =>
    t \notin Repeated(l) /\ \A e \in 1 .. n : t \notin NamesOf(s[e]) /\ (e < n => t \notin InputsOf(s[e]))

\* What they do not retain of the names of those has one name only.
NamesAlone(s, n, g) ==
  \A t \in Tensors : \A d \in 1 .. n : ~g[t] /\ t \in NamesOf(s[d]) =>
    /\ s[d].pool[t] = 1
    /\ \A e \in 1 .. n : (e # d => t \notin NamesOf(s[e])) /\ (e < n => t \notin InputsOf(s[e]))

\* The n-th program, which runs or runs on, has names l more.
LEMMA MoreNames ==
  ASSUME NEW s, NEW f, NEW h, NEW g \in [Tensors -> BOOLEAN], Good(s, f, h),
         NEW n \in 1 .. Len(s), NEW p \in Programs, NEW u, Topped(u, s, n, p),
         Idle(p), s[n].traced => p.traced, s[n].called => p.called,
         NEW l \in Lists, p.pool = Named(s[n].pool, l),
         NewAlone(s, n, g, l), NamesAlone(s, n, g),
         \A t \in h \cup {Constant} \cup Slots : g[t],
         \A d \in 1 .. n - 1 : \A t \in RetainedBy(s[d]) : g[t],
         \A k \in 1 .. MaxDepth : Slot(k) \in ToSet(l) => (k <= n /\ u[k].traced) \/ (k > n /\ p.called)
  PROVE  Good(u, g, h)
<1> USE DEF NewAlone, NamesAlone
<1>0. /\ u \in Seq(Programs) /\ Len(u) = n /\ n \in Nat /\ u[n] = p /\ \A d \in 1 .. n - 1 : u[d] = s[d]
      /\ s \in Seq(Programs) /\ Len(s) \in Nat /\ n <= Len(s) /\ n >= 1
  BY DEF Topped, Good
<1>1. s[n].pool \in Pools
  BY <1>0, ProgramIs
<1>2. /\ NamesOf(p) = NamesOf(s[n]) \cup ToSet(l)
      /\ \A t \in NamesOf(s[n]) \ ToSet(l) : p.pool[t] = s[n].pool[t]
      /\ \A t \in ToSet(l) \ (NamesOf(s[n]) \cup Repeated(l)) : p.pool[t] = 1
  BY <1>1, NamedIs DEF NamesOf
<1>3. /\ InputsOf(p) = {} /\ RetainedBy(p) = {} /\ p.op = NoOp /\ p.op.kind # "while"
      /\ \A t : ~Frees(OuterOf(p), t) /\ ~Frees(InnerOf(p), t)
  BY IdleIs DEF Idle
<1>4. Shaped(u)
  <2>1. ProperAt(p, n)
    BY <1>3 DEF ProperAt
  <2> QED BY <1>0, <2>1, ShapedIs DEF Good
<1>5. KeepsRetained(u, g, h)
  <2>1. KeepsRetained(s, f, h) /\ n <= Len(s) + 1
    BY <1>0 DEF Good
  <2>2. \A t \in h \cup {Constant} \cup Slots : g[t] /\ ~Frees(OuterOf(p), t) /\ ~Frees(InnerOf(p), t)
    BY <1>3
  <2> QED BY <1>0, <2>1, <2>2, KeepsRetainedIs
<1>6. Alone(u, g)
  <2> SUFFICES ASSUME NEW t \in Tensors, NEW d \in 1 .. n, ~g[t], t \in NamesOf(u[d])
               PROVE  /\ u[d].pool[t] = 1
                      /\ \A e \in 1 .. n : t \notin InputsOf(u[e]) /\ (e # d => t \notin NamesOf(u[e]))
    BY <1>0 DEF Alone
  <2>1. CASE d < n
    <3>1. u[d] = s[d] /\ t \in NamesOf(s[d])
      BY <1>0, <2>1
    <3>2. t \notin ToSet(l)
      BY <3>1
    <3>3. \A e \in 1 .. n : t \notin InputsOf(u[e]) /\ (e # d => t \notin NamesOf(u[e]))
      BY <1>0, <1>2, <1>3, <3>1, <3>2
    <3> QED BY <3>1, <3>3
  <2>2. CASE d = n /\ t \in ToSet(l)
    BY <1>0, <1>2, <1>3, <2>2
  <2>3. CASE d = n /\ t \notin ToSet(l)
    <3>1. t \in NamesOf(s[n])
      BY <1>0, <1>2, <2>3
    <3> QED BY <1>0, <1>2, <1>3, <2>3, <3>1
  <2> QED BY <2>1, <2>2, <2>3
<1>7. StayRetained(u, g)
  <2>1. \A d \in 1 .. n - 1 : \A t \in RetainedBy(s[d]) :
          /\ \A e \in d + 1 .. n - 1 : ~Frees(OuterOf(s[e]), t) /\ ~Frees(InnerOf(s[e]), t)
          /\ t \in ToSet(OuterOf(s[d]).tensors) => ~Frees(InnerOf(s[d]), t)
    BY <1>0 DEF Good, StayRetained
  <2> QED BY <1>0, <1>3, <2>1 DEF StayRetained
<1>8. AloneAgain(u)
  BY <1>0, <1>3 DEF Good, AloneAgain
<1>9. SlotsPublished(u)
  <2> SUFFICES ASSUME NEW k \in 1 .. MaxDepth, NEW e \in 1 .. n, Slot(k) \in NamesOf(u[e]) \cup InputsOf(u[e])
               PROVE  (k <= e /\ u[k].traced) \/ (k > e /\ u[e].called /\ u[e].op = NoOp)
    BY <1>0 DEF SlotsPublished
  <2>0. MaxDepth \in Nat
    BY TensorsAssumption
  <2>1. CASE e < n
    <3>1. u[e] = s[e] /\ (k <= e => u[k] = s[k])
      BY <1>0, <2>0, <2>1
    <3> QED BY <1>0, <3>1 DEF Good, SlotsPublished
  <2>2. CASE e = n /\ Slot(k) \in ToSet(l)
    BY <1>0, <1>3, <2>2
  <2>3. CASE e = n /\ Slot(k) \notin ToSet(l)
    <3>1. (k <= n /\ s[k].traced) \/ (k > n /\ s[n].called)
      BY <1>0, <1>2, <1>3, <2>3 DEF Good, SlotsPublished
    <3>2. k < n => u[k] = s[k]
      BY <1>0, <2>0
    <3> QED BY <1>0, <1>3, <2>0, <2>3, <3>1, <3>2
  <2> QED BY <2>1, <2>2, <2>3
<1>10. n <= MaxDepth
  BY <1>0, TensorsAssumption DEF Good
<1> QED BY <1>0, <1>4, <1>5, <1>6, <1>7, <1>8, <1>9, <1>10 DEF Good

\* The last program has a name less.
LEMMA OneNameLess ==
  ASSUME NEW s, NEW f, NEW h, Good(s, f, h),
         NEW n \in 1 .. Len(s), n = Len(s), NEW p \in Programs, NEW u, Topped(u, s, n, p),
         Idle(s[n]), Idle(p), p.traced = s[n].traced, p.called = s[n].called,
         NEW t \in NamesOf(s[n]), p.pool = Without(s[n].pool, t)
  PROVE  /\ Good(u, f, h)
         /\ ~f[t] => \A d \in 1 .. n : t \notin NamesOf(u[d]) /\ t \notin InputsOf(u[d])
<1>0. /\ u \in Seq(Programs) /\ Len(u) = n /\ n \in Nat /\ u[n] = p /\ \A d \in 1 .. n - 1 : u[d] = s[d]
      /\ s \in Seq(Programs) /\ n >= 1 /\ NamesOf(s[n]) \subseteq Tensors /\ s[n].pool \in Pools
  BY ProgramIs DEF Topped, Good
<1>1. /\ NamesOf(p) = (IF s[n].pool[t] = 1 THEN NamesOf(s[n]) \ {t} ELSE NamesOf(s[n]))
      /\ \A v \in NamesOf(s[n]) \ {t} : p.pool[v] = s[n].pool[v]
  <2> DEFINE pool == s[n].pool
  <2>1. pool \in Pools /\ t \in BagToSet(pool)
    BY <1>0 DEF NamesOf
  <2>2. /\ BagToSet(Without(pool, t)) = (IF pool[t] = 1 THEN BagToSet(pool) \ {t} ELSE BagToSet(pool))
        /\ \A v \in BagToSet(pool) \ {t} : Without(pool, t)[v] = pool[v]
    <3> HIDE DEF pool
    <3> QED BY <2>1, WithoutIs
  <2> QED BY <2>2 DEF NamesOf
<1>2. /\ p.op = NoOp /\ s[n].op = NoOp /\ p.op.kind # "while" /\ InputsOf(p) = {} /\ RetainedBy(p) = {}
      /\ InputsOf(s[n]) = {}
      /\ \A v : ~Frees(OuterOf(p), v) /\ ~Frees(InnerOf(p), v)
  BY IdleIs DEF Idle
<1>3. \A d \in 1 .. n : d # n => d < n
  BY <1>0
<1>4. Shaped(u)
  <2>1. ProperAt(p, n)
    BY <1>2 DEF ProperAt
  <2> QED BY <1>0, <2>1, ShapedIs DEF Good
<1>5. KeepsRetained(u, f, h)
  <2>1. KeepsRetained(s, f, h) /\ n <= Len(s) + 1
    BY <1>0 DEF Good
  <2>2. \A v \in h \cup {Constant} \cup Slots : f[v] /\ ~Frees(OuterOf(p), v) /\ ~Frees(InnerOf(p), v)
    BY <1>2, <2>1 DEF KeepsRetained
  <2> QED BY <1>0, <2>1, <2>2, KeepsRetainedIs
<1>6. ASSUME NEW d \in 1 .. n
      PROVE  NamesOf(u[d]) \subseteq NamesOf(s[d]) /\ InputsOf(u[d]) = InputsOf(s[d])
  <2>1. CASE d = n
    BY <1>0, <1>1, <1>2, <2>1
  <2>2. CASE d # n
    BY <1>0, <1>3, <2>2
  <2> QED BY <2>1, <2>2
<1>7. \A v \in Tensors, d \in 1 .. n : ~f[v] /\ v \in NamesOf(s[d]) =>
        /\ s[d].pool[v] = 1
        /\ \A e \in 1 .. n : v \notin InputsOf(s[e]) /\ (e # d => v \notin NamesOf(s[e]))
  BY <1>0 DEF Good, Alone
<1>8. ~f[t] => \A d \in 1 .. n : t \notin NamesOf(u[d]) /\ t \notin InputsOf(u[d])
  BY <1>0, <1>1, <1>6, <1>7
<1>9. Alone(u, f)
  <2> SUFFICES ASSUME NEW v \in Tensors, NEW d \in 1 .. n, ~f[v], v \in NamesOf(u[d])
               PROVE  /\ u[d].pool[v] = 1
                      /\ \A e \in 1 .. n : v \notin InputsOf(u[e]) /\ (e # d => v \notin NamesOf(u[e]))
    BY <1>0 DEF Alone
  <2>1. v # t
    BY <1>8
  <2>2. v \in NamesOf(s[d]) /\ u[d].pool[v] = s[d].pool[v]
    BY <1>0, <1>1, <1>3, <1>6, <2>1
  <2> QED BY <1>6, <1>7, <2>2
<1>10. StayRetained(u, f)
  <2>1. StayRetained(s, f) /\ n <= Len(s) + 1 /\ \A d \in 1 .. n - 1 : d \in 1 .. Len(s)
    BY <1>0 DEF Good
  <2>2. \A d \in 1 .. n - 1 : \A v \in RetainedBy(s[d]) :
          f[v] /\ ~Frees(OuterOf(p), v) /\ ~Frees(InnerOf(p), v)
    BY <1>2, <2>1 DEF StayRetained
  <2>3. \A v \in RetainedBy(p) : f[v] /\ (v \in ToSet(OuterOf(p).tensors) => ~Frees(InnerOf(p), v))
    BY <1>2
  <2> QED BY <1>0, <2>1, <2>2, <2>3, StayRetainedIs
<1>11. AloneAgain(u)
  BY <1>0, <1>2, AloneAgainIs DEF Good
<1>12. SlotsPublished(u)
  <2> SUFFICES ASSUME NEW k \in 1 .. MaxDepth, NEW e \in 1 .. n, Slot(k) \in NamesOf(u[e]) \cup InputsOf(u[e])
               PROVE  (k <= e /\ u[k].traced) \/ (k > e /\ u[e].called /\ u[e].op = NoOp)
    BY <1>0 DEF SlotsPublished
  <2>1. (k <= e /\ s[k].traced) \/ (k > e /\ s[e].called /\ s[e].op = NoOp)
    BY <1>0, <1>6 DEF Good, SlotsPublished
  <2>2. /\ k <= e => u[k].traced = s[k].traced
        /\ u[e].called = s[e].called /\ (s[e].op = NoOp => u[e].op = NoOp)
    BY <1>0, <1>2, TensorsAssumption
  <2> QED BY <2>1, <2>2
<1> QED BY <1>0, <1>4, <1>5, <1>8, <1>9, <1>10, <1>11, <1>12 DEF Good

\* Retained(l, f) as a predicate.
LEMMA RetainedIs ==
  ASSUME NEW f \in [Tensors -> BOOLEAN], NEW l
  PROVE  /\ Retained(l, f) \in [Tensors -> BOOLEAN]
         /\ \A t \in Tensors : Retained(l, f)[t] <=> f[t] \/ t \in ToSet(l)
<1>1. \A t \in Tensors : (f[t] \/ t \in ToSet(l)) \in BOOLEAN
  OBVIOUS
<1> QED BY <1>1 DEF Retained

\* The last program starts an operation, which retains its inputs.
LEMMA StartsOperation ==
  ASSUME NEW s, NEW f, NEW h, Good(s, f, h),
         NEW n \in 1 .. Len(s), n = Len(s), n < MaxDepth, NEW p \in Programs, NEW u, Topped(u, s, n, p),
         Idle(s[n]), ~s[n].called, p.called, p.traced = s[n].traced, p.pool = s[n].pool, ~Idle(p),
         NEW l \in Lists, ToSet(l) \subseteq NamesOf(s[n]), p.op.inputs = l,
         p.op.kind = "while" => Len(l) = LoopInputs /\ p.op.outs <= LoopInputs,
         p.op.outer.tensors = l, \A t : Frees(p.op.outer, t) <=> t \in ToSet(l) /\ ~f[t],
         p.op.inner = NoRetention
  PROVE  Good(u, Retained(l, f), h) /\ Runs(p)
<1> DEFINE g == Retained(l, f)
<1>0. /\ u \in Seq(Programs) /\ Len(u) = n /\ n \in Nat /\ u[n] = p /\ \A d \in 1 .. n - 1 : u[d] = s[d]
      /\ s \in Seq(Programs) /\ n >= 1 /\ NamesOf(s[n]) \subseteq Tensors
      /\ f \in [Tensors -> BOOLEAN] /\ h \in SUBSET Own
  BY ProgramIs DEF Topped, Good
<1>1. /\ g \in [Tensors -> BOOLEAN] /\ \A t \in Tensors : g[t] <=> f[t] \/ t \in ToSet(l)
  BY <1>0, RetainedIs
<1>2. /\ NamesOf(p) = NamesOf(s[n]) /\ InputsOf(p) = ToSet(l) /\ RetainedBy(p) = ToSet(l)
      /\ OuterOf(p).tensors = l /\ p.op # NoOp
      /\ \A t : ~Frees(InnerOf(p), t) /\ (Frees(OuterOf(p), t) <=> t \in ToSet(l) /\ ~f[t])
  BY NothingRetained DEF NamesOf, InputsOf, RetainedBy, OuterOf, InnerOf, Idle
<1>3. h \cup {Constant} \cup Slots \subseteq Tensors
  BY <1>0 DEF Tensors
<1> HIDE DEF g
<1>4. Shaped(u)
  <2>1. ProperAt(p, n)
    BY <1>2 DEF ProperAt
  <2> QED BY <1>0, <2>1, ShapedIs DEF Good
<1>5. KeepsRetained(u, g, h)
  <2>1. KeepsRetained(s, f, h) /\ n <= Len(s) + 1
    BY <1>0 DEF Good
  <2>2. \A t \in h \cup {Constant} \cup Slots : g[t] /\ ~Frees(OuterOf(p), t) /\ ~Frees(InnerOf(p), t)
    BY <1>1, <1>2, <1>3, <2>1 DEF KeepsRetained
  <2> QED BY <1>0, <2>1, <2>2, KeepsRetainedIs
<1>6. InputsOf(s[n]) = {}
  BY IdleIs
<1>7. Alone(u, g)
  <2> SUFFICES ASSUME NEW t \in Tensors, NEW d \in 1 .. n, ~g[t], t \in NamesOf(u[d])
               PROVE  /\ u[d].pool[t] = 1
                      /\ \A e \in 1 .. n : t \notin InputsOf(u[e]) /\ (e # d => t \notin NamesOf(u[e]))
    BY <1>0 DEF Alone
  <2>1. ~f[t] /\ t \notin ToSet(l)
    BY <1>1
  <2>2. t \in NamesOf(s[d]) /\ u[d].pool[t] = s[d].pool[t]
    BY <1>0, <1>2
  <2>3. /\ s[d].pool[t] = 1
        /\ \A e \in 1 .. n : t \notin InputsOf(s[e]) /\ (e # d => t \notin NamesOf(s[e]))
    BY <1>0, <2>1, <2>2 DEF Good, Alone
  <2> QED BY <1>0, <1>2, <2>1, <2>2, <2>3
<1>8. StayRetained(u, g)
  <2>1. \A d \in 1 .. n - 1 : RetainedBy(s[d]) \subseteq Tensors
    BY <1>0, ProgramIs
  <2>2. \A d \in 1 .. n - 1 : \A t \in RetainedBy(s[d]) :
          /\ f[t] /\ g[t]
          /\ \A e \in d + 1 .. n - 1 : ~Frees(OuterOf(s[e]), t) /\ ~Frees(InnerOf(s[e]), t)
          /\ t \in ToSet(OuterOf(s[d]).tensors) => ~Frees(InnerOf(s[d]), t)
    BY <1>0, <1>1, <2>1 DEF Good, StayRetained
  <2>3. \A t \in ToSet(l) : g[t]
    BY <1>0, <1>1
  <2> QED BY <1>0, <1>2, <2>2, <2>3 DEF StayRetained
<1>9. AloneAgain(u)
  <2>1. ASSUME NEW t \in Tensors, Frees(OuterOf(p), t)
        PROVE  /\ t \in NamesOf(p) /\ p.pool[t] = 1
               /\ \A e \in 1 .. n - 1 : t \notin NamesOf(s[e]) /\ t \notin InputsOf(s[e])
    <3>1. ~f[t] /\ t \in NamesOf(s[n])
      BY <1>2, <2>1
    <3> QED BY <1>0, <1>2, <3>1 DEF Good, Alone
  <2> QED BY <1>0, <1>2, <2>1 DEF Good, AloneAgain
<1>10. SlotsPublished(u)
  <2> SUFFICES ASSUME NEW k \in 1 .. MaxDepth, NEW e \in 1 .. n, Slot(k) \in NamesOf(u[e]) \cup InputsOf(u[e])
               PROVE  (k <= e /\ u[k].traced) \/ (k > e /\ u[e].called /\ u[e].op = NoOp)
    BY <1>0 DEF SlotsPublished
  <2>0. MaxDepth \in Nat
    BY TensorsAssumption
  <2>1. Slot(k) \in NamesOf(s[e]) \cup InputsOf(s[e])
    BY <1>0, <1>2
  <2>2. (k <= e /\ s[k].traced) \/ (k > e /\ s[e].called /\ s[e].op = NoOp)
    BY <1>0, <2>1 DEF Good, SlotsPublished
  <2>3. k <= e => u[k].traced = s[k].traced
    BY <1>0, <2>0
  <2>4. e = n \/ u[e] = s[e]
    BY <1>0
  <2> QED BY <2>2, <2>3, <2>4
<1>11. Runs(p)
  BY <1>2 DEF Runs
<1> QED BY <1>0, <1>1, <1>4, <1>5, <1>7, <1>8, <1>9, <1>10, <1>11 DEF Good, g

\* The last program retains the values of its loop, for the condition or the body.
LEMMA RetainsInner ==
  ASSUME NEW s, NEW f, NEW h, Good(s, f, h),
         NEW n \in 1 .. Len(s), n = Len(s), NEW p \in Programs, NEW u, Topped(u, s, n, p),
         ~Idle(s[n]), ~Idle(p), p.called = s[n].called, p.traced = s[n].traced, p.pool = s[n].pool,
         p.op.kind = "while", s[n].op.kind = "while", p.op.outs = s[n].op.outs,
         NEW l \in Lists, s[n].op.inputs = l, p.op.inputs = l, p.op.outer = s[n].op.outer,
         p.op.inner.tensors = l, \A t : Frees(p.op.inner, t) <=> t \in ToSet(l) /\ ~f[t]
  PROVE  Good(u, Retained(l, f), h) /\ Runs(p)
<1> DEFINE g == Retained(l, f)
<1>0. /\ u \in Seq(Programs) /\ Len(u) = n /\ n \in Nat /\ u[n] = p /\ \A d \in 1 .. n - 1 : u[d] = s[d]
      /\ s \in Seq(Programs) /\ n >= 1 /\ n <= Len(s) + 1 /\ f \in [Tensors -> BOOLEAN] /\ h \in SUBSET Own
      /\ \A d \in 1 .. n : s[d] \in Programs
  BY DEF Topped, Good
<1>1. /\ g \in [Tensors -> BOOLEAN] /\ \A t \in Tensors : g[t] <=> f[t] \/ t \in ToSet(l)
  BY <1>0, RetainedIs
<1>2. /\ NamesOf(p) = NamesOf(s[n]) /\ InputsOf(p) = ToSet(l) /\ InputsOf(s[n]) = ToSet(l)
      /\ RetainedBy(p) = ToSet(OuterOf(p).tensors) \cup ToSet(l)
      /\ OuterOf(p) = OuterOf(s[n]) /\ p.op # NoOp /\ s[n].op # NoOp
      /\ \A t : Frees(InnerOf(p), t) <=> t \in ToSet(l) /\ ~f[t]
  BY DEF NamesOf, InputsOf, RetainedBy, OuterOf, InnerOf, Idle
<1>3. h \cup {Constant} \cup Slots \subseteq Tensors /\ ToSet(l) \subseteq Tensors
  BY <1>0, ListIs DEF Tensors
<1>4. ToSet(OuterOf(s[n]).tensors) \subseteq RetainedBy(s[n])
  BY <1>0, ProgramIs
<1> HIDE DEF g
<1>5. Shaped(u)
  <2>1. ProperAt(s[n], n)
    BY <1>0 DEF Good, Shaped
  <2>2. ProperAt(p, n)
    BY <1>2, <2>1 DEF ProperAt
  <2> QED BY <1>0, <2>2, ShapedIs DEF Good
<1>6. KeepsRetained(u, g, h)
  <2>1. \A t \in h \cup {Constant} \cup Slots :
          g[t] /\ ~Frees(OuterOf(p), t) /\ ~Frees(InnerOf(p), t)
    BY <1>1, <1>2, <1>3 DEF Good, KeepsRetained
  <2> QED BY <1>0, <2>1, KeepsRetainedIs DEF Good
<1>7. StayRetained(u, g)
  <2>1. \A d \in 1 .. n : \A t \in RetainedBy(s[d]) : t \in Tensors /\ f[t] /\ g[t]
    <3>1. \A d \in 1 .. n : RetainedBy(s[d]) \subseteq Tensors
      BY <1>0, ProgramIs
    <3> QED BY <1>1, <3>1 DEF Good, StayRetained
  <2>2. \A d \in 1 .. n - 1 : \A t \in RetainedBy(s[d]) : ~Frees(OuterOf(s[n]), t)
    <3>1. \A d \in 1 .. n - 1 : d \in 1 .. Len(s) /\ n \in d + 1 .. Len(s)
      BY <1>0
    <3> QED BY <3>1 DEF Good, StayRetained
  <2>3. \A d \in 1 .. n - 1 : \A t \in RetainedBy(s[d]) :
          g[t] /\ ~Frees(OuterOf(p), t) /\ ~Frees(InnerOf(p), t)
    <3>1. \A d \in 1 .. n - 1 : d \in 1 .. n
      BY <1>0
    <3> QED BY <1>2, <2>1, <2>2, <3>1
  <2>4. \A t \in RetainedBy(p) : g[t] /\ (t \in ToSet(OuterOf(p).tensors) => ~Frees(InnerOf(p), t))
    BY <1>1, <1>2, <1>3, <1>4, <2>1
  <2>5. StayRetained(s, f)
    BY DEF Good
  <2> QED BY <1>0, <2>3, <2>4, <2>5, StayRetainedIs
<1>8. \A t \in Tensors, d \in 1 .. n : ~f[t] /\ t \in NamesOf(s[d]) =>
        /\ s[d].pool[t] = 1
        /\ \A e \in 1 .. n : t \notin InputsOf(s[e]) /\ (e # d => t \notin NamesOf(s[e]))
  BY <1>0 DEF Good, Alone
<1>9. AloneAgain(u)
  <2> SUFFICES ASSUME NEW t \in Tensors
               PROVE  /\ Frees(OuterOf(p), t) =>
                           /\ t \in NamesOf(p) /\ p.pool[t] = 1
                           /\ \A e \in 1 .. n - 1 : t \notin NamesOf(s[e]) /\ t \notin InputsOf(s[e])
                      /\ Frees(InnerOf(p), t) => t \notin NamesOf(p) /\ \A e \in 1 .. n - 1 : t \notin NamesOf(s[e])
    BY <1>0, AloneAgainIs DEF Good
  <2>1. Frees(OuterOf(s[n]), t) =>
          /\ t \in NamesOf(s[n]) /\ s[n].pool[t] = 1
          /\ \A e \in 1 .. n - 1 : t \notin NamesOf(s[e]) /\ t \notin InputsOf(s[e])
    BY DEF Good, AloneAgain
  <2>2. Frees(InnerOf(p), t) => \A e \in 1 .. n : t \notin NamesOf(s[e])
    BY <1>0, <1>2, <1>8
  <2> QED BY <1>0, <1>2, <2>1, <2>2
<1>10. ASSUME NEW d \in 1 .. n
       PROVE  /\ NamesOf(u[d]) = NamesOf(s[d]) /\ InputsOf(u[d]) = InputsOf(s[d]) /\ u[d].pool = s[d].pool
              /\ u[d].traced = s[d].traced /\ u[d].called = s[d].called /\ (u[d].op = NoOp <=> s[d].op = NoOp)
  <2>1. d = n \/ u[d] = s[d]
    BY <1>0
  <2> QED BY <1>0, <1>2, <2>1
<1>11. Alone(u, g)
  <2> SUFFICES ASSUME NEW t \in Tensors, NEW d \in 1 .. n, ~g[t], t \in NamesOf(u[d])
               PROVE  /\ u[d].pool[t] = 1
                      /\ \A e \in 1 .. n : t \notin InputsOf(u[e]) /\ (e # d => t \notin NamesOf(u[e]))
    BY <1>0 DEF Alone
  <2>1. ~f[t]
    BY <1>1
  <2> QED BY <1>8, <1>10, <2>1
<1>12. SlotsPublished(u)
  <2> SUFFICES ASSUME NEW k \in 1 .. MaxDepth, NEW e \in 1 .. n, Slot(k) \in NamesOf(u[e]) \cup InputsOf(u[e])
               PROVE  (k <= e /\ u[k].traced) \/ (k > e /\ u[e].called /\ u[e].op = NoOp)
    BY <1>0 DEF SlotsPublished
  <2>1. (k <= e /\ s[k].traced) \/ (k > e /\ s[e].called /\ s[e].op = NoOp)
    BY <1>0, <1>10 DEF Good, SlotsPublished
  <2>2. k <= e => k \in 1 .. n
    BY <1>0, TensorsAssumption
  <2> QED BY <1>10, <2>1, <2>2
<1>13. Runs(p)
  BY <1>2 DEF Runs
<1> QED BY <1>0, <1>1, <1>5, <1>6, <1>7, <1>9, <1>11, <1>12, <1>13 DEF Good, g

\* A program starts on the values of the operation that runs it.
LEMMA Pushes ==
  ASSUME NEW s, NEW f, NEW h, Good(s, f, h), Len(s) > 0, Len(s) < MaxDepth, Runs(s[Len(s)]),
         NEW q \in Programs, Idle(q), NamesOf(q) = InputsOf(s[Len(s)])
  PROVE  Good(Append(s, q), f, h)
<1> DEFINE n == Len(s) + 1
           u == Append(s, q)
           m == Len(s)
<1>0. /\ s \in Seq(Programs) /\ Len(s) \in Nat /\ f \in [Tensors -> BOOLEAN] /\ h \in SUBSET Own
      /\ \A d \in 1 .. Len(s) : s[d] \in Programs
  BY DEF Good
<1>1. Topped(u, s, n, q)
  BY <1>0, PushedIs
<1>2. /\ u \in Seq(Programs) /\ Len(u) = n /\ n \in Nat /\ u[n] = q /\ \A d \in 1 .. m : u[d] = s[d]
      /\ n = Len(s) + 1 /\ n > 1 /\ n - 1 = m /\ m = Len(s) /\ m \in 1 .. m
  BY <1>0, <1>1 DEF Topped
<1> HIDE DEF n, u, m
<1>3. /\ InputsOf(q) = {} /\ RetainedBy(q) = {} /\ q.op = NoOp /\ q.op.kind # "while"
      /\ \A t : ~Frees(OuterOf(q), t) /\ ~Frees(InnerOf(q), t)
  BY IdleIs DEF Idle
<1>4. \A t \in NamesOf(q) : f[t] /\ t \in InputsOf(s[m])
  <2>1. InputsOf(s[m]) \subseteq RetainedBy(s[m])
    BY <1>2 DEF Runs
  <2> QED BY <1>2, <2>1 DEF Good, StayRetained
<1>5. Shaped(u)
  <2>1. ProperAt(q, n)
    BY <1>3 DEF ProperAt
  <2> QED BY <1>0, <1>1, <1>2, <2>1, ShapedIs DEF Good
<1>6. KeepsRetained(u, f, h)
  <2>1. \A t \in h \cup {Constant} \cup Slots : f[t]
    BY DEF Good, KeepsRetained
  <2> QED BY <1>0, <1>1, <1>2, <1>3, <2>1, KeepsRetainedIs DEF Good
<1>7. StayRetained(u, f)
  <2>1. \A d \in 1 .. n - 1 : \A t \in RetainedBy(s[d]) :
          f[t] /\ ~Frees(OuterOf(q), t) /\ ~Frees(InnerOf(q), t)
    BY <1>2, <1>3 DEF Good, StayRetained
  <2>2. StayRetained(s, f) /\ \A t \in RetainedBy(q) : f[t] /\ (t \in ToSet(OuterOf(q).tensors) => ~Frees(InnerOf(q), t))
    BY <1>3 DEF Good
  <2> QED BY <1>0, <1>1, <1>2, <2>1, <2>2, StayRetainedIs
<1>8. AloneAgain(u)
  BY <1>0, <1>1, <1>2, <1>3, AloneAgainIs DEF Good
<1>9. \A d \in 1 .. n : d = n \/ (d \in 1 .. m /\ u[d] = s[d])
  BY <1>0, <1>2
<1>10. Alone(u, f)
  <2> SUFFICES ASSUME NEW t \in Tensors, NEW d \in 1 .. n, ~f[t], t \in NamesOf(u[d])
               PROVE  /\ u[d].pool[t] = 1
                      /\ \A e \in 1 .. n : t \notin InputsOf(u[e]) /\ (e # d => t \notin NamesOf(u[e]))
    BY <1>2 DEF Alone
  <2>1. d \in 1 .. m /\ u[d] = s[d]
    BY <1>2, <1>4, <1>9
  <2>2. /\ s[d].pool[t] = 1
        /\ \A e \in 1 .. m : t \notin InputsOf(s[e]) /\ (e # d => t \notin NamesOf(s[e]))
    BY <1>2, <2>1 DEF Good, Alone
  <2> QED BY <1>2, <1>3, <1>4, <1>9, <2>1, <2>2
<1>11. SlotsPublished(u)
  <2> SUFFICES ASSUME NEW k \in 1 .. MaxDepth, NEW e \in 1 .. n, Slot(k) \in NamesOf(u[e]) \cup InputsOf(u[e])
               PROVE  (k <= e /\ u[k].traced) \/ (k > e /\ u[e].called /\ u[e].op = NoOp)
    BY <1>2 DEF SlotsPublished
  <2>0. MaxDepth \in Nat
    BY TensorsAssumption
  <2>1. CASE e # n
    <3>1. e \in 1 .. m /\ u[e] = s[e] /\ (k <= e => u[k] = s[k])
      BY <1>2, <1>9, <2>0, <2>1
    <3> QED BY <1>2, <3>1 DEF Good, SlotsPublished
  <2>2. CASE e = n
    <3>1. Slot(k) \in InputsOf(s[m]) /\ s[m].op # NoOp
      BY <1>2, <1>3, <1>4, <2>2 DEF Runs
    <3>2. k <= m /\ s[k].traced
      BY <1>2, <3>1 DEF Good, SlotsPublished
    <3> QED BY <1>2, <2>0, <2>2, <3>2
  <2> QED BY <2>1, <2>2
<1>12. n <= MaxDepth
  BY <1>0, <1>2, TensorsAssumption
<1> QED BY <1>0, <1>2, <1>5, <1>6, <1>7, <1>8, <1>10, <1>11, <1>12 DEF Good, u

\* Program c with values l of its loop, whose condition and body do not run.
LoopGoesOn(c, p, l) ==
  /\ ~Idle(c) /\ ~Idle(p) /\ p.called = c.called /\ p.traced = c.traced /\ p.pool = c.pool
  /\ p.op.kind = "while" /\ c.op.kind = "while" /\ p.op.outs = c.op.outs
  /\ Len(l) = Len(c.op.inputs) /\ p.op.inputs = l /\ p.op.outer = c.op.outer
  /\ p.op.inner = NoRetention

\* Flags g are f, with those that retention r recorded put back.
PutsBack(r, f, g) ==
  /\ \A t \in Tensors : t \notin ToSet(r.tensors) => g[t] = f[t]
  /\ \A t \in ToSet(r.tensors) : g[t] <=> ~Frees(r, t)

\* The condition or the body has returned, and the loop's values are l now.
LEMMA EndsInner ==
  ASSUME NEW s, NEW f, NEW h, NEW g \in [Tensors -> BOOLEAN], Good(s, f, h),
         NEW n \in 1 .. Len(s) - 1, NEW p \in Programs, NEW u, Topped(u, s, n, p),
         NEW l \in Lists, LoopGoesOn(s[n], p, l), PutsBack(InnerOf(s[n]), f, g),
         \A t \in ToSet(l) : ~g[t] => \A e \in 1 .. n : t \notin NamesOf(s[e]),
         \A t \in ToSet(l) \cap Slots : t \in InputsOf(s[n])
  PROVE  Good(u, g, h)
<1> USE DEF LoopGoesOn, PutsBack
<1>0. /\ u \in Seq(Programs) /\ Len(u) = n /\ n \in Nat /\ u[n] = p /\ \A d \in 1 .. n - 1 : u[d] = s[d]
      /\ s \in Seq(Programs) /\ n >= 1 /\ n < Len(s) /\ n <= Len(s) + 1 /\ Len(s) \in Nat
      /\ f \in [Tensors -> BOOLEAN] /\ h \in SUBSET Own
      /\ \A d \in 1 .. n : s[d] \in Programs /\ d \in 1 .. Len(s)
  BY DEF Topped, Good
<1>1. /\ OuterOf(p) = OuterOf(s[n]) /\ InputsOf(p) = ToSet(l) /\ NamesOf(p) = NamesOf(s[n])
      /\ RetainedBy(p) = ToSet(OuterOf(p).tensors) /\ p.op # NoOp /\ s[n].op # NoOp
      /\ \A t : ~Frees(InnerOf(p), t)
  BY NothingRetained DEF NamesOf, InputsOf, RetainedBy, OuterOf, InnerOf, Idle
<1>2. /\ RetainedBy(s[n]) = ToSet(OuterOf(s[n]).tensors) \cup ToSet(InnerOf(s[n]).tensors)
      /\ \A d \in 1 .. n : RetainedBy(s[d]) \subseteq Tensors
  BY <1>0, ProgramIs
<1>3. h \cup {Constant} \cup Slots \subseteq Tensors /\ ToSet(l) \subseteq Tensors
  BY <1>0, ListIs DEF Tensors
<1>4. \A t \in Tensors : f[t] /\ ~Frees(InnerOf(s[n]), t) => g[t]
  OBVIOUS
<1>5. Shaped(u)
  <2>1. ProperAt(s[n], n)
    BY <1>0 DEF Good, Shaped
  <2>2. ProperAt(p, n)
    BY <1>1, <2>1 DEF ProperAt
  <2> QED BY <1>0, <2>2, ShapedIs DEF Good
<1>6. KeepsRetained(u, g, h)
  <2>1. \A t \in h \cup {Constant} \cup Slots :
          f[t] /\ ~Frees(OuterOf(s[n]), t) /\ ~Frees(InnerOf(s[n]), t)
    BY <1>0 DEF Good, KeepsRetained
  <2>2. \A t \in h \cup {Constant} \cup Slots :
          g[t] /\ ~Frees(OuterOf(p), t) /\ ~Frees(InnerOf(p), t)
    BY <1>1, <1>3, <1>4, <2>1
  <2>3. KeepsRetained(s, f, h)
    BY DEF Good
  <2> QED BY <1>0, <2>2, <2>3, KeepsRetainedIs
<1>7. StayRetained(u, g)
  <2>1. \A d \in 1 .. n : \A t \in RetainedBy(s[d]) : f[t] /\ t \in Tensors
    BY <1>0, <1>2 DEF Good, StayRetained
  <2>2. \A d \in 1 .. n - 1 : \A t \in RetainedBy(s[d]) :
          ~Frees(OuterOf(s[n]), t) /\ ~Frees(InnerOf(s[n]), t)
    <3>1. \A d \in 1 .. n - 1 : d \in 1 .. Len(s) /\ n \in d + 1 .. Len(s)
      BY <1>0
    <3> QED BY <3>1 DEF Good, StayRetained
  <2>3. \A d \in 1 .. n - 1 : \A t \in RetainedBy(s[d]) :
          g[t] /\ ~Frees(OuterOf(p), t) /\ ~Frees(InnerOf(p), t)
    <3>1. \A d \in 1 .. n - 1 : d \in 1 .. n
      BY <1>0
    <3> QED BY <1>1, <1>4, <2>1, <2>2, <3>1
  <2>4. \A t \in ToSet(OuterOf(s[n]).tensors) : f[t] /\ ~Frees(InnerOf(s[n]), t) /\ t \in Tensors
    BY <1>0, <1>2 DEF Good, StayRetained
  <2>5. \A t \in RetainedBy(p) : g[t] /\ (t \in ToSet(OuterOf(p).tensors) => ~Frees(InnerOf(p), t))
    BY <1>1, <1>4, <2>4
  <2>6. StayRetained(s, f)
    BY DEF Good
  <2> QED BY <1>0, <2>3, <2>5, <2>6, StayRetainedIs
<1>8. AloneAgain(u)
  <2> SUFFICES ASSUME NEW t \in Tensors, Frees(OuterOf(p), t)
               PROVE  /\ t \in NamesOf(p) /\ p.pool[t] = 1
                      /\ \A e \in 1 .. n - 1 : t \notin NamesOf(s[e]) /\ t \notin InputsOf(s[e])
    BY <1>0, <1>1, AloneAgainIs DEF Good
  <2>1. /\ t \in NamesOf(s[n]) /\ s[n].pool[t] = 1
        /\ \A e \in 1 .. n - 1 : t \notin NamesOf(s[e]) /\ t \notin InputsOf(s[e])
    <3>1. Frees(OuterOf(s[n]), t) /\ n \in 1 .. Len(s) /\ AloneAgain(s)
      BY <1>0, <1>1 DEF Good
    <3> QED BY <3>1 DEF AloneAgain
  <2> QED BY <1>1, <2>1
<1>9. \A t \in Tensors, d \in 1 .. n : ~g[t] /\ t \in NamesOf(s[d]) => ~f[t]
  <2> SUFFICES ASSUME NEW t \in Tensors, NEW d \in 1 .. n, ~g[t], t \in NamesOf(s[d]), f[t] PROVE FALSE
    OBVIOUS
  <2>1. Frees(InnerOf(s[n]), t)
    BY <1>4
  <2> QED BY <1>0, <2>1 DEF Good, AloneAgain
<1>10. ASSUME NEW d \in 1 .. n
       PROVE  /\ NamesOf(u[d]) = NamesOf(s[d]) /\ u[d].pool = s[d].pool /\ u[d].traced = s[d].traced
              /\ u[d].called = s[d].called /\ (u[d].op = NoOp <=> s[d].op = NoOp)
              /\ InputsOf(u[d]) = IF d = n THEN ToSet(l) ELSE InputsOf(s[d])
  <2>1. d = n \/ (d # n /\ u[d] = s[d])
    BY <1>0
  <2> QED BY <1>0, <1>1, <2>1
<1>11. Alone(u, g)
  <2> SUFFICES ASSUME NEW t \in Tensors, NEW d \in 1 .. n, ~g[t], t \in NamesOf(u[d])
               PROVE  /\ u[d].pool[t] = 1
                      /\ \A e \in 1 .. n : t \notin InputsOf(u[e]) /\ (e # d => t \notin NamesOf(u[e]))
    BY <1>0 DEF Alone
  <2>1. ~f[t] /\ t \in NamesOf(s[d])
    BY <1>9, <1>10
  <2>2. /\ s[d].pool[t] = 1
        /\ \A e \in 1 .. n : t \notin InputsOf(s[e]) /\ (e # d => t \notin NamesOf(s[e]))
    BY <1>0, <2>1 DEF Good, Alone
  <2>3. t \notin ToSet(l)
    BY <2>1
  <2> QED BY <1>10, <2>2, <2>3
<1>12. SlotsPublished(u)
  <2> SUFFICES ASSUME NEW k \in 1 .. MaxDepth, NEW e \in 1 .. n, Slot(k) \in NamesOf(u[e]) \cup InputsOf(u[e])
               PROVE  (k <= e /\ u[k].traced) \/ (k > e /\ u[e].called /\ u[e].op = NoOp)
    BY <1>0 DEF SlotsPublished
  <2>1. Slot(k) \in NamesOf(s[e]) \cup InputsOf(s[e])
    <3>1. Slot(k) \in Slots
      BY DEF Slots
    <3> QED BY <1>10, <3>1
  <2>2. (k <= e /\ s[k].traced) \/ (k > e /\ s[e].called /\ s[e].op = NoOp)
    BY <1>0, <2>1 DEF Good, SlotsPublished
  <2>3. k <= e => k \in 1 .. n
    BY <1>0, TensorsAssumption
  <2> QED BY <1>10, <2>2, <2>3
<1>13. n <= MaxDepth
  BY <1>0, TensorsAssumption DEF Good
<1> QED BY <1>0, <1>5, <1>6, <1>7, <1>8, <1>11, <1>12, <1>13 DEF Good

\* Program c without its operation, whose results are l.
OperationOver(c, p, l) ==
  /\ ~Idle(c) /\ Idle(p) /\ p.called = c.called /\ p.traced = c.traced
  /\ p.pool = Named(c.pool, l)

\* What f retains is retained by flags g, but for what retention r frees.
OnlyFrees(r, f, g) ==
  /\ \A t \in Tensors : t \notin ToSet(r.tensors) => (f[t] => g[t])
  /\ \A t \in ToSet(r.tensors) : ~Frees(r, t) => g[t]

\* The operation of the n-th program ends, and its results l get names.
LEMMA EndsOperation ==
  ASSUME NEW s, NEW f, NEW h, NEW g \in [Tensors -> BOOLEAN], Good(s, f, h),
         NEW n \in 1 .. Len(s), NEW p \in Programs, NEW u, Topped(u, s, n, p),
         NEW l \in Lists, OperationOver(s[n], p, l), OnlyFrees(OuterOf(s[n]), f, g),
         \A t \in ToSet(l) : ~g[t] =>
           /\ t \notin Repeated(l)
           /\ \A e \in 1 .. n : t \notin NamesOf(s[e]) /\ (e < n => t \notin InputsOf(s[e])),
         \A k \in 1 .. MaxDepth : Slot(k) \in ToSet(l) => (k <= n => s[k].traced)
  PROVE  Good(u, g, h)
<1> USE DEF OperationOver, OnlyFrees
<1>0. /\ u \in Seq(Programs) /\ Len(u) = n /\ n \in Nat /\ u[n] = p /\ \A d \in 1 .. n - 1 : u[d] = s[d]
      /\ s \in Seq(Programs) /\ n >= 1 /\ n <= Len(s) /\ Len(s) \in Nat
      /\ f \in [Tensors -> BOOLEAN] /\ h \in SUBSET Own
      /\ \A d \in 1 .. n : s[d] \in Programs /\ d \in 1 .. Len(s)
  BY DEF Topped, Good
<1>1. /\ \A d \in 1 .. n : RetainedBy(s[d]) \subseteq Tensors
      /\ h \cup {Constant} \cup Slots \subseteq Tensors
  BY <1>0, ProgramIs DEF Tensors
<1>2. \A t \in Tensors : f[t] /\ ~Frees(OuterOf(s[n]), t) => g[t]
  OBVIOUS
<1>3. \A t \in h \cup {Constant} \cup Slots : g[t]
  <2>1. \A t \in h \cup {Constant} \cup Slots : f[t] /\ ~Frees(OuterOf(s[n]), t)
    BY <1>0 DEF Good, KeepsRetained
  <2> QED BY <1>1, <1>2, <2>1
<1>4. \A d \in 1 .. n - 1 : \A t \in RetainedBy(s[d]) : g[t]
  <2>1. \A d \in 1 .. n - 1 : d \in 1 .. n /\ d \in 1 .. Len(s) /\ n \in d + 1 .. Len(s)
    BY <1>0
  <2>2. \A d \in 1 .. n - 1 : \A t \in RetainedBy(s[d]) : f[t] /\ ~Frees(OuterOf(s[n]), t)
    BY <2>1 DEF Good, StayRetained
  <2> QED BY <1>1, <1>2, <2>1, <2>2
<1>5. NamesAlone(s, n, g)
  <2> SUFFICES ASSUME NEW t \in Tensors, NEW d \in 1 .. n, ~g[t], t \in NamesOf(s[d])
               PROVE  /\ s[d].pool[t] = 1
                      /\ \A e \in 1 .. n : (e # d => t \notin NamesOf(s[e])) /\ (e < n => t \notin InputsOf(s[e]))
    BY DEF NamesAlone
  <2>1. CASE Frees(OuterOf(s[n]), t)
    <3>1. /\ s[n].pool[t] = 1
          /\ \A e \in 1 .. n - 1 : t \notin NamesOf(s[e]) /\ t \notin InputsOf(s[e])
      BY <1>0, <2>1 DEF Good, AloneAgain
    <3>2. \A e \in 1 .. n : e < n => e \in 1 .. n - 1
      BY <1>0
    <3>3. \A e \in 1 .. n : e # n => e < n
      BY <1>0
    <3> QED BY <3>1, <3>2, <3>3
  <2>2. CASE ~f[t]
    BY <1>0, <2>2 DEF Good, Alone
  <2> QED BY <1>2, <2>1, <2>2
<1>6. \A k \in 1 .. MaxDepth : Slot(k) \in ToSet(l) => (k <= n /\ u[k].traced) \/ (k > n /\ p.called)
  <2> SUFFICES ASSUME NEW k \in 1 .. MaxDepth, Slot(k) \in ToSet(l)
               PROVE  (k <= n /\ u[k].traced) \/ (k > n /\ p.called)
    OBVIOUS
  <2>0. MaxDepth \in Nat
    BY TensorsAssumption
  <2>1. CASE k > n
    <3>1. ProperAt(s[n], n)
      BY <1>0 DEF Good, Shaped
    <3> QED BY <2>1, <3>1 DEF ProperAt, Idle
  <2>2. CASE k <= n
    <3>1. k = n \/ u[k] = s[k]
      BY <1>0, <2>0, <2>2
    <3> QED BY <1>0, <2>2, <3>1
  <2> QED BY <1>0, <2>0, <2>1, <2>2
<1>7. NewAlone(s, n, g, l)
  BY DEF NewAlone
<1>8. (s[n].traced => p.traced) /\ (s[n].called => p.called)
  OBVIOUS
<1> QED BY <1>3, <1>4, <1>5, <1>6, <1>7, <1>8, MoreNames

-----------------------------------------------------------------------------
(* The steps.                                                                *)

LEMMA Now ==
  ASSUME TensorsIInv
  PROVE  /\ freed = {} /\ Good(stack, retain, held)
         /\ stack \in Seq(Programs) /\ Depth = Len(stack) /\ Depth \in Nat /\ Depth <= MaxDepth
         /\ \A d \in 1 .. Depth : stack[d] \in Programs
         /\ retain \in [Tensors -> BOOLEAN] /\ held \in SUBSET Own
         /\ Depth > 0 => InnerOf(Top) = NoRetention
         /\ Called(stack)
BY DEF TensorsIInv, Good, Depth

LEMMA RunningIs ==
  ASSUME TensorsIInv, Running
  PROVE  /\ Depth \in 1 .. Len(stack) /\ Depth > 0 /\ Depth = Len(stack) /\ Top = stack[Depth]
         /\ Top \in Programs /\ Idle(Top) /\ Top.pool \in Pools
<1>1. Depth > 0 /\ Top.op = NoOp
  BY DEF Running
<1>2. Depth \in 1 .. Len(stack) /\ Top \in Programs
  BY <1>1, Now DEF Top
<1> QED BY <1>1, <1>2, Now, ProgramIs DEF Idle, Top

LEMMA InsertIs ==
  ASSUME NEW p \in Programs, NEW l \in Lists
  PROVE  /\ Insert(p, l) \in Programs /\ Insert(p, l).pool = Named(p.pool, l)
         /\ Insert(p, l).op = p.op /\ Insert(p, l).traced = p.traced /\ Insert(p, l).called = p.called
         /\ Insert(p, l).what = p.what
<1>1. Named(p.pool, l) \in Pools
  BY ProgramIs, NamedIs
<1>2. Insert(p, l) = [p EXCEPT !.pool = Named(p.pool, l)]
  BY DEF Insert
<1> QED BY <1>1, <1>2 DEF Programs

LEMMA FreshIs ==
  ASSUME NEW k \in Nat, CanAllocate(k), NEW i \in 1 .. k
  PROVE  Fresh(i) \in Unused /\ Fresh(i) \in Own /\ Fresh(i) \in Tensors
<1>1. IsFiniteSet(Unused)
  <2>1. IsFiniteSet(Own)
    BY TensorsAssumption, FS_Interval DEF Own
  <2> QED BY <2>1, FS_Subset DEF Unused
<1>2. Cardinality(Unused) \in Nat /\ ExistsBijection(1 .. Cardinality(Unused), Unused)
  BY <1>1, FS_CardinalityType
<1>3. \E g \in [1 .. Cardinality(Unused) -> Unused] : IsInjective(g)
  BY <1>2 DEF ExistsBijection, Bijection, Injection
<1>4. SetToSeq(Unused) \in [1 .. Cardinality(Unused) -> Unused]
  BY <1>3 DEF SetToSeq
<1>5. i \in 1 .. Cardinality(Unused)
  BY <1>2 DEF CanAllocate
<1> QED BY <1>4, <1>5 DEF Fresh, Unused, Tensors

\* What the code does with the flags keeps the invariant when the new ones do.
LEMMA FlagsKeep ==
  ASSUME NEW f, NEW r, Flags(f, r), Good(stack', f, held'), Called(stack'), Depth' > 0 => InnerOf(Top') = NoRetention,
         \A t \in r : t \notin Handles'
  PROVE  TensorsIInv'
<1>1. Handles' = HandlesIn(stack', held')
  BY DEF Handles, HandlesIn, Depth
<1>2. retain' = [t \in Tensors |-> t \in HandlesIn(stack', held') /\ f[t]] /\ freed' = {}
  BY <1>1 DEF Flags
<1>3. Good(stack', retain', held')
  BY <1>2, Forgetting
<1> QED BY <1>2, <1>3 DEF TensorsIInv

LEMMA ToppedIs ==
  ASSUME NEW s, NEW n, NEW p, Topped(stack', s, n, p)
  PROVE  Depth' = n /\ Top' = p
BY DEF Topped, Depth, Top

LEMMA One ==
  ASSUME NEW t \in Tensors
  PROVE  <<t>> \in Lists /\ Len(<<t>>) = 1 /\ <<t>>[1] = t /\ ToSet(<<t>>) = {t} /\ Repeated(<<t>>) = {}
<1>1. <<t>> \in Lists /\ Len(<<t>>) = 1 /\ <<t>>[1] = t /\ DOMAIN <<t>> = {1}
  BY DEF Lists
<1> HIDE DEF Lists
<1>2. ToSet(<<t>>) = {t}
  BY <1>1 DEF ToSet
<1> QED BY <1>1, <1>2 DEF Repeated

LEMMA SetsAre ==
  /\ Slots \subseteq Tensors /\ Constant \in Tensors /\ Own \subseteq Tensors
  /\ \A d \in 1 .. MaxDepth : Slot(d) \in Slots
  /\ \A d, e \in 1 .. MaxDepth : Slot(d) = Slot(e) => d = e
  /\ Constant \notin Slots /\ Constant \notin Own /\ Own \cap Slots = {}
  /\ Handles = HandlesIn(stack, held)
<1>0. MaxDepth \in Nat /\ MaxTensors \in Nat
  BY TensorsAssumption
<1>1. \A d, e \in 1 .. MaxDepth : (Slot(d) = Slot(e) => d = e) /\ Slot(d) > MaxTensors + 1
  BY <1>0 DEF Slot
<1>2. \A t \in Slots : t \in Int /\ t > MaxTensors + 1
  BY <1>0 DEF Slots, Slot
<1>3. Constant \notin Slots /\ Constant \notin Own
  BY <1>0, <1>2 DEF Constant, Own
<1>4. Own \cap Slots = {}
  BY <1>0, <1>2 DEF Own
<1>5. Handles = HandlesIn(stack, held)
  BY DEF Handles, HandlesIn, Depth
<1> QED BY <1>1, <1>3, <1>4, <1>5 DEF Tensors, Slots

\* A running program gets names of its own.
LEMMA RunningNames ==
  ASSUME TensorsIInv, Running, NEW t \in Tensors, NEW p \in Programs, Idle(p),
         p.pool = Named(Top.pool, <<t>>), p.what = Top.what, p.called = Top.called, Top.traced => p.traced,
         retain[t] \/ t \notin Handles,
         \A k \in 1 .. MaxDepth : Slot(k) = t => k = Depth /\ p.traced,
         stack' = Replaced(Depth, p), held' = held, Flags(retain, freed)
  PROVE  TensorsIInv'
<1> DEFINE n == Depth
           u == stack'
           l == <<t>>
<1>0. /\ freed = {} /\ Good(stack, retain, held) /\ stack \in Seq(Programs) /\ n \in Nat
      /\ \A d \in 1 .. n : stack[d] \in Programs
      /\ retain \in [Tensors -> BOOLEAN] /\ held \in SUBSET Own
  BY Now
<1>1. n \in 1 .. Len(stack) /\ n > 0 /\ n = Len(stack) /\ Top = stack[n] /\ Idle(stack[n])
  BY RunningIs
<1>2. Topped(u, stack, n, p)
  BY <1>0, <1>1, ReplacedIs
<1>3. l \in Lists /\ ToSet(l) = {t} /\ Repeated(l) = {}
  BY One
<1> HIDE DEF n, u, l
<1>4. NewAlone(stack, n, retain, l)
  <2>1. \A e \in 1 .. n : NamesOf(stack[e]) \subseteq Handles /\ InputsOf(stack[e]) \subseteq Handles
    BY SetsAre, <1>1 DEF HandlesIn, HandlesOf, NamedBy, NamesOf, InputsOf
  <2> QED BY <1>3, <2>1 DEF NewAlone
<1>5. NamesAlone(stack, n, retain)
  BY <1>0, <1>1 DEF Good, Alone, NamesAlone
<1>6. \A v \in held \cup {Constant} \cup Slots : retain[v]
  BY <1>0 DEF Good, KeepsRetained
<1>7. \A d \in 1 .. n - 1 : \A v \in RetainedBy(stack[d]) : retain[v]
  BY <1>0, <1>1 DEF Good, StayRetained
<1>8. \A k \in 1 .. MaxDepth : Slot(k) \in ToSet(l) => (k <= n /\ u[k].traced) \/ (k > n /\ p.called)
  BY <1>0, <1>2, <1>3 DEF Topped, n
<1>9. (stack[n].traced => p.traced) /\ (stack[n].called => p.called) /\ p.pool = Named(stack[n].pool, l)
  BY <1>1 DEF n, l
<1>10. Good(u, retain, held)
  <2>1. Good(stack, retain, held) /\ retain \in [Tensors -> BOOLEAN] /\ n \in 1 .. Len(stack) /\ l \in Lists
    BY <1>0, <1>1, <1>3
  <2> QED BY <1>2, <1>4, <1>5, <1>6, <1>7, <1>8, <1>9, <2>1, MoreNames
<1>11. InnerOf(Top') = NoRetention
  BY <1>2, ToppedIs, IdleIs DEF u
<1>12. Good(stack', retain, held')
  BY <1>10 DEF u
<1>13. Called(stack')
  <2>1. p.what = stack[n].what /\ n <= Len(stack)
    BY <1>1 DEF n
  <2> QED BY <1>0, <1>2, <2>1, Now, CalledIs DEF u
<1> QED BY <1>0, <1>11, <1>12, <1>13, FlagsKeep

LEMMA ComputeKeeps ==
  ASSUME TensorsIInv, Compute PROVE TensorsIInv'
<1> DEFINE t == Fresh(1)
           p == Insert(Top, <<t>>)
<1>1. Running /\ CanAllocate(1) /\ stack' = Replaced(Depth, p) /\ held' = held /\ Flags(retain, freed)
  BY DEF Compute
<1>2. t \in Unused /\ t \in Own /\ t \in Tensors
  BY <1>1, FreshIs
<1>3. t \notin Handles
  BY <1>2 DEF Unused
<1>4. \A k \in 1 .. MaxDepth : Slot(k) # t
  BY <1>2, SetsAre
<1>5. Top \in Programs /\ Idle(Top)
  BY <1>1, RunningIs
<1> HIDE DEF t
<1>6. <<t>> \in Lists
  BY <1>2, One
<1>7. /\ p \in Programs /\ Idle(p) /\ p.pool = Named(Top.pool, <<t>>)
      /\ p.called = Top.called /\ p.traced = Top.traced /\ p.what = Top.what
  BY <1>5, <1>6, InsertIs DEF Idle
<1> HIDE DEF p
<1> QED BY <1>1, <1>2, <1>3, <1>4, <1>7, RunningNames

LEMMA LoadCachedKeeps ==
  ASSUME TensorsIInv, LoadCached PROVE TensorsIInv'
<1> DEFINE p == Insert(Top, <<Constant>>)
<1>1. Running /\ stack' = Replaced(Depth, p) /\ held' = held /\ Flags(retain, freed)
  BY DEF LoadCached
<1>2. Constant \in Tensors /\ \A k \in 1 .. MaxDepth : Slot(k) # Constant
  BY SetsAre
<1>3. retain[Constant]
  BY Now DEF Good, KeepsRetained
<1>5. Top \in Programs /\ Idle(Top)
  BY <1>1, RunningIs
<1>6. <<Constant>> \in Lists
  BY <1>2, One
<1>7. /\ p \in Programs /\ Idle(p) /\ p.pool = Named(Top.pool, <<Constant>>)
      /\ p.called = Top.called /\ p.traced = Top.traced /\ p.what = Top.what
  BY <1>5, <1>6, InsertIs DEF Idle
<1> HIDE DEF p
<1> QED BY <1>1, <1>2, <1>3, <1>7, RunningNames

LEMMA ReplayTraceKeeps ==
  ASSUME TensorsIInv, ReplayTrace PROVE TensorsIInv'
<1> DEFINE t == Slot(Depth)
           q == Insert(Top, <<t>>)
           p == [q EXCEPT !.traced = TRUE]
<1>1. Running /\ stack' = Replaced(Depth, p) /\ held' = held /\ Flags(retain, freed)
  BY DEF ReplayTrace
<1>2. Depth \in 1 .. MaxDepth /\ Top \in Programs /\ Idle(Top)
  BY <1>1, RunningIs, Now
<1>3. t \in Slots /\ t \in Tensors /\ \A k \in 1 .. MaxDepth : Slot(k) = t => k = Depth
  BY <1>2, SetsAre
<1>4. retain[t]
  BY <1>3, Now DEF Good, KeepsRetained
<1> HIDE DEF t
<1>6. <<t>> \in Lists
  BY <1>3, One
<1>7. /\ q \in Programs /\ Idle(q) /\ q.pool = Named(Top.pool, <<t>>) /\ q.called = Top.called
      /\ q.what = Top.what
  BY <1>2, <1>6, InsertIs DEF Idle
<1> HIDE DEF q
<1>8. /\ p \in Programs /\ Idle(p) /\ p.pool = Named(Top.pool, <<t>>) /\ p.called = Top.called /\ p.traced
      /\ p.what = Top.what
  BY <1>7 DEF Programs, Idle
<1> HIDE DEF p
<1> QED BY <1>1, <1>3, <1>4, <1>8, RunningNames

LEMMA DeallocateKeeps ==
  ASSUME TensorsIInv, NEW t \in Tensors, Deallocate(t) PROVE TensorsIInv'
<1> DEFINE n == Depth
           pool == Without(Top.pool, t)
           p == [Top EXCEPT !.pool = pool]
           r == IF retain[t] THEN freed ELSE freed \cup {t}
<1>1. /\ Running /\ t \in NamesOf(Top) /\ t \in BagToSet(Top.pool)
      /\ stack' = Replaced(n, p) /\ held' = held /\ Flags(retain, r)
  BY DEF Deallocate, NamesOf, BagIn
<1>2. /\ freed = {} /\ Good(stack, retain, held) /\ stack \in Seq(Programs)
      /\ retain \in [Tensors -> BOOLEAN] /\ held \in SUBSET Own
  BY Now
<1>3. /\ n \in 1 .. Len(stack) /\ n > 0 /\ n = Len(stack) /\ Top = stack[n] /\ Idle(Top)
      /\ Top \in Programs /\ Top.pool \in Pools
  BY <1>1, RunningIs
<1>4. pool \in Pools
  BY <1>1, <1>3, WithoutIs
<1> HIDE DEF pool
<1>5. /\ p \in Programs /\ Idle(p) /\ p.pool = pool /\ p.traced = Top.traced /\ p.called = Top.called
      /\ p.what = Top.what
  BY <1>3, <1>4 DEF Programs, Idle
<1> HIDE DEF p
<1>6. Topped(stack', stack, n, p)
  BY <1>1, <1>2, <1>3, <1>5, ReplacedIs
<1> HIDE DEF n
<1>7. /\ Idle(stack[n]) /\ p.traced = stack[n].traced /\ p.called = stack[n].called
      /\ t \in NamesOf(stack[n]) /\ p.pool = Without(stack[n].pool, t)
  BY <1>1, <1>3, <1>5 DEF pool
<1>8. /\ Good(stack', retain, held)
      /\ ~retain[t] => \A d \in 1 .. n : t \notin NamesOf(stack'[d]) /\ t \notin InputsOf(stack'[d])
  BY <1>2, <1>3, <1>5, <1>6, <1>7, OneNameLess
<1>9. ASSUME ~retain[t] PROVE t \notin Handles'
  <2>1. t \notin held \cup {Constant} \cup Slots
    BY <1>2, <1>9 DEF Good, KeepsRetained
  <2>2. Len(stack') = n
    BY <1>6 DEF Topped
  <2>3. \A d \in 1 .. n : t \notin RetainedBy(stack'[d])
    BY <1>8, <1>9, <2>2 DEF Good, StayRetained
  <2>4. \A d \in 1 .. n : t \notin HandlesOf(stack'[d])
    BY <1>8, <1>9, <2>3 DEF HandlesOf, NamedBy, NamesOf, InputsOf
  <2>5. Handles' = HandlesIn(stack', held')
    BY DEF Handles, HandlesIn, Depth
  <2> QED BY <1>1, <2>1, <2>2, <2>4, <2>5 DEF HandlesIn
<1>10. \A v \in r : v \notin Handles'
  BY <1>2, <1>9
<1>11. InnerOf(Top') = NoRetention
  BY <1>5, <1>6, ToppedIs, IdleIs
<1>12. Called(stack')
  <2>1. p.what = stack[n].what /\ n <= Len(stack)
    BY <1>3, <1>5
  <2> QED BY <1>2, <1>6, <2>1, Now, CalledIs
<1> QED BY <1>1, <1>8, <1>10, <1>11, <1>12, FlagsKeep

LEMMA SubmitKeeps ==
  ASSUME TensorsIInv, NEW t \in held, Submit(t) PROVE TensorsIInv'
<1> DEFINE p == Program(<<t>>, "main")
<1>1. stack = << >> /\ stack' = <<p>> /\ held' = held /\ Flags(retain, freed)
  BY DEF Submit
<1>2. /\ freed = {} /\ Good(stack, retain, held) /\ t \in Own /\ t \in Tensors
      /\ retain \in [Tensors -> BOOLEAN] /\ held \in SUBSET Own
      /\ \A v \in held \cup {Constant} \cup Slots : retain[v]
  BY Now, SetsAre DEF Good, KeepsRetained
<1>3. <<t>> \in Lists /\ ToSet(<<t>>) = {t}
  BY <1>2, One
<1>4. p \in Programs /\ NamesOf(p) = {t} /\ Idle(p) /\ p.what = "main"
  BY <1>3, NewProgram
<1> HIDE DEF p
<1>5. stack' \in Seq(Programs) /\ Len(stack') = 1 /\ stack'[1] = p
  BY <1>1, <1>4
<1>6. 1 .. Len(stack') = {1} /\ 1 \in 1 .. MaxDepth /\ MaxDepth \in Nat /\ MaxDepth >= 1
  BY <1>5, TensorsAssumption
<1>7. /\ InputsOf(p) = {} /\ RetainedBy(p) = {} /\ p.op.kind # "while" /\ p.op = NoOp
      /\ \A v : ~Frees(OuterOf(p), v) /\ ~Frees(InnerOf(p), v)
  BY <1>4, IdleIs DEF Idle
<1>8. Shaped(stack')
  BY <1>5, <1>6, <1>7 DEF Shaped, ProperAt
<1>9. KeepsRetained(stack', retain, held)
  BY <1>2, <1>5, <1>6, <1>7 DEF KeepsRetained
<1>10. Alone(stack', retain)
  BY <1>2, <1>4, <1>5, <1>6 DEF Alone
<1>11. StayRetained(stack', retain)
  BY <1>5, <1>6, <1>7 DEF StayRetained
<1>12. AloneAgain(stack')
  BY <1>5, <1>6, <1>7 DEF AloneAgain
<1>13. SlotsPublished(stack')
  BY <1>2, <1>4, <1>5, <1>6, <1>7, SetsAre DEF SlotsPublished
<1>14. Good(stack', retain, held)
  BY <1>2, <1>5, <1>6, <1>8, <1>9, <1>10, <1>11, <1>12, <1>13 DEF Good
<1>15. InnerOf(Top') = NoRetention
  BY <1>4, <1>5, IdleIs DEF Top, Depth
<1>16. Called(stack')
  BY <1>4, <1>5, <1>6 DEF Called
<1> QED BY <1>1, <1>2, <1>14, <1>15, <1>16, FlagsKeep

\* Without a program the invariant is that what stays is retained.
LEMMA NoProgramKeeps ==
  ASSUME NEW f \in [Tensors -> BOOLEAN], stack' = << >>, held' \in SUBSET Own,
         \A t \in held' \cup {Constant} \cup Slots : f[t], freed = {}, Flags(f, freed)
  PROVE  TensorsIInv'
<1>1. Good(stack', f, held')
  BY NoProgram
<1>2. ~(Depth' > 0) /\ Called(stack')
  BY DEF Depth, Called
<1> QED BY <1>1, <1>2, FlagsKeep

LEMMA ReleaseKeeps ==
  ASSUME TensorsIInv, NEW t \in held, Release(t) PROVE TensorsIInv'
<1>1. stack' = << >> /\ held' = held \ {t} /\ Flags(retain, freed)
  BY DEF Release
<1>2. \A v \in held \cup {Constant} \cup Slots : retain[v]
  BY Now DEF Good, KeepsRetained
<1> QED BY <1>1, <1>2, Now, NoProgramKeeps

LEMMA FinishKeeps ==
  ASSUME TensorsIInv, NEW t \in Tensors, Finish(t) PROVE TensorsIInv'
<1> DEFINE new == IF t \in Slots \cup {Constant} THEN Fresh(1) ELSE t
           f == [u \in Tensors |-> retain[u] \/ u \in held']
<1>1. stack' = << >> /\ held' = held \cup {new} /\ Flags(f, freed)
  BY DEF Finish
<1>2. new \in Own
  BY FreshIs DEF Finish, Tensors
<1> HIDE DEF new
<1>3. /\ freed = {} /\ held \in SUBSET Own /\ retain \in [Tensors -> BOOLEAN]
      /\ \A v \in held \cup {Constant} \cup Slots : retain[v]
  BY Now DEF Good, KeepsRetained
<1>4. held' \in SUBSET Own
  BY <1>1, <1>2, <1>3
<1>5. f \in [Tensors -> BOOLEAN]
  BY <1>3
<1>6. \A v \in held' \cup {Constant} \cup Slots : f[v]
  BY <1>3, <1>4, SetsAre
<1> HIDE DEF f
<1> QED BY <1>1, <1>3, <1>4, <1>5, <1>6, NoProgramKeeps

\* The outermost program whose operation retains a tensor.
LEMMA OutermostIs ==
  ASSUME Depth \in Nat, NEW t, \E d \in 1 .. Depth : t \in RetainedBy(stack[d])
  PROVE  /\ Outermost(t) \in 1 .. Depth /\ t \in RetainedBy(stack[Outermost(t)])
         /\ \A e \in 1 .. Depth : t \in RetainedBy(stack[e]) => Outermost(t) <= e
<1> DEFINE D == {d \in 1 .. Depth : t \in RetainedBy(stack[d])}
<1>1. D # {} /\ D \subseteq Nat
  OBVIOUS
<1>2. \E i \in D : \A j \in D : i <= j
  <2> HIDE DEF D
  <2> QED BY <1>1, HasFirst
<1>3. \E d \in 1 .. Depth : t \in RetainedBy(stack[d]) /\ \A e \in 1 .. Depth : t \in RetainedBy(stack[e]) => d <= e
  BY <1>2
<1> QED BY <1>3 DEF Outermost

\* The flags when an operation is left: what it retained is as it was before.
LEMMA LeavingIs ==
  ASSUME NEW p \in Programs, ~Idle(p), NEW f \in [Tensors -> BOOLEAN], NEW t \in RetainedBy(p)
  PROVE  /\ Leaving(p, f) \in [Tensors -> BOOLEAN]
         /\ t \in ToSet(OuterOf(p).tensors) => (Leaving(p, f)[t] <=> ~Frees(OuterOf(p), t))
         /\ t \notin ToSet(OuterOf(p).tensors) => (Leaving(p, f)[t] <=> ~Frees(InnerOf(p), t))
<1> DEFINE mid == Restored(p.op.inner, p.op.inputs, f)
<1>1. p.op.outer = OuterOf(p) /\ p.op.inner = InnerOf(p)
  BY DEF OuterOf, InnerOf, Idle
<1>2. /\ OuterOf(p) \in Retentions /\ InnerOf(p) \in Retentions /\ t \in Tensors
      /\ t \in ToSet(OuterOf(p).tensors) \cup ToSet(InnerOf(p).tensors)
  BY ProgramIs
<1>3. /\ mid \in [Tensors -> BOOLEAN]
      /\ t \in ToSet(InnerOf(p).tensors) => (mid[t] <=> ~Frees(InnerOf(p), t))
  BY <1>1, <1>2, RestoredIs
<1>4. Leaving(p, f) = Restored(p.op.outer, p.op.inputs, mid)
  BY DEF Leaving
<1> HIDE DEF mid
<1> QED BY <1>1, <1>2, <1>3, <1>4, RestoredIs

LEMMA UnwoundIs ==
  ASSUME TensorsIInv
  PROVE  /\ Unwound \in [Tensors -> BOOLEAN]
         /\ \A t \in Tensors : (\A d \in 1 .. Depth : t \notin RetainedBy(stack[d])) => Unwound[t] = retain[t]
         /\ \A t \in held \cup {Constant} \cup Slots : Unwound[t]
<1>0. /\ Good(stack, retain, held) /\ Depth \in Nat /\ Depth = Len(stack) /\ retain \in [Tensors -> BOOLEAN]
      /\ \A d \in 1 .. Depth : stack[d] \in Programs
  BY Now
<1> DEFINE left(t) == \E d \in 1 .. Depth : t \in RetainedBy(stack[d])
<1>1. ASSUME NEW t \in Tensors, left(t)
      PROVE  /\ Leaving(stack[Outermost(t)], retain)[t] \in BOOLEAN
             /\ t \in held \cup {Constant} \cup Slots => Leaving(stack[Outermost(t)], retain)[t]
  <2>1. Outermost(t) \in 1 .. Depth /\ t \in RetainedBy(stack[Outermost(t)])
    BY <1>0, <1>1, OutermostIs
  <2>2. PICK d \in 1 .. Depth : d = Outermost(t) /\ t \in RetainedBy(stack[d])
    BY <2>1
  <2>3. stack[d] \in Programs /\ ~Idle(stack[d])
    BY <1>0, <2>2, IdleIs
  <2>4. /\ Leaving(stack[d], retain) \in [Tensors -> BOOLEAN]
        /\ \/ Leaving(stack[d], retain)[t] <=> ~Frees(OuterOf(stack[d]), t)
           \/ Leaving(stack[d], retain)[t] <=> ~Frees(InnerOf(stack[d]), t)
    BY <1>0, <2>2, <2>3, LeavingIs
  <2>5. t \in held \cup {Constant} \cup Slots => ~Frees(OuterOf(stack[d]), t) /\ ~Frees(InnerOf(stack[d]), t)
    BY <1>0 DEF Good, KeepsRetained
  <2> QED BY <2>2, <2>4, <2>5
<1>2. Unwound = [t \in Tensors |-> IF left(t) THEN Leaving(stack[Outermost(t)], retain)[t] ELSE retain[t]]
  BY DEF Unwound
<1>3. \A t \in held \cup {Constant} \cup Slots : retain[t] /\ t \in Tensors
  BY <1>0, SetsAre DEF Good, KeepsRetained
<1>4. \A t \in Tensors : (~left(t)) => Unwound[t] = retain[t]
  BY <1>2
<1>5. \A t \in Tensors : left(t) => Unwound[t] = Leaving(stack[Outermost(t)], retain)[t]
  BY <1>2
<1>6. \A t \in held \cup {Constant} \cup Slots : Unwound[t]
  <2> HIDE DEF left
  <2> QED BY <1>1, <1>3, <1>4, <1>5
<1>7. \A t \in Tensors : Unwound[t] \in BOOLEAN
  <2> HIDE DEF left
  <2> QED BY <1>0, <1>1, <1>4, <1>5
<1>8. Unwound = [t \in Tensors |-> Unwound[t]]
  BY <1>2
<1>9. Unwound \in [Tensors -> BOOLEAN]
  BY <1>7, <1>8
<1> QED BY <1>4, <1>6, <1>9

LEMMA ThrowKeeps ==
  ASSUME TensorsIInv, Throw PROVE TensorsIInv'
<1>1. stack' = << >> /\ held' = held /\ Flags(Unwound, freed)
  BY DEF Throw
<1> QED BY <1>1, Now, UnwoundIs, NoProgramKeeps

LEMMA ArgumentsAre ==
  ASSUME TensorsIInv, Running, NEW k \in Nat, NEW l \in Arguments(k)
  PROVE  l \in Lists /\ Len(l) = k /\ ToSet(l) \subseteq NamesOf(Top)
<1>1. NamesOf(Top) \subseteq Tensors
  BY RunningIs, ProgramIs
<1>2. l \in [1 .. k -> NamesOf(Top)]
  BY DEF Arguments, NamesOf
<1>3. l \in Seq(Tensors) /\ Len(l) = k
  BY <1>1, <1>2
<1> QED BY <1>2, <1>3 DEF Lists, ToSet

LEMMA Starts ==
  ASSUME TensorsIInv, Running, ~Top.called, Depth < MaxDepth,
         NEW l \in Lists, ToSet(l) \subseteq NamesOf(Top), NEW o \in Loops \cup Cases,
         o.inputs = l, o.outer = Retaining(l), o.inner = NoRetention,
         o.kind = "while" => Len(l) = LoopInputs /\ o.outs <= LoopInputs,
         NEW p, p = [Top EXCEPT !.called = TRUE, !.op = o]
  PROVE  /\ p \in Programs /\ Topped(Replaced(Depth, p), stack, Depth, p)
         /\ Good(Replaced(Depth, p), Retained(l, retain), held) /\ Runs(p)
         /\ InnerOf(p) = NoRetention /\ InputsOf(p) = ToSet(l) /\ p.op = o /\ p.what = Top.what
<1>1. /\ freed = {} /\ Good(stack, retain, held) /\ stack \in Seq(Programs)
      /\ retain \in [Tensors -> BOOLEAN] /\ held \in SUBSET Own
  BY Now
<1>2. /\ Depth \in 1 .. Len(stack) /\ Depth > 0 /\ Depth = Len(stack) /\ Top = stack[Depth] /\ Idle(Top)
      /\ Top \in Programs
  BY RunningIs
<1>3. o # NoOp
  BY DEF Loops, Cases, NoOp
<1>4. /\ p \in Programs /\ ~Idle(p) /\ p.op = o /\ p.called /\ p.traced = Top.traced /\ p.pool = Top.pool
      /\ p.what = Top.what
  BY <1>2, <1>3 DEF Programs, Idle
<1>5. Topped(Replaced(Depth, p), stack, Depth, p)
  BY <1>1, <1>2, <1>4, ReplacedIs
<1>6. /\ p.op.outer.tensors = l /\ \A t : Frees(p.op.outer, t) <=> t \in ToSet(l) /\ ~retain[t]
  BY <1>1, <1>4, RetainingIs
<1>7. InnerOf(p) = NoRetention /\ InputsOf(p) = ToSet(l)
  BY <1>4 DEF InnerOf, InputsOf, Idle
<1>8. /\ Idle(stack[Depth]) /\ ~stack[Depth].called /\ p.traced = stack[Depth].traced
      /\ p.pool = stack[Depth].pool /\ ToSet(l) \subseteq NamesOf(stack[Depth])
  BY <1>2, <1>4
<1>9. /\ p.op.inputs = l /\ p.op.inner = NoRetention
      /\ p.op.kind = "while" => Len(l) = LoopInputs /\ p.op.outs <= LoopInputs
  BY <1>4
<1>10. Good(Replaced(Depth, p), Retained(l, retain), held) /\ Runs(p)
  BY <1>1, <1>2, <1>4, <1>5, <1>6, <1>8, <1>9, StartsOperation
<1> QED BY <1>4, <1>5, <1>7, <1>10

\* A program starts on the values of the last one's operation.
LEMMA Calls ==
  ASSUME TensorsIInv, NEW u, NEW p \in Programs, Topped(u, stack, Depth, p), Depth > 0, Depth < MaxDepth,
         NEW f, Good(u, f, held), Runs(p), p.what = Top.what,
         NEW l \in Lists, ToSet(l) = InputsOf(p),
         NEW what \in {"condition", "body", "branch"},
         p.op.kind = IF what = "branch" THEN "case" ELSE "while",
         stack' = Append(u, Program(l, what)), held' = held, Flags(f, freed)
  PROVE  TensorsIInv'
<1> DEFINE q == Program(l, what)
<1>1. q \in Programs /\ NamesOf(q) = ToSet(l) /\ Idle(q) /\ q.what = what
  BY NewProgram
<1> HIDE DEF q
<1>2. u \in Seq(Programs) /\ Len(u) = Depth /\ u[Depth] = p /\ Depth \in Nat
  BY Now DEF Topped
<1>3. Good(Append(u, q), f, held)
  BY <1>1, <1>2, Pushes
<1>4. Called(u)
  BY Now, CalledIs DEF Top
<1>5. Topped(stack', u, Depth + 1, q)
  BY <1>1, <1>2, PushedIs DEF q
<1>6. Called(stack')
  <2> SUFFICES ASSUME NEW d \in 1 .. Depth + 1
               PROVE  /\ d = 1 => stack'[d].what = "main"
                      /\ d > 1 /\ stack'[d].what \in {"condition", "body"} => stack'[d - 1].op.kind = "while"
                      /\ d > 1 /\ stack'[d].what = "branch" => stack'[d - 1].op.kind = "case"
    BY <1>5 DEF Called, Topped
  <2>1. CASE d = Depth + 1
    <3>1. d > 1 /\ stack'[d] = q /\ stack'[d - 1] = p
      BY <1>2, <1>5, <2>1 DEF Topped
    <3> QED BY <1>1, <3>1
  <2>2. CASE d # Depth + 1
    <3>1. d \in 1 .. Len(u) /\ stack'[d] = u[d] /\ (d > 1 => stack'[d - 1] = u[d - 1])
      BY <1>2, <1>5, <2>2 DEF Topped
    <3> QED BY <1>4, <3>1 DEF Called
  <2> QED BY <2>1, <2>2
<1>7. InnerOf(Top') = NoRetention
  BY <1>1, <1>5, ToppedIs, IdleIs
<1>8. Good(stack', f, held') /\ freed = {}
  BY <1>3, Now DEF q
<1> QED BY <1>6, <1>7, <1>8, FlagsKeep

LEMMA StartLoopKeeps ==
  ASSUME TensorsIInv, NEW l \in Arguments(LoopInputs), NEW outs \in 0 .. LoopInputs, StartLoop(l, outs)
  PROVE  TensorsIInv'
<1> DEFINE o == [kind |-> "while", inputs |-> l, outs |-> outs, outer |-> Retaining(l), inner |-> NoRetention]
           p == [Top EXCEPT !.called = TRUE, !.op = o]
<1>1. /\ Running /\ ~Top.called /\ Depth < MaxDepth /\ stack' = Replaced(Depth, p) /\ held' = held
      /\ Flags(Retained(l, retain), freed)
  BY DEF StartLoop
<1>2. l \in Lists /\ Len(l) = LoopInputs /\ ToSet(l) \subseteq NamesOf(Top) /\ outs \in Nat /\ outs <= LoopInputs
  BY <1>1, ArgumentsAre, TensorsAssumption
<1>3. o \in Loops
  BY <1>2, Now, RetainingIs, NothingRetained DEF Loops
<1>4. o.inputs = l /\ o.outer = Retaining(l) /\ o.inner = NoRetention /\ o.kind = "while" /\ o.outs = outs
  OBVIOUS
<1> HIDE DEF o
<1>7. p = [Top EXCEPT !.called = TRUE, !.op = o]
  OBVIOUS
<1> HIDE DEF p
<1>8. o.kind = "while" => Len(l) = LoopInputs /\ o.outs <= LoopInputs
  BY <1>2, <1>4
<1>9. o \in Loops \cup Cases
  BY <1>3
<1>5. /\ Topped(stack', stack, Depth, p) /\ Good(stack', Retained(l, retain), held')
      /\ InnerOf(p) = NoRetention /\ p.what = Top.what
  BY <1>1, <1>2, <1>4, <1>7, <1>8, <1>9, Starts
<1>6. Called(stack')
  BY <1>1, <1>5, Now, CalledIs DEF Top
<1> QED BY <1>1, <1>5, <1>6, Now, ToppedIs, FlagsKeep

LEMMA StartCaseKeeps ==
  ASSUME TensorsIInv, NEW l \in Arguments(CaseInputs), StartCase(l) PROVE TensorsIInv'
<1> DEFINE o == [kind |-> "case", inputs |-> l, outer |-> Retaining(l), inner |-> NoRetention]
           p == [Top EXCEPT !.called = TRUE, !.op = o]
           u == Replaced(Depth, p)
<1>1. /\ Running /\ ~Top.called /\ Depth < MaxDepth /\ stack' = Append(u, Program(l, "branch")) /\ held' = held
      /\ Flags(Retained(l, retain), freed)
  BY DEF StartCase
<1>2. l \in Lists /\ ToSet(l) \subseteq NamesOf(Top)
  BY <1>1, ArgumentsAre, TensorsAssumption
<1>3. o \in Cases
  BY <1>2, Now, RetainingIs, NothingRetained DEF Cases
<1>4. o.inputs = l /\ o.outer = Retaining(l) /\ o.inner = NoRetention /\ o.kind = "case"
  OBVIOUS
<1> HIDE DEF o
<1>7. p = [Top EXCEPT !.called = TRUE, !.op = o]
  OBVIOUS
<1> HIDE DEF p
<1>8. o \in Loops \cup Cases /\ o.kind # "while"
  BY <1>3, <1>4
<1>5. /\ p \in Programs /\ Topped(u, stack, Depth, p) /\ Good(u, Retained(l, retain), held) /\ Runs(p)
      /\ InputsOf(p) = ToSet(l) /\ p.op = o /\ p.what = Top.what
  BY <1>1, <1>2, <1>4, <1>7, <1>8, Starts
<1>6. Depth > 0
  BY <1>1, RunningIs
<1> HIDE DEF u
<1> QED BY <1>1, <1>2, <1>4, <1>5, <1>6, Calls

LEMMA LoopIs ==
  ASSUME NEW p \in Programs, p.op.kind = "while"
  PROVE  /\ p.op \in Loops /\ ~Idle(p) /\ p.op.inputs \in Lists /\ p.op.outs \in Nat
         /\ OuterOf(p) = p.op.outer /\ InnerOf(p) = p.op.inner /\ InputsOf(p) = ToSet(p.op.inputs)
<1>1. p.op \in {NoOp} \cup Loops \cup Cases
  BY DEF Programs
<1>2. p.op \in Loops
  BY <1>1 DEF NoOp, Cases
<1>3. p.op # NoOp
  BY DEF NoOp
<1> QED BY <1>2, <1>3 DEF Loops, Idle, OuterOf, InnerOf, InputsOf

LEMMA ExecuteKeeps ==
  ASSUME TensorsIInv, NEW what \in {"condition", "body"}, Execute(what) PROVE TensorsIInv'
<1> DEFINE l == Top.op.inputs
           o == [Top.op EXCEPT !.inner = Retaining(l)]
           p == [Top EXCEPT !.op.inner = Retaining(l)]
           u == Replaced(Depth, p)
<1>1. /\ Depth > 0 /\ Top.op.kind = "while" /\ stack' = Append(u, Program(l, what)) /\ held' = held
      /\ Flags(Retained(l, retain), freed)
  BY DEF Execute
<1>2. /\ freed = {} /\ Good(stack, retain, held) /\ stack \in Seq(Programs)
      /\ retain \in [Tensors -> BOOLEAN] /\ held \in SUBSET Own
      /\ Depth \in 1 .. Len(stack) /\ Depth = Len(stack) /\ Top = stack[Depth] /\ Top \in Programs
  BY <1>1, Now DEF Top
<1>3. /\ Top.op \in Loops /\ ~Idle(Top) /\ l \in Lists
  BY <1>1, <1>2, LoopIs
<1>4. /\ Retaining(l) \in Retentions /\ Retaining(l).tensors = l
      /\ \A t : Frees(Retaining(l), t) <=> t \in ToSet(l) /\ ~retain[t]
  BY <1>2, <1>3, RetainingIs
<1>5. /\ o \in Loops /\ o.kind = "while" /\ o.inputs = l /\ o.outs = Top.op.outs /\ o.outer = Top.op.outer
      /\ o.inner = Retaining(l) /\ p.op = o
  <2>1. /\ o \in Loops /\ o.kind = "while" /\ o.inputs = l /\ o.outs = Top.op.outs /\ o.outer = Top.op.outer
        /\ o.inner = Retaining(l)
    BY <1>1, <1>3, <1>4 DEF Loops
  <2>2. p.op = o
    BY <1>2 DEF Programs
  <2> QED BY <2>1, <2>2
<1>6. /\ p \in Programs /\ p.called = Top.called /\ p.traced = Top.traced /\ p.pool = Top.pool
      /\ p.what = Top.what
  <2>1. p = [Top EXCEPT !.op = o]
    BY <1>2 DEF Programs
  <2> HIDE DEF o, p
  <2> QED BY <1>2, <1>5, <2>1 DEF Programs
<1> HIDE DEF o, p
<1>7. Topped(u, stack, Depth, p)
  BY <1>1, <1>2, <1>6, ReplacedIs
<1>8. ~Idle(p) /\ InputsOf(p) = ToSet(l) /\ p.op.kind = "while"
  BY <1>5, <1>6, LoopIs
<1> HIDE DEF u
<1>9. /\ ~Idle(stack[Depth]) /\ p.called = stack[Depth].called /\ p.traced = stack[Depth].traced
      /\ p.pool = stack[Depth].pool /\ stack[Depth].op.kind = "while" /\ p.op.outs = stack[Depth].op.outs
      /\ stack[Depth].op.inputs = l /\ p.op.inputs = l /\ p.op.outer = stack[Depth].op.outer
      /\ p.op.inner.tensors = l /\ \A t : Frees(p.op.inner, t) <=> t \in ToSet(l) /\ ~retain[t]
  BY <1>1, <1>2, <1>3, <1>4, <1>5, <1>6
<1>10. Depth < MaxDepth
  <2>1. ProperAt(Top, Depth)
    BY <1>2 DEF Good, Shaped
  <2> QED BY <1>3, <2>1 DEF ProperAt, Idle
<1>11. l \in Lists /\ p \in Programs
  BY <1>3, <1>6
<1> HIDE DEF l
<1>12. Good(u, Retained(l, retain), held) /\ Runs(p)
  BY <1>2, <1>7, <1>8, <1>9, <1>11, RetainsInner
<1> QED BY <1>1, <1>6, <1>7, <1>8, <1>10, <1>11, <1>12, Calls

\* A program returns to its caller.
LEMMA Returning ==
  ASSUME TensorsIInv, Running, Top.what \in {"condition", "body", "branch"}
  PROVE  /\ Depth > 1 /\ Depth - 1 \in 1 .. Len(stack) - 1 /\ Depth - 1 \in 1 .. Len(stack)
         /\ Depth = Len(stack) /\ Caller = stack[Depth - 1] /\ Caller \in Programs /\ ~Idle(Caller) /\ Runs(Caller)
         /\ Caller.op.kind = IF Top.what = "branch" THEN "case" ELSE "while"
<1>1. /\ Depth \in 1 .. Len(stack) /\ Depth = Len(stack) /\ Top = stack[Depth]
      /\ Called(stack) /\ Good(stack, retain, held) /\ \A d \in 1 .. Depth : stack[d] \in Programs
  BY RunningIs, Now
<1>2. Depth # 1
  BY <1>1 DEF Called
<1>3. Depth > 1 /\ Depth - 1 \in 1 .. Len(stack) - 1 /\ Depth - 1 \in 1 .. Len(stack) /\ Depth - 1 < Len(stack)
  BY <1>1, <1>2
<1>4. Caller.op.kind = IF Top.what = "branch" THEN "case" ELSE "while"
  BY <1>1, <1>3 DEF Called, Caller
<1>5. Runs(Caller)
  BY <1>1, <1>3 DEF Good, Shaped, Caller
<1> QED BY <1>1, <1>3, <1>4, <1>5 DEF Caller, Runs, Idle

\* The condition or the body returns, and the loop's values are l from then on.
LEMMA ReturnsToLoop ==
  ASSUME TensorsIInv, Running, Top.what \in {"condition", "body"},
         NEW l \in Lists, Len(l) = Len(Caller.op.inputs),
         NEW p \in Programs, p.called = Caller.called, p.traced = Caller.traced, p.pool = Caller.pool,
         p.what = Caller.what, p.op = [Caller.op EXCEPT !.inner = NoRetention, !.inputs = l],
         NEW i, NEW g, g = Restored(Caller.op.inner, i, retain),
         \A t \in ToSet(l) : t \in InputsOf(Caller) \/ t \in Unused \/ (t \in NamesOf(Top) /\ t \notin Slots),
         stack' = Popped(p), held' = held, Flags(g, freed)
  PROVE  TensorsIInv'
<1> DEFINE n == Depth - 1
<1>1. /\ freed = {} /\ Good(stack, retain, held) /\ stack \in Seq(Programs)
      /\ retain \in [Tensors -> BOOLEAN] /\ held \in SUBSET Own /\ Called(stack)
  BY Now
<1>2. /\ Depth > 1 /\ n \in 1 .. Len(stack) - 1 /\ n \in 1 .. Len(stack) /\ Depth = Len(stack)
      /\ Caller = stack[n] /\ Caller \in Programs /\ ~Idle(Caller) /\ Runs(Caller) /\ Caller.op.kind = "while"
      /\ Depth \in 1 .. Len(stack) /\ Top = stack[Depth]
  BY Returning, RunningIs
<1>3. Topped(stack', stack, n, p)
  BY <1>1, <1>2, PoppedIs
<1>4. /\ Caller.op \in Loops /\ InnerOf(Caller) = Caller.op.inner /\ InnerOf(Caller) \in Retentions
      /\ InputsOf(Caller) \subseteq Tensors
  BY <1>2, LoopIs, ProgramIs
<1>5. /\ p.op.kind = "while" /\ p.op.outs = Caller.op.outs /\ p.op.inputs = l
      /\ p.op.outer = Caller.op.outer /\ p.op.inner = NoRetention
  BY <1>2, <1>4 DEF Loops
<1>6. ~Idle(p) /\ InnerOf(p) = NoRetention
  BY <1>5, LoopIs
<1> HIDE DEF n
<1>7. /\ g \in [Tensors -> BOOLEAN]
      /\ \A t \in Tensors : t \notin ToSet(InnerOf(Caller).tensors) => g[t] = retain[t]
      /\ \A t \in ToSet(InnerOf(Caller).tensors) : g[t] <=> ~Frees(InnerOf(Caller), t)
  BY <1>1, <1>4, RestoredIs
<1>8. ToSet(l) \subseteq Tensors /\ \A e \in 1 .. n : e \in 1 .. Len(stack) /\ e # Depth
  BY <1>2, ListIs DEF n
<1>9. ASSUME NEW t \in Tensors, ~g[t], Frees(InnerOf(Caller), t), NEW e \in 1 .. n PROVE t \notin NamesOf(stack[e])
  BY <1>1, <1>2, <1>9 DEF Good, AloneAgain
<1>10. ASSUME NEW t \in Tensors, ~g[t], ~Frees(InnerOf(Caller), t) PROVE ~retain[t]
  BY <1>7, <1>10
<1>11. ASSUME NEW t \in ToSet(l), ~g[t], NEW e \in 1 .. n PROVE t \notin NamesOf(stack[e])
  <2>0. t \in Tensors
    BY <1>8
  <2>1. CASE Frees(InnerOf(Caller), t)
    BY <1>9, <1>11, <2>0, <2>1
  <2>2. CASE ~Frees(InnerOf(Caller), t)
    <3>1. ~retain[t]
      BY <1>10, <1>11, <2>0, <2>2
    <3>2. t \notin InputsOf(Caller)
      BY <1>1, <1>2, <3>1 DEF Good, StayRetained, Runs
    <3>3. CASE t \in Unused
      BY <1>8, <3>3, SetsAre DEF Unused, HandlesIn, HandlesOf, NamedBy, NamesOf
    <3>4. CASE t \in NamesOf(Top)
      BY <1>1, <1>2, <1>8, <2>0, <3>1, <3>4 DEF Good, Alone
    <3> QED BY <3>2, <3>3, <3>4
  <2> QED BY <2>1, <2>2
<1>12. \A t \in ToSet(l) \cap Slots : t \in InputsOf(stack[n])
  BY <1>2, SetsAre DEF Unused
<1>13. LoopGoesOn(stack[n], p, l)
  BY <1>2, <1>5, <1>6 DEF LoopGoesOn
<1>14. \A t \in ToSet(l) : ~g[t] => \A e \in 1 .. n : t \notin NamesOf(stack[e])
  BY <1>11
<1>15. Good(stack', g, held)
  <2>1. Good(stack, retain, held) /\ n \in 1 .. Len(stack) - 1 /\ g \in [Tensors -> BOOLEAN]
    BY <1>1, <1>2, <1>7
  <2>2. PutsBack(InnerOf(stack[n]), retain, g)
    BY <1>2, <1>7 DEF PutsBack
  <2> QED BY <1>3, <1>12, <1>13, <1>14, <2>1, <2>2, EndsInner
<1>16. Called(stack')
  <2>1. p.what = stack[n].what /\ n <= Len(stack)
    BY <1>2
  <2> QED BY <1>1, <1>3, <2>1, CalledIs
<1>17. InnerOf(Top') = NoRetention
  BY <1>3, <1>6, ToppedIs
<1> QED BY <1>1, <1>15, <1>16, <1>17, FlagsKeep

LEMMA ReturnConditionKeeps ==
  ASSUME TensorsIInv, ReturnCondition PROVE TensorsIInv'
<1> DEFINE l == Caller.op.inputs
           o == [Caller.op EXCEPT !.inner = NoRetention]
           p == [Caller EXCEPT !.op.inner = NoRetention]
           g == Restored(Caller.op.inner, l, retain)
<1>1. /\ Running /\ Top.what = "condition" /\ stack' = Popped(p) /\ held' = held /\ Flags(g, freed)
  BY DEF ReturnCondition
<1>2. Caller \in Programs /\ Caller.op \in Loops /\ l \in Lists /\ InputsOf(Caller) = ToSet(l)
  BY <1>1, Returning, LoopIs
<1>3. o = [Caller.op EXCEPT !.inner = NoRetention, !.inputs = l] /\ o \in Loops
  BY <1>2, NothingRetained DEF Loops
<1>4. p = [Caller EXCEPT !.op = o] /\ p.op = o
  BY <1>2 DEF Programs
<1> HIDE DEF o, p
<1>5. /\ p \in Programs /\ p.called = Caller.called /\ p.traced = Caller.traced /\ p.pool = Caller.pool
      /\ p.what = Caller.what
  BY <1>2, <1>3, <1>4 DEF Programs
<1>6. \A t \in ToSet(l) : t \in InputsOf(Caller)
  BY <1>2
<1>7. p.op = [Caller.op EXCEPT !.inner = NoRetention, !.inputs = l] /\ Len(l) = Len(Caller.op.inputs)
  BY <1>3, <1>4
<1>8. g = Restored(Caller.op.inner, l, retain)
  OBVIOUS
<1> HIDE DEF l, g
<1> QED BY <1>1, <1>2, <1>5, <1>6, <1>7, <1>8, ReturnsToLoop

LEMMA SlottedIs ==
  ASSUME NEW l \in Lists
  PROVE  /\ Slotted(l, Len(l)) \in Nat
         /\ \A i \in 1 .. Len(l) : l[i] \in Slots => Slotted(l, i) \in 1 .. Slotted(l, Len(l))
<1> DEFINE S(i) == {j \in 1 .. i : l[j] \in Slots}
<1>1. Len(l) \in Nat
  BY ListIs
<1>2. \A i \in 1 .. Len(l) : S(i) \subseteq S(Len(l)) /\ (l[i] \in Slots => S(i) # {})
  BY <1>1
<1>3. IsFiniteSet(S(Len(l)))
  <2>1. IsFiniteSet(1 .. Len(l)) /\ S(Len(l)) \subseteq 1 .. Len(l)
    BY <1>1, FS_Interval
  <2> QED BY <2>1, FS_Subset
<1>4. \A i : Slotted(l, i) = Cardinality(S(i))
  BY DEF Slotted
<1> HIDE DEF S
<1>5. Cardinality(S(Len(l))) \in Nat
  BY <1>3, FS_CardinalityType
<1>6. ASSUME NEW i \in 1 .. Len(l), l[i] \in Slots
      PROVE  Cardinality(S(i)) \in 1 .. Cardinality(S(Len(l)))
  <2>1. IsFiniteSet(S(i)) /\ Cardinality(S(i)) <= Cardinality(S(Len(l)))
    BY <1>2, <1>3, FS_Subset
  <2>2. Cardinality(S(i)) \in Nat /\ Cardinality(S(i)) # 0
    BY <1>2, <1>6, <2>1, FS_CardinalityType, FS_EmptySet
  <2> QED BY <1>5, <2>1, <2>2
<1> QED BY <1>4, <1>5, <1>6

LEMMA CarriedIs ==
  ASSUME NEW op, op.inputs \in Lists, op.outs \in Nat, op.outs <= Len(op.inputs),
         NEW l \in Lists, Len(l) = op.outs, CanAllocate(Slotted(l, Len(l)))
  PROVE  /\ Carried(op, l) \in Lists /\ Len(Carried(op, l)) = Len(op.inputs)
         /\ \A t \in ToSet(Carried(op, l)) : t \in ToSet(op.inputs) \/ t \in Unused \/ (t \in ToSet(l) /\ t \notin Slots)
<1> DEFINE c == Carried(op, l)
<1>1. /\ Len(op.inputs) \in Nat /\ DOMAIN op.inputs = 1 .. Len(op.inputs) /\ DOMAIN l = 1 .. Len(l)
      /\ ToSet(op.inputs) \subseteq Tensors /\ ToSet(l) \subseteq Tensors
  BY ListIs
<1>2. c = [i \in 1 .. Len(op.inputs) |->
             IF i <= op.outs THEN CarryOf(l[i], Fresh(Slotted(l, i))) ELSE op.inputs[i]]
  BY <1>1 DEF Carried
<1> HIDE DEF c
<1>3. ASSUME NEW i \in 1 .. Len(op.inputs)
      PROVE  c[i] \in ToSet(op.inputs) \/ c[i] \in Unused \/ (c[i] \in ToSet(l) /\ c[i] \notin Slots)
  <2>1. CASE ~(i <= op.outs)
    BY <1>1, <1>2, <2>1 DEF ToSet
  <2>2. CASE i <= op.outs /\ l[i] \in Slots
    <3>1. i \in 1 .. Len(l)
      BY <1>1, <2>2
    <3>2. Slotted(l, i) \in 1 .. Slotted(l, Len(l)) /\ Slotted(l, Len(l)) \in Nat
      BY <2>2, <3>1, SlottedIs
    <3>3. Fresh(Slotted(l, i)) \in Unused
      BY <3>2, FreshIs
    <3> QED BY <1>2, <2>2, <3>3 DEF CarryOf
  <2>3. CASE i <= op.outs /\ l[i] \notin Slots
    <3>1. i \in DOMAIN l
      BY <1>1, <2>3
    <3> QED BY <1>2, <2>3, <3>1 DEF CarryOf, ToSet
  <2> QED BY <2>1, <2>2, <2>3
<1>4. Unused \subseteq Tensors
  BY DEF Unused, Tensors
<1>5. \A i \in 1 .. Len(op.inputs) : c[i] \in Tensors
  BY <1>1, <1>3, <1>4
<1>6. c \in [1 .. Len(op.inputs) -> Tensors]
  <2>1. c = [i \in 1 .. Len(op.inputs) |-> c[i]]
    BY <1>2
  <2> QED BY <1>5, <2>1
<1>7. c \in Lists /\ Len(c) = Len(op.inputs)
  BY <1>1, <1>6 DEF Lists
<1>8. \A t \in ToSet(c) : \E i \in 1 .. Len(op.inputs) : c[i] = t
  BY <1>6 DEF ToSet
<1>9. \A t \in ToSet(c) : t \in ToSet(op.inputs) \/ t \in Unused \/ (t \in ToSet(l) /\ t \notin Slots)
  BY <1>3, <1>8
<1> QED BY <1>7, <1>9 DEF c

LEMMA ReturnBodyKeeps ==
  ASSUME TensorsIInv, Depth > 1, NEW r \in Arguments(Caller.op.outs), ReturnBody(r) PROVE TensorsIInv'
<1> DEFINE l == Carried(Caller.op, r)
           o == [Caller.op EXCEPT !.inner = NoRetention, !.inputs = l]
           p == [Caller EXCEPT !.op.inner = NoRetention, !.op.inputs = l]
           g == Restored(Caller.op.inner, l, retain)
<1>1. /\ Running /\ Top.what = "body" /\ Len(r) = Caller.op.outs /\ CanAllocate(Slotted(r, Len(r)))
      /\ stack' = Popped(p) /\ held' = held /\ Flags(g, freed)
  BY DEF ReturnBody
<1>2. /\ Caller \in Programs /\ Caller.op.kind = "while" /\ Depth \in Nat
      /\ Depth - 1 \in 1 .. Len(stack) /\ Caller = stack[Depth - 1]
  BY <1>1, Returning, Now
<1>3. /\ Caller.op \in Loops /\ Caller.op.inputs \in Lists /\ Caller.op.outs \in Nat
      /\ InputsOf(Caller) = ToSet(Caller.op.inputs)
  BY <1>2, LoopIs
<1>4. Caller.op.outs <= Len(Caller.op.inputs)
  <2>1. ProperAt(Caller, Depth - 1)
    BY <1>2, Now DEF Good, Shaped
  <2> QED BY <1>2, <2>1 DEF ProperAt
<1>5. r \in Lists /\ ToSet(r) \subseteq NamesOf(Top)
  BY <1>1, <1>3, ArgumentsAre
<1>6. /\ l \in Lists /\ Len(l) = Len(Caller.op.inputs)
      /\ \A t \in ToSet(l) : t \in InputsOf(Caller) \/ t \in Unused \/ (t \in NamesOf(Top) /\ t \notin Slots)
  BY <1>1, <1>3, <1>4, <1>5, CarriedIs
<1> HIDE DEF l
<1>7. o \in Loops
  BY <1>3, <1>6, NothingRetained DEF Loops
<1>8. p = [Caller EXCEPT !.op = o] /\ p.op = o
  BY <1>2, <1>3 DEF Programs, Loops
<1>9. p.op = [Caller.op EXCEPT !.inner = NoRetention, !.inputs = l]
  BY <1>8
<1> HIDE DEF o, p
<1>10. /\ p \in Programs /\ p.called = Caller.called /\ p.traced = Caller.traced /\ p.pool = Caller.pool
       /\ p.what = Caller.what
  BY <1>2, <1>7, <1>8 DEF Programs
<1>11. g = Restored(Caller.op.inner, l, retain)
  OBVIOUS
<1> HIDE DEF g
<1> QED BY <1>1, <1>6, <1>9, <1>10, <1>11, ReturnsToLoop

\* The flags when an operation ends with results l.
LEMMA EscapingIs ==
  ASSUME NEW r \in Retentions, NEW l, NEW f \in [Tensors -> BOOLEAN], NEW i
  PROVE  LET g == Escaping(r, l, Restored(r, i, f)) IN
         /\ g \in [Tensors -> BOOLEAN]
         /\ \A t \in Tensors : t \notin ToSet(r.tensors) => (f[t] => g[t])
         /\ \A t \in ToSet(r.tensors) : ~Frees(r, t) => g[t]
         /\ \A t \in Tensors \cap ToSet(l) : ~g[t] => t \notin Repeated(l) /\ ~f[t]
         /\ \A t \in ToSet(r.tensors) \ ToSet(l) : g[t] <=> ~Frees(r, t)
<1> DEFINE m == Restored(r, i, f)
           g == Escaping(r, l, m)
<1>1. /\ m \in [Tensors -> BOOLEAN]
      /\ \A t \in Tensors : t \notin ToSet(r.tensors) => m[t] = f[t]
      /\ \A t \in ToSet(r.tensors) : m[t] <=> ~Frees(r, t)
  BY RestoredIs
<1> HIDE DEF m
<1>2. ToSet(r.tensors) \subseteq Tensors
  BY RetentionIs, ListIs
<1>3. g \in [Tensors -> BOOLEAN]
  <2>1. \A t \in Tensors : (m[t] \/ t \in Repeated(l) \/ (t \in ToSet(l) /\ t \in ToSet(r.tensors))) \in BOOLEAN
    OBVIOUS
  <2> QED BY <2>1 DEF Escaping
<1>4. \A t \in Tensors : g[t] <=> m[t] \/ t \in Repeated(l) \/ (t \in ToSet(l) /\ t \in ToSet(r.tensors))
  BY DEF Escaping
<1>5. Repeated(l) \subseteq ToSet(l)
  BY DEF Repeated
<1> HIDE DEF g
<1> QED BY <1>1, <1>2, <1>3, <1>4, <1>5 DEF g, m

LEMMA OperationEnds ==
  ASSUME TensorsIInv, NEW n \in 1 .. Len(stack), NEW c, c = stack[n], ~Idle(c),
         NEW l \in Lists, NEW p, p = Insert([c EXCEPT !.op = NoOp], l), NEW i,
         NEW g, g = Escaping(c.op.outer, l, Restored(c.op.outer, i, retain)),
         Topped(stack', stack, n, p), held' = held, Flags(g, freed),
         \A t \in ToSet(l) : ~retain[t] =>
           \A e \in 1 .. n : t \notin NamesOf(stack[e]) /\ (e < n => t \notin InputsOf(stack[e])),
         \A k \in 1 .. MaxDepth : Slot(k) \in ToSet(l) => (k <= n => stack[k].traced)
  PROVE  TensorsIInv'
<1>1. /\ freed = {} /\ Good(stack, retain, held) /\ stack \in Seq(Programs) /\ c \in Programs
      /\ retain \in [Tensors -> BOOLEAN] /\ Called(stack)
  BY Now
<1>2. c.op.outer = OuterOf(c) /\ OuterOf(c) \in Retentions
  BY <1>1, ProgramIs DEF OuterOf, Idle
<1> DEFINE q == [c EXCEPT !.op = NoOp]
<1>3. /\ q \in Programs /\ q.op = NoOp /\ q.called = c.called /\ q.traced = c.traced /\ q.pool = c.pool
      /\ q.what = c.what
  BY <1>1 DEF Programs
<1>4. p = Insert(q, l)
  OBVIOUS
<1> HIDE DEF q
<1>5. /\ p \in Programs /\ Idle(p) /\ p.called = c.called /\ p.traced = c.traced
      /\ p.pool = Named(c.pool, l) /\ p.what = c.what
  BY <1>3, <1>4, InsertIs DEF Idle
<1>6. /\ g \in [Tensors -> BOOLEAN]
      /\ \A t \in Tensors : t \notin ToSet(OuterOf(c).tensors) => (retain[t] => g[t])
      /\ \A t \in ToSet(OuterOf(c).tensors) : ~Frees(OuterOf(c), t) => g[t]
      /\ \A t \in Tensors \cap ToSet(l) : ~g[t] => t \notin Repeated(l) /\ ~retain[t]
  BY <1>1, <1>2, EscapingIs
<1>7. ToSet(l) \subseteq Tensors
  BY ListIs
<1>8. \A t \in ToSet(l) : ~g[t] =>
        /\ t \notin Repeated(l)
        /\ \A e \in 1 .. n : t \notin NamesOf(stack[e]) /\ (e < n => t \notin InputsOf(stack[e]))
  BY <1>6, <1>7
<1>9. OperationOver(stack[n], p, l)
  BY <1>5 DEF OperationOver
<1>10. Good(stack', g, held)
  <2>1. OnlyFrees(OuterOf(stack[n]), retain, g)
    BY <1>6 DEF OnlyFrees
  <2>2. Good(stack, retain, held) /\ p \in Programs /\ g \in [Tensors -> BOOLEAN]
    BY <1>1, <1>5, <1>6
  <2> QED BY <1>8, <1>9, <2>1, <2>2, EndsOperation
<1>11. Called(stack')
  BY <1>1, <1>5, CalledIs
<1>12. InnerOf(Top') = NoRetention
  BY <1>5, ToppedIs, IdleIs
<1> QED BY <1>1, <1>10, <1>11, <1>12, FlagsKeep

LEMMA EndLoopKeeps ==
  ASSUME TensorsIInv, EndLoop PROVE TensorsIInv'
<1> DEFINE l == SubSeq(Top.op.inputs, 1, Top.op.outs)
           p == Insert([Top EXCEPT !.op = NoOp], l)
           g == Escaping(Top.op.outer, l, Restored(Top.op.outer, Top.op.inputs, retain))
<1>1. /\ Depth > 0 /\ Top.op.kind = "while" /\ stack' = Replaced(Depth, p) /\ held' = held /\ Flags(g, freed)
  BY DEF EndLoop
<1>2. /\ Good(stack, retain, held) /\ stack \in Seq(Programs) /\ Depth = Len(stack)
      /\ Depth \in 1 .. Len(stack) /\ Top = stack[Depth] /\ Top \in Programs
      /\ \A d \in 1 .. Depth : stack[d] \in Programs
  BY <1>1, Now DEF Top
<1>3. /\ Top.op.inputs \in Lists /\ Top.op.outs \in Nat /\ ~Idle(Top) /\ InputsOf(Top) = ToSet(Top.op.inputs)
  BY <1>1, <1>2, LoopIs
<1>4. Top.op.outs <= Len(Top.op.inputs)
  <2>1. ProperAt(Top, Depth)
    BY <1>2 DEF Good, Shaped
  <2> QED BY <1>1, <2>1 DEF ProperAt
<1>5. l \in Lists /\ ToSet(l) \subseteq InputsOf(Top)
  <2> DEFINE s == Top.op.inputs
             k == Top.op.outs
  <2>1. Len(s) \in Nat /\ s \in Seq(Tensors) /\ k \in Nat /\ k <= Len(s)
    BY <1>3, <1>4, ListIs DEF Lists
  <2> HIDE DEF s, k
  <2>2. SubSeq(s, 1, k) \in Seq(Tensors) /\ Len(SubSeq(s, 1, k)) = k /\ \A i \in 1 .. k : SubSeq(s, 1, k)[i] = s[i]
    BY <2>1
  <2>3. ToSet(SubSeq(s, 1, k)) \subseteq ToSet(s)
    BY <2>1, <2>2 DEF ToSet
  <2> QED BY <1>3, <2>2, <2>3 DEF s, k, Lists
<1> HIDE DEF l
<1>6. p \in Programs
  <2>1. [Top EXCEPT !.op = NoOp] \in Programs
    BY <1>2 DEF Programs
  <2> QED BY <1>5, <2>1, InsertIs
<1>7. Topped(stack', stack, Depth, p)
  BY <1>1, <1>2, <1>6, ReplacedIs
<1>8. ASSUME NEW t \in ToSet(l), ~retain[t], NEW e \in 1 .. Depth
      PROVE  t \notin NamesOf(stack[e]) /\ (e < Depth => t \notin InputsOf(stack[e]))
  <2>1. t \in InputsOf(stack[Depth]) /\ t \in Tensors
    BY <1>2, <1>5, ListIs
  <2>2. t \notin NamesOf(stack[e])
    BY <1>2, <1>8, <2>1 DEF Good, Alone
  <2>3. e < Depth => t \notin InputsOf(stack[e])
    <3>1. e < Depth => InputsOf(stack[e]) \subseteq RetainedBy(stack[e])
      BY <1>2 DEF Good, Shaped, Runs
    <3>2. t \notin RetainedBy(stack[e])
      BY <1>2, <1>8 DEF Good, StayRetained
    <3> QED BY <3>1, <3>2
  <2> QED BY <2>2, <2>3
<1>9. \A k \in 1 .. MaxDepth : Slot(k) \in ToSet(l) => (k <= Depth => stack[k].traced)
  BY <1>2, <1>5, TensorsAssumption DEF Good, SlotsPublished
<1>10. p = Insert([Top EXCEPT !.op = NoOp], l) /\ g = Escaping(Top.op.outer, l, Restored(Top.op.outer, Top.op.inputs, retain))
  OBVIOUS
<1> HIDE DEF p, g
<1> QED BY <1>1, <1>2, <1>3, <1>5, <1>7, <1>8, <1>9, <1>10, OperationEnds

LEMMA ReturnBranchKeeps ==
  ASSUME TensorsIInv, NEW k \in Nat, NEW l \in Arguments(k), ReturnBranch(l) PROVE TensorsIInv'
<1> DEFINE n == Depth - 1
           p == Insert([Caller EXCEPT !.op = NoOp], l)
           g == Escaping(Caller.op.outer, l, Restored(Caller.op.outer, Caller.op.inputs, retain))
<1>1. /\ Running /\ Top.what = "branch" /\ held' = held /\ Flags(g, freed)
      /\ stack' = Popped(Insert([Caller EXCEPT !.op = NoOp], l))
  BY DEF ReturnBranch
<1>2. /\ Depth > 1 /\ n \in 1 .. Len(stack) - 1 /\ n \in 1 .. Len(stack) /\ Depth = Len(stack)
      /\ Caller = stack[n] /\ Caller \in Programs /\ ~Idle(Caller)
      /\ Depth \in 1 .. Len(stack) /\ Top = stack[Depth]
  BY <1>1, Returning, RunningIs
<1>3. l \in Lists /\ ToSet(l) \subseteq NamesOf(Top) /\ ToSet(l) \subseteq Tensors
  BY <1>1, ArgumentsAre, ListIs
<1>4. Good(stack, retain, held) /\ stack \in Seq(Programs)
  BY Now
<1>5. p \in Programs
  <2>1. [Caller EXCEPT !.op = NoOp] \in Programs
    BY <1>2 DEF Programs
  <2> QED BY <1>3, <2>1, InsertIs
<1>6. Topped(stack', stack, n, p)
  BY <1>1, <1>2, <1>4, <1>5, PoppedIs
<1>7. \A e \in 1 .. n : e \in 1 .. Len(stack) /\ e # Depth
  BY <1>2
<1>8. \A t \in ToSet(l) : ~retain[t] =>
        \A e \in 1 .. n : t \notin NamesOf(stack[e]) /\ (e < n => t \notin InputsOf(stack[e]))
  <2> HIDE DEF n
  <2> QED BY <1>2, <1>3, <1>4, <1>7 DEF Good, Alone
<1>9. \A j \in 1 .. MaxDepth : Slot(j) \in ToSet(l) => (j <= n => stack[j].traced)
  <2>1. \A j \in 1 .. MaxDepth : Slot(j) \in ToSet(l) => (j <= Depth /\ stack[j].traced) \/ j > Depth
    BY <1>2, <1>3, <1>4 DEF Good, SlotsPublished
  <2> QED BY <1>2, <2>1, TensorsAssumption
<1>10. /\ p = Insert([Caller EXCEPT !.op = NoOp], l)
       /\ g = Escaping(Caller.op.outer, l, Restored(Caller.op.outer, Caller.op.inputs, retain))
  OBVIOUS
<1> HIDE DEF p, g, n
<1> QED BY <1>1, <1>2, <1>3, <1>6, <1>8, <1>9, <1>10, OperationEnds

LEMMA TensorsInitIInv == TensorsInit => TensorsIInv
<1> SUFFICES ASSUME TensorsInit PROVE TensorsIInv
  OBVIOUS
<1>1. stack = << >> /\ held \in SUBSET Own /\ freed = {} /\ retain \in [Tensors -> BOOLEAN]
  BY TensorsAssumption DEF TensorsInit, Own
<1>2. \A t \in held \cup {Constant} \cup Slots : retain[t]
  BY <1>1, SetsAre DEF TensorsInit
<1>3. Good(stack, retain, held)
  BY <1>1, <1>2, NoProgram
<1> QED BY <1>1, <1>3 DEF TensorsIInv, Called, Depth

LEMMA TensorsStepIInv == TensorsIInv /\ [TensorsNext]_tensorVars => TensorsIInv'
<1> SUFFICES ASSUME TensorsIInv, [TensorsNext]_tensorVars PROVE TensorsIInv'
  OBVIOUS
<1>1. ASSUME NEW t \in held, Submit(t) \/ Release(t) PROVE TensorsIInv'
  BY <1>1, SubmitKeeps, ReleaseKeeps
<1>2. CASE Compute
  BY <1>2, ComputeKeeps
<1>3. CASE LoadCached
  BY <1>3, LoadCachedKeeps
<1>4. CASE ReplayTrace
  BY <1>4, ReplayTraceKeeps
<1>5. ASSUME NEW t \in Tensors, Deallocate(t) \/ Finish(t) PROVE TensorsIInv'
  BY <1>5, DeallocateKeeps, FinishKeeps
<1>6. ASSUME NEW l \in Arguments(LoopInputs), NEW outs \in 0 .. LoopInputs, StartLoop(l, outs) PROVE TensorsIInv'
  BY <1>6, StartLoopKeeps
<1>7. ASSUME NEW l \in Arguments(CaseInputs), StartCase(l) PROVE TensorsIInv'
  BY <1>7, StartCaseKeeps
<1>8. ASSUME NEW k \in 1 .. 2, NEW l \in Arguments(k), ReturnBranch(l) PROVE TensorsIInv'
  BY <1>8, ReturnBranchKeeps
<1>9. ASSUME Depth > 1, NEW r \in Arguments(Caller.op.outs), ReturnBody(r) PROVE TensorsIInv'
  BY <1>9, ReturnBodyKeeps
<1>10. CASE Execute("condition") \/ Execute("body")
  BY <1>10, ExecuteKeeps
<1>11. CASE ReturnCondition
  BY <1>11, ReturnConditionKeeps
<1>12. CASE EndLoop
  BY <1>12, EndLoopKeeps
<1>13. CASE Throw
  BY <1>13, ThrowKeeps
<1>14. CASE UNCHANGED tensorVars
  BY <1>14 DEF tensorVars, TensorsIInv, Depth, Top
<1>15. CASE TensorsNext
  BY <1>1, <1>2, <1>3, <1>4, <1>5, <1>6, <1>7, <1>8, <1>9, <1>10, <1>11, <1>12, <1>13, <1>15 DEF TensorsNext
<1> QED BY <1>14, <1>15

\* What is not retained has one name and no other use, whatever runs what.
THEOREM TensorsInvariant == TensorsSpec => []TensorsIInv
<1> QED BY TensorsInitIInv, TensorsStepIInv, PTL DEF TensorsSpec

\* No buffer is deallocated that a name, a loop's value, the framework, the constant
\* cache or a trace's slot refers to, however deep programs run programs and whatever
\* they pass, return twice and deallocate.
THEOREM NothingIsFreed == TensorsSpec => []NothingNamedIsFreed
<1>1. TensorsIInv => NothingNamedIsFreed
  BY DEF TensorsIInv, NothingNamedIsFreed
<1> QED BY <1>1, TensorsInvariant, PTL

\* A trace that was not replayed in a program's run has no name for its slot anywhere,
\* so that the replay overwrites no value.
THEOREM SlotsAreFree == TensorsSpec => ReplaysOverwriteNothing
<1>1. ASSUME TensorsIInv, NEW d \in 1 .. Depth, ~stack[d].traced
      PROVE  Slot(d) \notin held \cup UNION {NamedBy(stack[e]) : e \in 1 .. Depth}
  <2>1. /\ Good(stack, retain, held) /\ Depth = Len(stack) /\ d \in 1 .. Len(stack) /\ d \in 1 .. MaxDepth
        /\ held \in SUBSET Own /\ MaxDepth \in Nat /\ Len(stack) \in Nat
    <3>1. MaxDepth \in Nat
      BY TensorsAssumption
    <3>2. Good(stack, retain, held) /\ Depth = Len(stack) /\ Depth \in Nat /\ Depth <= MaxDepth /\ held \in SUBSET Own
      BY <1>1, Now
    <3> QED BY <3>1, <3>2
  <2>2. Slot(d) \notin held
    BY <2>1, SetsAre
  <2>3. ASSUME NEW e \in 1 .. Depth, Slot(d) \in NamesOf(stack[e]) \cup InputsOf(stack[e]) PROVE FALSE
    <3>1. d > e /\ stack[e].op = NoOp
      BY <1>1, <2>1, <2>3 DEF Good, SlotsPublished
    <3>2. e \in 1 .. Len(stack) /\ e < Len(stack)
      BY <2>1, <3>1
    <3> QED BY <2>1, <3>1, <3>2 DEF Good, Shaped, Runs
  <2>4. \A e \in 1 .. Depth : Slot(d) \notin NamedBy(stack[e])
    BY <2>3 DEF NamedBy, NamesOf, InputsOf
  <2> QED BY <2>2, <2>4
<1>2. TensorsIInv /\ [TensorsNext]_tensorVars =>
        [\A d \in 1 .. Depth :
           d <= Len(stack') /\ stack'[d].traced /\ ~stack[d].traced
             => Slot(d) \notin held \cup UNION {NamedBy(stack[e]) : e \in 1 .. Depth}]_tensorVars
  BY <1>1
<1> QED BY <1>2, TensorsInvariant, PTL DEF TensorsSpec, ReplaysOverwriteNothing

-----------------------------------------------------------------------------
(* Flags come back.                                                          *)

\* What becomes of the programs when the last one, or the one before, is replaced.
LEMMA ReplacedElsewhere ==
  ASSUME stack \in Seq(Programs), NEW p
  PROVE  LET u == Replaced(Depth, p) IN
         /\ Len(u) = Depth /\ Depth \in Nat
         /\ \A d \in 1 .. Depth : u[d] = IF d = Depth THEN p ELSE stack[d]
         /\ \A q : /\ Len(Append(u, q)) = Depth + 1
                   /\ \A d \in 1 .. Depth : Append(u, q)[d] = IF d = Depth THEN p ELSE stack[d]
<1> DEFINE S == Programs \cup {p}
           u == Replaced(Depth, p)
<1>1. stack \in Seq(S) /\ p \in S /\ Depth = Len(stack) /\ Depth \in Nat
  BY DEF Depth
<1>2. u \in Seq(S) /\ Len(u) = Depth /\ \A d \in 1 .. Depth : u[d] = IF d = Depth THEN p ELSE stack[d]
  <2> HIDE DEF S
  <2>1. u = [stack EXCEPT ![Depth] = p]
    BY DEF Replaced
  <2>2. DOMAIN stack = 1 .. Depth /\ DOMAIN u = 1 .. Depth
    BY <1>1, <2>1
  <2>3. \A d \in 1 .. Depth : u[d] = IF d = Depth THEN p ELSE stack[d]
    BY <2>1, <2>2
  <2>4. \A d \in 1 .. Depth : u[d] \in S
    BY <1>1, <2>3
  <2>5. u \in Seq(S) /\ Len(u) = Depth
    <3>1. u = [d \in 1 .. Depth |-> u[d]]
      BY <2>1, <2>2
    <3> HIDE DEF u
    <3> QED BY <1>1, <2>4, <3>1
  <2> QED BY <2>3, <2>5
<1> HIDE DEF u
<1>3. ASSUME NEW q
      PROVE  Len(Append(u, q)) = Depth + 1 /\ \A d \in 1 .. Depth : Append(u, q)[d] = u[d]
  <2> DEFINE T == S \cup {q}
  <2>1. u \in Seq(T) /\ q \in T
    BY <1>2
  <2> HIDE DEF T
  <2> QED BY <1>1, <1>2, <2>1
<1> QED BY <1>1, <1>2, <1>3 DEF u

LEMMA PoppedElsewhere ==
  ASSUME stack \in Seq(Programs), Depth > 1, NEW p
  PROVE  /\ Len(Popped(p)) = Depth - 1 /\ Popped(p)[Depth - 1] = p /\ Depth \in Nat
         /\ \A d \in 1 .. Depth - 2 : Popped(p)[d] = stack[d]
<1> DEFINE low == SubSeq(stack, 1, Depth - 2)
           S == Programs \cup {p}
<1>1. Depth = Len(stack) /\ Depth \in Nat /\ stack \in Seq(S) /\ p \in S /\ Depth - 2 \in Nat
  BY DEF Depth
<1> HIDE DEF S
<1>2. low \in Seq(S) /\ Len(low) = Depth - 2 /\ \A d \in 1 .. Depth - 2 : low[d] = stack[d]
  <2>1. \A d \in 1 .. Depth - 2 : stack[d] \in S
    BY <1>1
  <2>2. /\ low \in Seq(S)
        /\ Len(low) = IF 1 <= Depth - 2 THEN Depth - 2 - 1 + 1 ELSE 0
        /\ \A d \in 1 .. Depth - 2 - 1 + 1 : low[d] = stack[1 + d - 1]
    BY <1>1, <2>1, SubSeqProperties
  <2> QED BY <1>1, <2>2
<1> HIDE DEF low
<1>3. Len(Append(low, p)) = Depth - 1 /\ Append(low, p)[Depth - 1] = p
      /\ \A d \in 1 .. Depth - 2 : Append(low, p)[d] = low[d]
  BY <1>1, <1>2
<1> QED BY <1>1, <1>2, <1>3 DEF Popped, low

\* What a retention recorded of a tensor.
LEMMA FlagIs ==
  ASSUME NEW r \in Retentions, NEW i \in DOMAIN r.tensors
  PROVE  r.flags[i] \in BOOLEAN /\ (r.flags[i] <=> ~Frees(r, r.tensors[i])) /\ r.tensors[i] \in ToSet(r.tensors)
<1>1. /\ r.flags[i] \in BOOLEAN
      /\ \A j \in DOMAIN r.tensors : r.tensors[j] = r.tensors[i] => r.flags[j] = r.flags[i]
  BY RetentionIs
<1> QED BY <1>1 DEF Frees, ToSet

LEMMA EndsAsBefore ==
  ASSUME TensorsIInv, NEW n \in 1 .. Depth, ~Idle(stack[n]), NEW l \in Lists, NEW i,
         Len(stack') = n, stack'[n] = Insert([stack[n] EXCEPT !.op = NoOp], l),
         Flags(Escaping(stack[n].op.outer, l, Restored(stack[n].op.outer, i, retain)), freed)
  PROVE  AsBefore(n)
<1> DEFINE c == stack[n]
           r == c.op.outer
           g == Escaping(r, l, Restored(r, i, retain))
<1>1. c \in Programs /\ retain \in [Tensors -> BOOLEAN]
  BY Now
<1>2. r = OuterOf(c) /\ OuterOf(c) \in Retentions /\ c.pool \in Pools
  BY <1>1, ProgramIs DEF OuterOf, Idle
<1>3. r \in Retentions /\ ToSet(r.tensors) \subseteq Tensors
  BY <1>2, RetentionIs, ListIs
<1>4. /\ g \in [Tensors -> BOOLEAN]
      /\ \A t \in ToSet(r.tensors) \ ToSet(l) : g[t] <=> ~Frees(r, t)
  BY <1>1, <1>3, EscapingIs
<1>5. retain' = [t \in Tensors |-> t \in Handles' /\ g[t]]
  BY DEF Flags
<1>6. stack'[n].pool = Named(c.pool, l)
  <2> DEFINE q == [c EXCEPT !.op = NoOp]
  <2>1. q \in Programs /\ q.pool = c.pool
    BY <1>1 DEF Programs
  <2> HIDE DEF q
  <2> QED BY <2>1, InsertIs DEF q
<1>7. \A t \in ToSet(l) : Copies(t, stack'[n].pool) > Copies(t, c.pool)
  BY <1>2, <1>6, NamedIs
<1> HIDE DEF g
<1>8. ASSUME NEW j \in DOMAIN r.tensors, r.tensors[j] \in Handles', r.tensors[j] \notin ToSet(l)
      PROVE  retain'[r.tensors[j]] = r.flags[j]
  <2> DEFINE t == r.tensors[j]
  <2>1. r.flags[j] \in BOOLEAN /\ (r.flags[j] <=> ~Frees(r, t)) /\ t \in ToSet(r.tensors)
    BY <1>3, FlagIs
  <2>2. retain'[t] = g[t] /\ g[t] \in BOOLEAN
    BY <1>3, <1>4, <1>5, <1>8, <2>1
  <2> QED BY <1>4, <1>8, <2>1, <2>2
<1>9. n >= n
  BY Now
<1> HIDE DEF r
<1>10. ASSUME NEW j \in DOMAIN r.tensors
       PROVE  \/ retain'[r.tensors[j]] = r.flags[j]
              \/ r.tensors[j] \notin Handles'
              \/ Len(stack') >= n /\ Copies(r.tensors[j], stack'[n].pool) > Copies(r.tensors[j], c.pool)
  BY <1>7, <1>8, <1>9
<1> QED BY <1>10 DEF AsBefore, r

\* A running program, which has no operation, goes on or starts one.
LEMMA RunningLeavesNothing ==
  ASSUME TensorsIInv, Running, NEW p, stack' = Replaced(Depth, p) \/ \E q : stack' = Append(Replaced(Depth, p), q),
         NEW d \in 1 .. Depth
  PROVE  ~Leaves(d)
<1>1. /\ stack \in Seq(Programs) /\ Depth \in Nat /\ Top = stack[Depth] /\ Top.op = NoOp
  BY RunningIs, Now DEF Idle
<1>2. Len(stack') >= Depth /\ (d # Depth => stack'[d] = stack[d])
  BY <1>1, ReplacedElsewhere
<1> QED BY <1>1, <1>2 DEF Leaves

LEMMA ExecuteLeavesNothing ==
  ASSUME TensorsIInv, NEW what, Execute(what), NEW d \in 1 .. Depth PROVE ~Leaves(d)
<1> DEFINE p == [Top EXCEPT !.op.inner = Retaining(Top.op.inputs)]
<1>1. Depth > 0 /\ Top.op.kind = "while" /\ stack' = Append(Replaced(Depth, p), Program(Top.op.inputs, what))
  BY DEF Execute
<1>2. stack \in Seq(Programs) /\ Depth \in Nat /\ Top \in Programs
  BY <1>1, Now DEF Top
<1>3. p.op.kind = "while"
  BY <1>1, <1>2, LoopIs DEF Programs, Loops
<1> HIDE DEF p
<1>4. Len(stack') >= Depth /\ stack'[d] = IF d = Depth THEN p ELSE stack[d]
  BY <1>1, <1>2, ReplacedElsewhere
<1> QED BY <1>2, <1>3, <1>4 DEF Leaves, NoOp

LEMMA ReturnLeavesNothing ==
  ASSUME TensorsIInv, Running, Top.what \in {"condition", "body"},
         NEW p, p.op.kind = "while", stack' = Popped(p), NEW d \in 1 .. Depth
  PROVE  ~Leaves(d)
<1>1. stack \in Seq(Programs) /\ Depth \in Nat /\ Top = stack[Depth] /\ Top.op = NoOp /\ Depth > 1
  BY RunningIs, Returning, Now DEF Idle
<1>2. /\ Len(stack') = Depth - 1 /\ stack'[Depth - 1] = p /\ \A e \in 1 .. Depth - 2 : stack'[e] = stack[e]
  BY <1>1, PoppedElsewhere
<1>3. CASE d = Depth
  BY <1>1, <1>3 DEF Leaves
<1>4. CASE d = Depth - 1
  BY <1>1, <1>2, <1>4 DEF Leaves, NoOp
<1>5. CASE d \in 1 .. Depth - 2
  BY <1>1, <1>2, <1>5 DEF Leaves
<1> QED BY <1>1, <1>3, <1>4, <1>5

LEMMA EndLoopAsBefore ==
  ASSUME TensorsIInv, EndLoop, NEW d \in 1 .. Depth, Leaves(d) PROVE AsBefore(d)
<1> DEFINE l == SubSeq(Top.op.inputs, 1, Top.op.outs)
           p == Insert([Top EXCEPT !.op = NoOp], l)
<1>1. /\ Depth > 0 /\ Top.op.kind = "while" /\ stack' = Replaced(Depth, p)
      /\ Flags(Escaping(Top.op.outer, l, Restored(Top.op.outer, Top.op.inputs, retain)), freed)
  BY DEF EndLoop
<1>2. /\ stack \in Seq(Programs) /\ Depth \in Nat /\ Depth \in 1 .. Len(stack) /\ Top = stack[Depth]
      /\ Top \in Programs /\ Good(stack, retain, held)
  BY <1>1, Now DEF Top
<1>3. /\ Top.op.inputs \in Lists /\ Top.op.outs \in Nat /\ ~Idle(Top)
  BY <1>1, <1>2, LoopIs
<1>4. Top.op.outs <= Len(Top.op.inputs)
  <2>1. ProperAt(Top, Depth)
    BY <1>2 DEF Good, Shaped
  <2> QED BY <1>1, <2>1 DEF ProperAt
<1>5. l \in Lists
  <2> DEFINE s == Top.op.inputs
             k == Top.op.outs
  <2>1. s \in Seq(Tensors) /\ k \in Nat /\ k <= Len(s)
    BY <1>3, <1>4 DEF Lists
  <2> HIDE DEF s, k
  <2> QED BY <2>1 DEF Lists, s, k
<1> HIDE DEF l, p
<1>6. Len(stack') = Depth /\ stack'[Depth] = p /\ (d # Depth => stack'[d] = stack[d])
  BY <1>1, <1>2, ReplacedElsewhere
<1>7. d = Depth
  BY <1>2, <1>6 DEF Leaves
<1> QED BY <1>1, <1>2, <1>3, <1>5, <1>6, <1>7, EndsAsBefore DEF p

LEMMA ReturnBranchAsBefore ==
  ASSUME TensorsIInv, NEW k \in Nat, NEW l \in Arguments(k), ReturnBranch(l), NEW d \in 1 .. Depth, Leaves(d)
  PROVE  AsBefore(d)
<1> DEFINE n == Depth - 1
           p == Insert([Caller EXCEPT !.op = NoOp], l)
<1>1. /\ Running /\ Top.what = "branch" /\ stack' = Popped(p)
      /\ Flags(Escaping(Caller.op.outer, l, Restored(Caller.op.outer, Caller.op.inputs, retain)), freed)
  BY DEF ReturnBranch
<1>2. /\ Depth > 1 /\ n \in 1 .. Depth /\ Depth \in Nat /\ Caller = stack[n] /\ ~Idle(Caller)
      /\ Top = stack[Depth] /\ Top.op = NoOp /\ stack \in Seq(Programs)
  BY <1>1, Returning, RunningIs, Now DEF Idle
<1>3. l \in Lists
  BY <1>1, ArgumentsAre
<1> HIDE DEF p
<1>4. Len(stack') = n /\ stack'[n] = p /\ \A e \in 1 .. Depth - 2 : stack'[e] = stack[e]
  BY <1>1, <1>2, PoppedElsewhere
<1>5. d = n
  <2>1. d # Depth
    BY <1>2 DEF Leaves
  <2>2. d \notin 1 .. Depth - 2
    BY <1>2, <1>4 DEF Leaves
  <2> QED BY <1>2, <2>1, <2>2
<1> HIDE DEF n
<1> QED BY <1>1, <1>2, <1>3, <1>4, <1>5, EndsAsBefore DEF p

\* An exception leaves the whole stack, and the outermost retention counts.
LEMMA ThrowAsBefore ==
  ASSUME TensorsIInv, Throw, NEW d \in 1 .. Depth, Leaves(d), \A e \in 1 .. d - 1 : ~Leaves(e)
  PROVE  AsBefore(d)
<1> DEFINE c == stack[d]
           r == c.op.outer
<1>1. stack' = << >> /\ Flags(Unwound, freed)
  BY DEF Throw
<1>2. /\ Good(stack, retain, held) /\ Depth = Len(stack) /\ Depth \in Nat /\ c \in Programs
      /\ retain \in [Tensors -> BOOLEAN] /\ c.op # NoOp
  BY Now DEF Leaves
<1>3. d = 1
  <2> SUFFICES ASSUME d # 1 PROVE FALSE
    OBVIOUS
  <2>1. d - 1 \in 1 .. Len(stack) /\ d - 1 < Len(stack) /\ d - 1 \in 1 .. d - 1
    BY <1>2
  <2>2. stack[d - 1].op # NoOp
    BY <1>2, <2>1 DEF Good, Shaped, Runs
  <2>3. Len(stack') < d - 1
    BY <1>1, <1>2, <2>1
  <2> QED BY <2>1, <2>2, <2>3 DEF Leaves
<1>4. r = OuterOf(c) /\ r \in Retentions /\ ~Idle(c) /\ ToSet(r.tensors) \subseteq RetainedBy(c)
      /\ ToSet(r.tensors) \subseteq Tensors
  BY <1>2, ProgramIs DEF OuterOf, Idle
<1>5. ASSUME NEW t \in ToSet(r.tensors) PROVE Unwound[t] \in BOOLEAN /\ (Unwound[t] <=> ~Frees(r, t))
  <2>1. t \in RetainedBy(stack[d]) /\ t \in Tensors
    BY <1>4
  <2>2. Outermost(t) \in 1 .. Depth /\ Outermost(t) <= d
    BY <1>2, <2>1, OutermostIs
  <2>3. Outermost(t) = d
    BY <1>2, <1>3, <2>2
  <2>4. Unwound[t] = Leaving(c, retain)[t]
    BY <2>1, <2>3 DEF Unwound
  <2>5. Leaving(c, retain) \in [Tensors -> BOOLEAN] /\ (Leaving(c, retain)[t] <=> ~Frees(OuterOf(c), t))
    <3>1. t \in RetainedBy(c) /\ t \in ToSet(OuterOf(c).tensors)
      BY <1>4
    <3> QED BY <1>2, <1>4, <3>1, LeavingIs
  <2> QED BY <1>4, <2>1, <2>4, <2>5
<1>6. retain' = [t \in Tensors |-> t \in Handles' /\ Unwound[t]]
  BY <1>1 DEF Flags
<1>7. ASSUME NEW j \in DOMAIN r.tensors, r.tensors[j] \in Handles' PROVE retain'[r.tensors[j]] = r.flags[j]
  <2>1. /\ r.flags[j] \in BOOLEAN /\ (r.flags[j] <=> ~Frees(r, r.tensors[j])) /\ r.tensors[j] \in ToSet(r.tensors)
    BY <1>4, FlagIs
  <2> HIDE DEF r
  <2>2. Unwound[r.tensors[j]] \in BOOLEAN /\ (Unwound[r.tensors[j]] <=> ~Frees(r, r.tensors[j]))
    BY <1>5, <2>1
  <2>3. retain'[r.tensors[j]] = Unwound[r.tensors[j]]
    BY <1>4, <1>6, <1>7, <2>1, <2>2
  <2> QED BY <2>1, <2>2, <2>3
<1> HIDE DEF r
<1> QED BY <1>7 DEF AsBefore, r

LEMMA FlagsStep ==
  ASSUME TensorsIInv, TensorsNext, NEW d \in 1 .. Depth, Leaves(d), \A e \in 1 .. d - 1 : ~Leaves(e)
  PROVE  AsBefore(d)
<1>0. Depth \in Nat /\ stack[d].op # NoOp
  BY Now DEF Leaves
<1>1. ASSUME NEW t \in held, Submit(t) \/ Release(t) PROVE FALSE
  BY <1>0, <1>1 DEF Submit, Release, Depth
<1>2. ~Compute
  BY RunningLeavesNothing DEF Compute
<1>3. ~LoadCached
  BY RunningLeavesNothing DEF LoadCached
<1>4. ~ReplayTrace
  BY RunningLeavesNothing DEF ReplayTrace
<1>5. ASSUME NEW t \in Tensors, Deallocate(t) PROVE FALSE
  BY <1>5, RunningLeavesNothing DEF Deallocate
<1>6. ASSUME NEW t \in Tensors, Finish(t) PROVE FALSE
  <2>1. Running /\ Depth = 1
    BY <1>6 DEF Finish
  <2> QED BY <1>0, <2>1 DEF Running, Top
<1>7. ASSUME NEW l, NEW outs, StartLoop(l, outs) PROVE FALSE
  BY <1>7, RunningLeavesNothing DEF StartLoop
<1>8. ASSUME NEW l, StartCase(l) PROVE FALSE
  <2>1. Running /\ \E p : \E q : stack' = Append(Replaced(Depth, p), q)
    BY <1>8 DEF StartCase
  <2> QED BY <2>1, RunningLeavesNothing
<1>9. ASSUME NEW k \in 1 .. 2, NEW l \in Arguments(k), ReturnBranch(l) PROVE AsBefore(d)
  BY <1>9, ReturnBranchAsBefore
<1>10. ASSUME NEW r, ReturnBody(r) PROVE FALSE
  <2> DEFINE l == Carried(Caller.op, r)
             p == [Caller EXCEPT !.op.inner = NoRetention, !.op.inputs = l]
  <2>1. Running /\ Top.what = "body" /\ stack' = Popped(p)
    BY <1>10 DEF ReturnBody
  <2>2. Caller \in Programs /\ Caller.op.kind = "while"
    BY <2>1, Returning
  <2>3. Caller.op \in Loops
    BY <2>2, LoopIs
  <2> HIDE DEF l
  <2>4. p.op.kind = "while"
    BY <2>2, <2>3 DEF Programs, Loops
  <2> HIDE DEF p
  <2> QED BY <2>1, <2>4, ReturnLeavesNothing
<1>11. ~ReturnCondition
  <2> SUFFICES ASSUME ReturnCondition PROVE FALSE
    OBVIOUS
  <2> DEFINE p == [Caller EXCEPT !.op.inner = NoRetention]
  <2>1. Running /\ Top.what = "condition" /\ stack' = Popped(p)
    BY DEF ReturnCondition
  <2>2. Caller \in Programs /\ Caller.op.kind = "while"
    BY <2>1, Returning
  <2>3. Caller.op \in Loops
    BY <2>2, LoopIs
  <2>4. p.op.kind = "while"
    BY <2>2, <2>3 DEF Programs, Loops
  <2> HIDE DEF p
  <2> QED BY <2>1, <2>4, ReturnLeavesNothing
<1>12. ~Execute("condition") /\ ~Execute("body")
  BY ExecuteLeavesNothing
<1>13. EndLoop => AsBefore(d)
  BY EndLoopAsBefore
<1>14. Throw => AsBefore(d)
  BY ThrowAsBefore
<1> QED BY <1>1, <1>2, <1>3, <1>4, <1>5, <1>6, <1>7, <1>8, <1>9, <1>10, <1>11, <1>12, <1>13, <1>14 DEF TensorsNext

\* When a loop or a case is left, by its end or by an exception, the tensors it retained
\* are again retained or not as they were before, but for its results.
THEOREM FlagsReturn == TensorsSpec => FlagsComeBack
<1>1. TensorsIInv /\ [TensorsNext]_tensorVars =>
        [\A d \in 1 .. Depth : Leaves(d) /\ (\A e \in 1 .. d - 1 : ~Leaves(e)) => AsBefore(d)]_tensorVars
  BY FlagsStep
<1> QED BY <1>1, TensorsInvariant, PTL DEF TensorsSpec, FlagsComeBack
=============================================================================
