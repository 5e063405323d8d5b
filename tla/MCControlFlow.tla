---------------------------- MODULE MCControlFlow ---------------------------
(* Two sides of the runtime's loops, each with instances of its own: what a  *)
(* loop computes (CountedLoop, on three-bit integers with both ends of the   *)
(* type among the operands, so that counters overflow) and the tensors that  *)
(* loops and cases in one another hold (NestedTensors).                      *)
EXTENDS CountedLoop, NestedTensors, TLC

VARIABLE part

EndsAndSmall == {-4, 0, 1, 2, 3}
\* What a loop does is the same with its carries exchanged.
Symmetry == Permutations(Carries)

FlowInit ==
  /\ TensorsInit
  /\ \/ part = "numbers" /\ Init
     \/ /\ part = "tensors"
        /\ loop = (CHOOSE l \in While!Loops : TRUE) /\ captured = 0 /\ carry = [c \in Carries |-> 0]
        /\ phase = "lowered" /\ iteration = 0 /\ tripCount = 0 /\ overflowed = FALSE

\* Loops end, or fail; the tensors' part has no end.
Stopped == phase \in {"ended", "failed"} /\ UNCHANGED vars

FlowSpec ==
  /\ FlowInit
  /\ [][\/ part = "numbers" /\ (Next \/ Stopped) /\ UNCHANGED <<part, tensorVars>>
        \/ part = "tensors" /\ TensorsNext /\ UNCHANGED <<part, vars>>]_<<part, vars, tensorVars>>
=============================================================================
