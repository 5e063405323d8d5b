----------------------- MODULE MCKeyValueCollectives -----------------------
(* Four workloads: rounds of two processes, one of whose values has another  *)
(* length; gatherings on contexts that two processes make; more contexts     *)
(* made out of contexts; and a split of three processes.                     *)
EXTENDS KeyValueCollectives

CONSTANTS a, long

MCGroups == {<<0, 1>>, <<1, 0>>, <<1, 2>>, <<0>>}
MCSizeOf == [v \in {a, long} |-> IF v = long THEN 2 ELSE 1]

\* What the proofs take for granted of the text of numbers, on those that occur here.
ASSUME NumeralsDifferHere ==
  \A m, n \in 0 .. 99 :
    /\ Numeral(m) = Numeral(n) => m = n
    /\ Numeral(m) \notin
         {"libtt", "control", "duplicate", "group", "collective", "all_gather", "broadcast"}

RoundsLoad ==
  [processes |-> 2, kinds |-> {"gather", "broadcast"}, values |-> {a, long},
   colors |-> {}, collectives |-> 3, contexts |-> 1]
NestedLoad ==
  [processes |-> 2, kinds |-> {"gather", "group", "duplicate"}, values |-> {a},
   colors |-> {}, collectives |-> 1, contexts |-> 2]
GroupsLoad ==
  [processes |-> 2, kinds |-> {"group", "duplicate"}, values |-> {a},
   colors |-> {}, collectives |-> 1, contexts |-> 4]
SplitLoad ==
  [processes |-> 3, kinds |-> {"split"}, values |-> {a},
   colors |-> {0, 1, Undefined}, collectives |-> 1, contexts |-> 2]

MCWorkloads == {RoundsLoad, NestedLoad, GroupsLoad, SplitLoad}
=============================================================================
