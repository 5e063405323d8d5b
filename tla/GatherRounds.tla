---------------------------- MODULE GatherRounds ----------------------------
(***************************************************************************)
(* What all_gather promises to the members of a context, said without keys *)
(* or counters: in every round each member gives one value, and a member   *)
(* takes the values of all of them, in rank order, once all have given.    *)
(* A barrier is a round whose values nobody looks at.                      *)
(***************************************************************************)
EXTENDS Integers, FiniteSets, Sequences

VARIABLES
  given,  \* records of who gave what: [group, round, process, value]
  taken   \* records of who took what: [group, round, process, values]

Same(d, e) == d.group = e.group /\ d.round = e.round /\ d.process = e.process

Init == given = {} /\ taken = {}

Give(e) ==
  /\ e \notin given
  /\ \A d \in given : ~Same(d, e)
  /\ given' = given \cup {e}
  /\ taken' = taken

Take(e) ==
  /\ e \notin taken
  /\ \A d \in taken : ~Same(d, e)
  /\ DOMAIN e.values = DOMAIN e.group.members
  /\ \A i \in DOMAIN e.values :
       [group |-> e.group, round |-> e.round, process |-> e.group.members[i],
        value |-> e.values[i]] \in given
  /\ taken' = taken \cup {e}
  /\ given' = given

Next == (\E e \in given' : Give(e)) \/ (\E e \in taken' : Take(e))

Spec == Init /\ [][Next]_<<given, taken>>
=============================================================================
