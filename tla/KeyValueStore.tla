---------------------------- MODULE KeyValueStore ----------------------------
(***************************************************************************)
(* What KeyValueStore (cpp/key_value_context.h) is to those who use it: a  *)
(* map that a put changes at one instant of its call, and a get that       *)
(* returns what the map holds under its key at one instant of its call,    *)
(* waiting for the key if it has to.  A call may also fail, a put before   *)
(* or after its instant.                                                   *)
(***************************************************************************)
EXTENDS FiniteSets

CONSTANTS Clients, Keys, Values, NoValue

VARIABLES
  map,   \* map[k]: the value under key k, or NoValue
  doing  \* doing[c]: the call of client c and whether its instant has come

Resting == [op |-> "none", key |-> NoValue, value |-> NoValue, done |-> FALSE]

Init ==
  /\ map = [k \in Keys |-> NoValue]
  /\ doing = [c \in Clients |-> Resting]

Invoke(c, op, k, v) ==
  /\ doing[c] = Resting
  /\ doing' = [doing EXCEPT ![c] = [op |-> op, key |-> k, value |-> v, done |-> FALSE]]
  /\ map' = map

PutInstant(c) ==
  /\ doing[c].op = "put" /\ ~doing[c].done
  /\ map' = [map EXCEPT ![doing[c].key] = doing[c].value]
  /\ doing' = [doing EXCEPT ![c].done = TRUE]

GetInstant(c) ==
  /\ doing[c].op = "get" /\ ~doing[c].done
  /\ map[doing[c].key] # NoValue
  /\ doing' = [doing EXCEPT ![c].done = TRUE, ![c].value = map[doing[c].key]]
  /\ map' = map

\* Return or failure; a get returns only after its instant, see Returns.
Leave(c) ==
  /\ doing[c] # Resting
  /\ doing' = [doing EXCEPT ![c] = Resting]
  /\ map' = map

Next ==
  \E c \in Clients :
    \/ \E k \in Keys, v \in Values : Invoke(c, "put", k, v)
    \/ \E k \in Keys : Invoke(c, "get", k, NoValue)
    \/ PutInstant(c) \/ GetInstant(c) \/ Leave(c)

Spec == Init /\ [][Next]_<<map, doing>>
=============================================================================
