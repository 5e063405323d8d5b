---------------------------- MODULE MCHostCopies ----------------------------
(* A tensor of one shard and one of several, and two copies at once, so that  *)
(* a read, its host copies and the next mesh overlap.                         *)
EXTENDS HostCopies

CONSTANTS t1, t2, x1, x2

MCThreads == {t1, t2}
OneOrTwo == {{t1}, {t1, t2}}
Two == {{t1, t2}}
MCTensors == {x1, x2}
MCSharded == {x2}
=============================================================================
