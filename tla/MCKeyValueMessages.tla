------------------------ MODULE MCKeyValueMessages ------------------------
(* Two ranks; rank 0 has two threads, rank 1 one thread and one irecv.  Two   *)
(* messages on one channel, or one on each of two that differ in their tag.   *)
EXTENDS KeyValueMessages, TLC

CONSTANTS t0, t1, u, a, short, long

MCChannels == {<<0, 1, 9>>, <<0, 1, 17>>}
MCWorkloads == {(<<0, 1, 9>> :> 2) @@ (<<0, 1, 17>> :> 0),
                (<<0, 1, 9>> :> 1) @@ (<<0, 1, 17>> :> 1)}
MCSizeOf == (short :> 1) @@ (long :> 2)
MCRankOf == (t0 :> 0) @@ (t1 :> 0) @@ (u :> 1) @@ (a :> 1)
=============================================================================
