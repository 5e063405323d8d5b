---------------------------- MODULE MCTraceCache ----------------------------
(* Two ops, of which f's input is stageable; six traces and more cannot live  *)
(* at once.  Addresses are interchangeable.  Either one entry and a framework *)
(* with two buffers, which it copies and reads, or two entries and one buffer *)
(* that is only passed to programs.                                           *)
EXTENDS TraceCache, TLC

Evicting == [maxEntries |-> 1, maxCallers |-> 2, maxTransients |-> 1,
             copies |-> TRUE, reads |-> TRUE]
Replaying == [maxEntries |-> 2, maxCallers |-> 1, maxTransients |-> 2,
              copies |-> FALSE, reads |-> FALSE]

MCWorkloads == {Evicting, Replaying}
MCCopying == {Evicting}

Symmetry == Permutations(Addrs)
=============================================================================
