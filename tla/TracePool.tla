------------------------------ MODULE TracePool ------------------------------
(***************************************************************************)
(* What tt-metal's DRAM allocator knows of buffers and captured traces:    *)
(* the regions buffers take, the footprint of a trace (the regions its     *)
(* transient buffers took while it was captured), and the pool it keeps    *)
(* those regions in so that later buffers do not land there.               *)
(***************************************************************************)
EXTENDS Integers, FiniteSets

CONSTANTS
  Addrs,      \* device addresses
  Regions,    \* the address ranges a buffer can take
  Buffers,    \* buffer objects
  Traces      \* trace ids

ASSUME PoolAssumption ==
  /\ Regions \subseteq SUBSET Addrs
  /\ {} \notin Regions

\* A buffer that is not allocated takes no address.
Allocations == [Buffers -> Regions \cup {{}}]

InUse(buffers) == UNION {buffers[b] : b \in Buffers}

\* is_mesh_trace_replay_safe: no live buffer overlaps the trace's footprint.
IsReplaySafe(footprint, t, buffers) == footprint[t] \cap InUse(buffers) = {}

\* refresh_trace_dram_reservations: the free parts of the footprints of all
\* traces the pool knows.
Pool(footprint, pooled, buffers) ==
  (UNION {footprint[t] : t \in pooled}) \ InUse(buffers)

\* A region the allocator can give out while `reserved` is kept from it.
Fits(r, buffers, reserved) == r \cap InUse(buffers) = {} /\ r \cap reserved = {}
=============================================================================
