----------------------------- MODULE TraceMemory -----------------------------
(***************************************************************************)
(* Buffers, captures and the reserved pool of tt-metal's DRAM allocator    *)
(* (trace_allocation_state.patch, trace_reserved_dram.patch): what each    *)
(* allocator call does under the allocator's mutex, in any order the       *)
(* callers may make them.                                                  *)
(***************************************************************************)
EXTENDS TracePool

CONSTANT NoTrace

ASSUME MemoryAssumption == NoTrace \notin Traces

VARIABLES
  buffers,      \* the region each live buffer takes
  footprint,    \* allocation_footprints of each trace
  pooled,       \* the traces in trace_dram_footprints_
  reserved,     \* trace_dram_reservations_
  capturing,    \* the trace being captured
  touched,      \* regions allocated or freed since its capture began
  protected,    \* history: the traces whose footprint was reserved when it began
  born          \* history: the buffers allocated since it began

vars == <<buffers, footprint, pooled, reserved, capturing, touched, protected, born>>

Init ==
  /\ buffers = [b \in Buffers |-> {}]
  /\ footprint = [t \in Traces |-> {}]
  /\ pooled = {}
  /\ reserved = {}
  /\ capturing = NoTrace
  /\ touched = {}
  /\ protected = {}
  /\ born = {}

\* record_allocation_region
Record(r) == touched' = IF capturing = NoTrace THEN touched ELSE touched \cup r

Reserved(t) == t \in pooled /\ footprint[t] \subseteq reserved

-----------------------------------------------------------------------------
\* allocate_buffer finds a free region.
Allocate(b, r) ==
  /\ buffers[b] = {}
  /\ Fits(r, buffers, reserved)
  /\ buffers' = [buffers EXCEPT ![b] = r]
  /\ Record(r)
  /\ born' = IF capturing = NoTrace THEN born ELSE born \cup {b}
  /\ UNCHANGED <<footprint, pooled, reserved, capturing, protected>>

\* Nothing of the size fits beside the pool: the out-of-memory handler gives the
\* pool up.  The buffer may fit now, or the allocation fails all the same.
GiveUpPool(b, r) ==
  /\ buffers[b] = {} /\ reserved # {}
  /\ \A q \in Regions : Cardinality(q) = Cardinality(r) => ~Fits(q, buffers, reserved)
  /\ reserved' = {}
  /\ IF Fits(r, buffers, {})
     THEN /\ buffers' = [buffers EXCEPT ![b] = r]
          /\ Record(r)
          /\ born' = IF capturing = NoTrace THEN born ELSE born \cup {b}
     ELSE UNCHANGED <<buffers, touched, born>>
  /\ UNCHANGED <<footprint, pooled, capturing, protected>>

Deallocate(b) ==
  /\ buffers[b] # {}
  /\ buffers' = [buffers EXCEPT ![b] = {}]
  /\ Record(buffers[b])
  /\ born' = born \ {b}
  /\ UNCHANGED <<footprint, pooled, reserved, capturing, protected>>

-----------------------------------------------------------------------------
\* begin_mesh_trace suspends the pool, so that this trace's transients reuse it,
\* and starts to track allocations.
BeginCapture(t) ==
  /\ capturing = NoTrace
  /\ t \notin pooled /\ footprint[t] = {}
  /\ capturing' = t
  /\ reserved' = {}
  /\ touched' = {}
  /\ protected' = {u \in Traces : Reserved(u)}
  /\ born' = {}
  /\ UNCHANGED <<buffers, footprint, pooled>>

\* Mutant: the trace's own footprint is reserved, not the others' again.
EndCaptureOwnPool ==
  /\ capturing # NoTrace
  /\ footprint' = [footprint EXCEPT ![capturing] = touched]
  /\ pooled' = IF touched = {} THEN pooled ELSE pooled \cup {capturing}
  /\ reserved' = touched \ InUse(buffers)
  /\ capturing' = NoTrace
  /\ touched' = {}
  /\ protected' = {}
  /\ born' = {}
  /\ UNCHANGED buffers

\* Mutant: the whole footprint is reserved, free or not.
EndCaptureWhole ==
  /\ capturing # NoTrace
  /\ footprint' = [footprint EXCEPT ![capturing] = touched]
  /\ pooled' = IF touched = {} THEN pooled ELSE pooled \cup {capturing}
  /\ reserved' = UNION {footprint'[t] : t \in pooled'}
  /\ capturing' = NoTrace
  /\ touched' = {}
  /\ protected' = {}
  /\ born' = {}
  /\ UNCHANGED buffers

\* end_mesh_trace stores the footprint and restores the pool, with this trace in
\* it unless it touched nothing.
EndCapture ==
  /\ capturing # NoTrace
  /\ footprint' = [footprint EXCEPT ![capturing] = touched]
  /\ pooled' = IF touched = {} THEN pooled ELSE pooled \cup {capturing}
  /\ reserved' = Pool(footprint', pooled', buffers)
  /\ capturing' = NoTrace
  /\ touched' = {}
  /\ protected' = {}
  /\ born' = {}
  /\ UNCHANGED buffers

\* Mutant: the trace takes its addresses out of the pool, also those it shares.
ReleaseTraceSharing(t) ==
  /\ t \in pooled \/ footprint[t] # {} \/ t = capturing
  /\ footprint' = [footprint EXCEPT ![t] = {}]
  /\ pooled' = pooled \ {t}
  /\ reserved' = reserved \ footprint[t]
  /\ capturing' = IF t = capturing THEN NoTrace ELSE capturing
  /\ touched' = IF t = capturing THEN {} ELSE touched
  /\ protected' = IF t = capturing THEN {} ELSE protected \ {t}
  /\ born' = IF t = capturing THEN {} ELSE born
  /\ UNCHANGED buffers

\* release_mesh_trace drops a trace, also one whose capture never ended, and
\* restores the pool.  (What such a capture tracked is dropped when the next begins.)
ReleaseTrace(t) ==
  /\ t \in pooled \/ footprint[t] # {} \/ t = capturing
  /\ footprint' = [footprint EXCEPT ![t] = {}]
  /\ pooled' = pooled \ {t}
  /\ reserved' = Pool(footprint', pooled', buffers)
  /\ capturing' = IF t = capturing THEN NoTrace ELSE capturing
  /\ touched' = IF t = capturing THEN {} ELSE touched
  /\ protected' = IF t = capturing THEN {} ELSE protected \ {t}
  /\ born' = IF t = capturing THEN {} ELSE born
  /\ UNCHANGED buffers

\* deallocate_buffers: the pool forgets every trace, every buffer goes.
DeallocateBuffers ==
  /\ reserved' = {}
  /\ pooled' = {}
  /\ buffers' = [b \in Buffers |-> {}]
  /\ Record(InUse(buffers))
  /\ protected' = {}
  /\ born' = {}
  /\ UNCHANGED <<footprint, capturing>>

Next ==
  \/ \E b \in Buffers, r \in Regions : Allocate(b, r) \/ GiveUpPool(b, r)
  \/ \E b \in Buffers : Deallocate(b)
  \/ \E t \in Traces : BeginCapture(t) \/ ReleaseTrace(t)
  \/ EndCapture
  \/ DeallocateBuffers

Spec == Init /\ [][Next]_vars

-----------------------------------------------------------------------------
\* The values the variables take; when no trace is being captured the list of touched
\* regions is empty, having been moved into the trace (end tracking).
TypeOK ==
  /\ buffers \in Allocations
  /\ footprint \in [Traces -> SUBSET Addrs]
  /\ pooled \subseteq Traces
  /\ reserved \subseteq Addrs
  /\ capturing \in Traces \cup {NoTrace}
  /\ touched \subseteq Addrs
  /\ capturing = NoTrace => touched = {}
  /\ protected \subseteq Traces
  /\ born \subseteq Buffers

\* No address has two owners: live buffers do not overlap one another, nor the
\* pool, which reserves only what is free (reserve_free_regions).
OneOwner ==
  /\ \A a, b \in Buffers : a # b => buffers[a] \cap buffers[b] = {}
  /\ reserved \cap InUse(buffers) = {}

\* A trace whose footprint is all in the pool stays replay safe, whatever is
\* allocated and freed, released and captured: only running out of memory, the
\* capture of another trace while it lasts, and a reset of the allocator take its
\* addresses out of the pool.
PoolProtects ==
  [][\A t \in Traces :
       Reserved(t) /\ t \in pooled' /\ capturing' = NoTrace =>
         \/ Reserved(t)'
         \/ \E b \in Buffers, r \in Regions : GiveUpPool(b, r)]_vars

\* "Captures ... free their transients before the next one starts": a capture that
\* leaves no buffer behind costs no other trace its place in the pool.
CaptureRestoresPool ==
  [][capturing # NoTrace /\ capturing' = NoTrace =>
       \A t \in protected \ {capturing} :
         t \in pooled' /\ footprint[t] \cap UNION {buffers[b] : b \in born} = {} => Reserved(t)']_vars
=============================================================================
