-------------------------- MODULE TraceMemory_proofs --------------------------
(***************************************************************************)
(* The pool of TraceMemory for any addresses, regions, buffers and traces: *)
(* no address has two owners, a trace in the pool stays there, and a       *)
(* capture that leaves no buffer behind restores the pool as it was.       *)
(***************************************************************************)
EXTENDS TraceMemory, TLAPS

\* The buffers that were there when the capture began do not overlap the traces
\* the pool held then; only buffers born since may.
OnlyBornOverlap ==
  \A t \in protected : \A b \in Buffers \ born : footprint[t] \cap buffers[b] = {}

CapturedIsNotPooled ==
  /\ capturing \notin pooled
  /\ capturing = NoTrace => protected = {}

IInv == TypeOK /\ OneOwner /\ CapturedIsNotPooled /\ OnlyBornOverlap

-----------------------------------------------------------------------------
LEMMA InitInv == Init => IInv
  BY MemoryAssumption DEF Init, IInv, TypeOK, OneOwner, CapturedIsNotPooled,
     OnlyBornOverlap, Allocations, InUse

\* The pool reserves free addresses only.
LEMMA PoolIsFree ==
  ASSUME NEW F \in [Traces -> SUBSET Addrs], NEW P \in SUBSET Traces, NEW B
  PROVE  /\ Pool(F, P, B) \subseteq Addrs
         /\ Pool(F, P, B) \cap InUse(B) = {}
  <1> DEFINE All == UNION {F[t] : t \in P}
  <1>1. All \subseteq Addrs
    OBVIOUS
  <1>2. Pool(F, P, B) = All \ InUse(B)
    BY DEF Pool
  <1> HIDE DEF All
  <1>3. QED BY <1>1, <1>2

\* A footprint no buffer uses is in the pool as a whole.
LEMMA PoolHolds ==
  ASSUME NEW F, NEW P, NEW B, NEW t \in P, F[t] \cap InUse(B) = {}
  PROVE  F[t] \subseteq Pool(F, P, B)
  <1> DEFINE All == UNION {F[u] : u \in P}
  <1>1. F[t] \subseteq All
    OBVIOUS
  <1>2. Pool(F, P, B) = All \ InUse(B)
    BY DEF Pool
  <1> HIDE DEF All
  <1>3. QED BY <1>1, <1>2

\* A buffer that takes a region nothing else uses leaves every address with one
\* owner.
LEMMA PlaceBuffer ==
  ASSUME NEW b \in Buffers, NEW r \in Regions, NEW free,
         buffers \in Allocations, OneOwner,
         free \subseteq reserved,
         Fits(r, buffers, free),
         buffers' = [buffers EXCEPT ![b] = r], reserved' = free
  PROVE  /\ buffers' \in Allocations
         /\ OneOwner'
  <1>1. buffers' \in Allocations
    BY DEF Allocations
  <1>2. \A a \in Buffers : buffers[a] \cap r = {}
    BY DEF Fits, InUse
  <1>3. \A a \in Buffers : buffers'[a] = IF a = b THEN r ELSE buffers[a]
    BY DEF Allocations
  <1>4. \A a, c \in Buffers : a # c => buffers'[a] \cap buffers'[c] = {}
    BY <1>2, <1>3 DEF OneOwner
  <1>5. \A a \in Buffers : free \cap buffers'[a] = {}
    BY <1>3 DEF OneOwner, Fits, InUse
  <1>6. QED BY <1>1, <1>4, <1>5 DEF OneOwner, InUse

LEMMA AllocateInv ==
  ASSUME IInv, NEW b \in Buffers, NEW r \in Regions, Allocate(b, r)
  PROVE  IInv'
  <1>1. buffers' \in Allocations /\ OneOwner'
    BY PlaceBuffer DEF IInv, TypeOK, Allocate
  <1>2. touched' \subseteq Addrs /\ (capturing' = NoTrace => touched' = {})
    BY PoolAssumption DEF IInv, TypeOK, Allocate, Record
  <1>3. born' \subseteq Buffers
    BY DEF IInv, TypeOK, Allocate
  <1>4. TypeOK'
    BY <1>1, <1>2, <1>3 DEF IInv, TypeOK, Allocate
  <1>5. CapturedIsNotPooled'
    BY DEF IInv, CapturedIsNotPooled, Allocate
  <1>6. OnlyBornOverlap'
    <2>1. \A a \in Buffers \ born' : a \in Buffers \ born
      BY DEF Allocate
    <2>2. CASE capturing = NoTrace
      BY <2>2 DEF IInv, CapturedIsNotPooled, OnlyBornOverlap, Allocate
    <2>3. CASE capturing # NoTrace
      <3>1. \A a \in Buffers \ born' : a # b /\ buffers'[a] = buffers[a]
        BY <2>3 DEF Allocate, IInv, TypeOK, Allocations
      <3>2. QED BY <2>1, <3>1 DEF IInv, OnlyBornOverlap, Allocate
    <2>4. QED BY <2>2, <2>3
  <1>7. QED BY <1>1, <1>4, <1>5, <1>6 DEF IInv

LEMMA GiveUpPoolInv ==
  ASSUME IInv, NEW b \in Buffers, NEW r \in Regions, GiveUpPool(b, r)
  PROVE  IInv'
  <1>1. CASE Fits(r, buffers, {})
    <2>1. buffers' = [buffers EXCEPT ![b] = r] /\ reserved' = {}
      BY <1>1 DEF GiveUpPool
    <2>2. buffers' \in Allocations /\ OneOwner'
      BY <1>1, <2>1, PlaceBuffer DEF IInv, TypeOK
    <2>3. touched' \subseteq Addrs /\ (capturing' = NoTrace => touched' = {})
      BY <1>1, PoolAssumption DEF IInv, TypeOK, GiveUpPool, Record
    <2>4. TypeOK'
      BY <1>1, <2>1, <2>2, <2>3 DEF IInv, TypeOK, GiveUpPool
    <2>5. OnlyBornOverlap'
      <3>2. CASE capturing = NoTrace
        BY <3>2 DEF IInv, CapturedIsNotPooled, OnlyBornOverlap, GiveUpPool
      <3>3. CASE capturing # NoTrace
        <4>1. \A a \in Buffers \ born' : a # b /\ a \notin born /\ buffers'[a] = buffers[a]
          BY <1>1, <2>1, <3>3 DEF GiveUpPool, IInv, TypeOK, Allocations
        <4>2. QED BY <4>1 DEF IInv, OnlyBornOverlap, GiveUpPool
      <3>4. QED BY <3>2, <3>3
    <2>6. QED BY <2>2, <2>4, <2>5 DEF IInv, CapturedIsNotPooled, GiveUpPool
  <1>2. CASE ~Fits(r, buffers, {})
    <2>1. UNCHANGED <<buffers, touched, born, footprint, pooled, capturing, protected>> /\ reserved' = {}
      BY <1>2 DEF GiveUpPool
    <2>2. TypeOK'
      BY <2>1 DEF IInv, TypeOK
    <2>3. QED BY <2>1, <2>2 DEF IInv, OneOwner, CapturedIsNotPooled, OnlyBornOverlap, InUse
  <1>3. QED BY <1>1, <1>2

LEMMA DeallocateInv ==
  ASSUME IInv, NEW b \in Buffers, Deallocate(b)
  PROVE  IInv'
  <1>1. buffers' \in Allocations
    BY DEF IInv, TypeOK, Deallocate, Allocations
  <1>2. \A a \in Buffers : buffers'[a] = IF a = b THEN {} ELSE buffers[a]
    BY DEF IInv, TypeOK, Deallocate, Allocations
  <1>3. buffers[b] \subseteq Addrs
    BY PoolAssumption DEF IInv, TypeOK, Allocations
  <1>4. touched' \subseteq Addrs /\ (capturing' = NoTrace => touched' = {})
    BY <1>3 DEF IInv, TypeOK, Deallocate, Record
  <1>5. TypeOK'
    BY <1>1, <1>4 DEF IInv, TypeOK, Deallocate
  <1>6. OneOwner'
    BY <1>2 DEF IInv, OneOwner, InUse, Deallocate
  <1>7. OnlyBornOverlap'
    BY <1>2 DEF IInv, OnlyBornOverlap, Deallocate
  <1>8. QED BY <1>5, <1>6, <1>7 DEF IInv, CapturedIsNotPooled, Deallocate

LEMMA BeginCaptureInv ==
  ASSUME IInv, NEW t \in Traces, BeginCapture(t)
  PROVE  IInv'
  <1>1. TypeOK'
    BY MemoryAssumption DEF IInv, TypeOK, BeginCapture
  <1>2. OneOwner'
    BY DEF IInv, OneOwner, InUse, BeginCapture
  <1>3. OnlyBornOverlap'
    <2>1. ASSUME NEW u \in protected', NEW a \in Buffers
          PROVE  footprint[u] \cap buffers[a] = {}
      BY DEF BeginCapture, Reserved, IInv, OneOwner, InUse
    <2>2. QED BY <2>1 DEF OnlyBornOverlap, BeginCapture
  <1>4. QED BY <1>1, <1>2, <1>3, MemoryAssumption DEF IInv, CapturedIsNotPooled, BeginCapture

LEMMA EndCaptureInv ==
  ASSUME IInv, EndCapture
  PROVE  IInv'
  <1>1. capturing \in Traces
    BY DEF IInv, TypeOK, EndCapture
  <1>2. footprint' \in [Traces -> SUBSET Addrs] /\ pooled' \subseteq Traces
    BY <1>1 DEF IInv, TypeOK, EndCapture
  <1>3. reserved' \subseteq Addrs /\ reserved' \cap InUse(buffers) = {}
    <2>1. reserved' = Pool(footprint', pooled', buffers)
      BY DEF EndCapture
    <2>2. QED BY <1>2, <2>1, PoolIsFree
  <1>4. TypeOK'
    BY <1>2, <1>3 DEF IInv, TypeOK, EndCapture
  <1>5. OneOwner'
    <2>1. buffers' = buffers
      BY DEF EndCapture
    <2>2. QED BY <1>3, <2>1 DEF IInv, OneOwner, InUse
  <1>6. QED BY <1>4, <1>5, <1>2, MemoryAssumption
              DEF IInv, CapturedIsNotPooled, OnlyBornOverlap, EndCapture

LEMMA ReleaseTraceInv ==
  ASSUME IInv, NEW t \in Traces, ReleaseTrace(t)
  PROVE  IInv'
  <1>2. footprint' \in [Traces -> SUBSET Addrs] /\ pooled' \subseteq Traces
    BY DEF IInv, TypeOK, ReleaseTrace
  <1>3. reserved' \subseteq Addrs /\ reserved' \cap InUse(buffers) = {}
    <2>1. reserved' = Pool(footprint', pooled', buffers)
      BY DEF ReleaseTrace
    <2>2. QED BY <1>2, <2>1, PoolIsFree
  <1>4. TypeOK'
    BY <1>2, <1>3 DEF IInv, TypeOK, ReleaseTrace
  <1>5. OneOwner'
    <2>1. buffers' = buffers
      BY DEF ReleaseTrace
    <2>2. QED BY <1>3, <2>1 DEF IInv, OneOwner, InUse
  <1>6. \A u \in protected' : u \in protected /\ u # t /\ capturing' = capturing
    BY DEF ReleaseTrace, IInv, CapturedIsNotPooled
  <1>7. OnlyBornOverlap'
    <2>1. CASE t = capturing
      BY <2>1 DEF ReleaseTrace, OnlyBornOverlap
    <2>2. CASE t # capturing
      BY <2>2, <1>6 DEF IInv, TypeOK, ReleaseTrace, OnlyBornOverlap
    <2>3. QED BY <2>1, <2>2
  <1>8. CapturedIsNotPooled'
    BY MemoryAssumption DEF IInv, TypeOK, CapturedIsNotPooled, ReleaseTrace
  <1>9. QED BY <1>4, <1>5, <1>7, <1>8 DEF IInv

LEMMA DeallocateBuffersInv ==
  ASSUME IInv, DeallocateBuffers
  PROVE  IInv'
  <1>1. InUse(buffers) \subseteq Addrs
    BY PoolAssumption DEF IInv, TypeOK, Allocations, InUse
  <1>2. touched' \subseteq Addrs /\ (capturing' = NoTrace => touched' = {})
    BY <1>1 DEF IInv, TypeOK, DeallocateBuffers, Record
  <1>3. TypeOK'
    BY <1>2 DEF IInv, TypeOK, DeallocateBuffers, Allocations
  <1>4. OneOwner'
    BY DEF DeallocateBuffers, OneOwner
  <1>5. CapturedIsNotPooled'
    BY DEF IInv, CapturedIsNotPooled, DeallocateBuffers
  <1>6. OnlyBornOverlap'
    BY DEF DeallocateBuffers, OnlyBornOverlap
  <1>7. QED BY <1>3, <1>4, <1>5, <1>6 DEF IInv

LEMMA NextInv == IInv /\ [Next]_vars => IInv'
  <1>1. SUFFICES ASSUME IInv, [Next]_vars PROVE IInv'
    OBVIOUS
  <1>2. CASE UNCHANGED vars
    BY <1>1, <1>2 DEF vars, IInv, TypeOK, OneOwner, InUse, CapturedIsNotPooled, OnlyBornOverlap
  <1>3. CASE Next
    BY <1>1, <1>3, AllocateInv, GiveUpPoolInv, DeallocateInv, BeginCaptureInv, EndCaptureInv,
       ReleaseTraceInv, DeallocateBuffersInv DEF Next
  <1>4. QED BY <1>1, <1>2, <1>3

\* The inductive invariant of the allocator and its pool.
THEOREM Invariant == Spec => []IInv
  BY InitInv, NextInv, PTL DEF Spec

\* Type correctness, for any addresses, regions, buffers and traces.
THEOREM TypeCorrect == Spec => []TypeOK
  <1>1. IInv => TypeOK
    BY DEF IInv
  <1>2. QED BY <1>1, Invariant, PTL

\* Live buffers overlap neither one another nor the reserved pool.
THEOREM OwnersAreDisjoint == Spec => []OneOwner
  <1>1. IInv => OneOwner
    BY DEF IInv
  <1>2. QED BY <1>1, Invariant, PTL

-----------------------------------------------------------------------------
(* Refreshing the pool keeps every trace in it that was in it.              *)

LEMMA RefreshKeeps ==
  ASSUME IInv, NEW t \in Traces, Reserved(t), t \in pooled',
         footprint'[t] = footprint[t],
         reserved' = Pool(footprint', pooled', buffers)
  PROVE  Reserved(t)'
  <1>1. footprint'[t] \cap InUse(buffers) = {}
    BY DEF Reserved, IInv, OneOwner
  <1>2. footprint'[t] \subseteq reserved'
    BY <1>1, PoolHolds
  <1>3. QED BY <1>2 DEF Reserved

PoolStep ==
  \A t \in Traces :
    Reserved(t) /\ t \in pooled' /\ capturing' = NoTrace =>
      \/ Reserved(t)'
      \/ \E b \in Buffers, r \in Regions : GiveUpPool(b, r)

LEMMA PoolStepHolds == IInv /\ [Next]_vars => PoolStep
  <1>1. SUFFICES ASSUME IInv, [Next]_vars, NEW t \in Traces,
                        Reserved(t), t \in pooled', capturing' = NoTrace
                 PROVE  \/ Reserved(t)'
                        \/ \E b \in Buffers, r \in Regions : GiveUpPool(b, r)
    BY DEF PoolStep
  <1>2. CASE UNCHANGED vars
    BY <1>1, <1>2 DEF vars, Reserved
  <1>3. ASSUME NEW b \in Buffers, NEW r \in Regions, Allocate(b, r)
        PROVE  Reserved(t)'
    BY <1>1, <1>3 DEF Allocate, Reserved
  <1>4. ASSUME NEW b \in Buffers, Deallocate(b)
        PROVE  Reserved(t)'
    BY <1>1, <1>4 DEF Deallocate, Reserved
  <1>5. ASSUME NEW u \in Traces, BeginCapture(u)
        PROVE  FALSE
    BY <1>1, <1>5, MemoryAssumption DEF BeginCapture
  <1>6. ASSUME NEW u \in Traces, ReleaseTrace(u)
        PROVE  Reserved(t)'
    <2>1. t # u
      BY <1>1, <1>6 DEF ReleaseTrace
    <2>2. footprint'[t] = footprint[t]
      BY <1>1, <1>6, <2>1 DEF ReleaseTrace, IInv, TypeOK
    <2>3. QED BY <1>1, <1>6, <2>2, RefreshKeeps DEF ReleaseTrace
  <1>7. CASE EndCapture
    <2>1. t # capturing
      BY <1>1 DEF IInv, CapturedIsNotPooled, Reserved
    <2>2. footprint'[t] = footprint[t]
      BY <1>1, <1>7, <2>1 DEF EndCapture, IInv, TypeOK
    <2>3. QED BY <1>1, <1>7, <2>2, RefreshKeeps DEF EndCapture
  <1>8. CASE DeallocateBuffers
    BY <1>1, <1>8 DEF DeallocateBuffers
  <1>9. QED BY <1>1, <1>2, <1>3, <1>4, <1>5, <1>6, <1>7, <1>8 DEF Next

\* A trace in the pool keeps its addresses there until memory runs out.
THEOREM PoolProtectsTraces == Spec => PoolProtects
  <1>1. IInv /\ [Next]_vars => [PoolStep]_vars
    BY PoolStepHolds
  <1>2. QED BY <1>1, Invariant, PTL DEF Spec, PoolProtects, PoolStep

RestoreStep ==
  capturing # NoTrace /\ capturing' = NoTrace =>
    \A t \in protected \ {capturing} :
      t \in pooled' /\ footprint[t] \cap UNION {buffers[b] : b \in born} = {} => Reserved(t)'

LEMMA RestoreStepHolds == IInv /\ [Next]_vars => RestoreStep
  <1>1. SUFFICES ASSUME IInv, [Next]_vars, capturing # NoTrace, capturing' = NoTrace,
                        NEW t \in protected \ {capturing}, t \in pooled',
                        footprint[t] \cap UNION {buffers[b] : b \in born} = {}
                 PROVE  Reserved(t)'
    BY DEF RestoreStep
  <1>2. t \in Traces
    BY <1>1 DEF IInv, TypeOK
  <1>3. footprint[t] \cap InUse(buffers) = {}
    <2>1. \A b \in Buffers : footprint[t] \cap buffers[b] = {}
      BY <1>1 DEF IInv, OnlyBornOverlap
    <2>2. QED BY <2>1 DEF InUse
  <1>4. CASE EndCapture
    <2>1. footprint'[t] = footprint[t]
      BY <1>1, <1>2, <1>4 DEF EndCapture, IInv, TypeOK
    <2>2. reserved' = Pool(footprint', pooled', buffers)
      BY <1>4 DEF EndCapture
    <2>3. footprint'[t] \subseteq reserved'
      BY <1>1, <1>3, <2>1, <2>2, PoolHolds
    <2>4. QED BY <1>1, <2>3 DEF Reserved
  <1>5. ASSUME NEW u \in Traces, ReleaseTrace(u)
        PROVE  Reserved(t)'
    <2>1. t # u
      BY <1>1, <1>5 DEF ReleaseTrace
    <2>2. footprint'[t] = footprint[t] /\ reserved' = Pool(footprint', pooled', buffers)
      BY <1>2, <1>5, <2>1 DEF ReleaseTrace, IInv, TypeOK
    <2>3. footprint'[t] \subseteq reserved'
      BY <1>1, <1>3, <2>2, PoolHolds
    <2>4. QED BY <1>1, <2>3 DEF Reserved
  <1>6. ASSUME NEW b \in Buffers, NEW r \in Regions, Allocate(b, r) \/ GiveUpPool(b, r)
        PROVE  FALSE
    BY <1>1, <1>6 DEF Allocate, GiveUpPool
  <1>7. ASSUME NEW b \in Buffers, Deallocate(b)
        PROVE  FALSE
    BY <1>1, <1>7 DEF Deallocate
  <1>8. ASSUME NEW u \in Traces, BeginCapture(u)
        PROVE  FALSE
    BY <1>1, <1>8 DEF BeginCapture
  <1>9. ~DeallocateBuffers /\ ~UNCHANGED vars
    BY <1>1 DEF DeallocateBuffers, vars
  <1>10. QED BY <1>1, <1>4, <1>5, <1>6, <1>7, <1>8, <1>9 DEF Next

\* A capture that leaves no buffer in another trace's addresses gives that trace
\* its place in the pool back.
THEOREM CapturesRestoreThePool == Spec => CaptureRestoresPool
  <1>1. IInv /\ [Next]_vars => [RestoreStep]_vars
    BY RestoreStepHolds
  <1>2. QED BY <1>1, Invariant, PTL DEF Spec, CaptureRestoresPool, RestoreStep
=============================================================================
