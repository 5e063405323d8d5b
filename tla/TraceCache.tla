----------------------------- MODULE TraceCache -----------------------------
(***************************************************************************)
(* The trace cache of a mesh device and capture_or_execute_trace's run():  *)
(* programs replay the traces they captured before, into persistent slots, *)
(* while the framework creates, copies, reads and deletes its own buffers. *)
(* Every buffer is one address wide, so a buffer is its address.           *)
(***************************************************************************)
EXTENDS Integers, FiniteSets, SequencesExt

CONSTANTS
  Addrs,          \* device addresses
  NoAddr,
  Traces,         \* trace ids, enough for every variant and one capture
  Ops,            \* the CaptureOrExecuteTraceOps of the programs
  Stageable,      \* those whose device-resident input is a stageable one
  MaxVariants,    \* kMaxTraceVariants
  Workloads       \* what a run may do, see workload

Memory == INSTANCE TracePool WITH Regions <- {{a} : a \in Addrs}, Buffers <- Addrs

ASSUME CacheAssumption ==
  /\ NoAddr \notin Addrs
  /\ Ops # {} /\ Stageable \subseteq Ops
  /\ MaxVariants \in Nat \ {0}
  /\ Workloads \subseteq [maxEntries : Nat \ {0}, maxCallers : Nat, maxTransients : Nat,
                          copies : BOOLEAN, reads : BOOLEAN]

VARIABLES
  workload,   \* kMaxEntries; bounds on the buffers the framework holds and on the
              \* addresses a capture's transients take; whether the framework copies
              \* buffers on the device (copyFromBuffer), and reads them (copyToHost)
  live,       \* addresses of allocated buffers
  footprint, pooled, reserved,   \* the allocator's, as in TraceMemory
  cached,     \* the ops with an entry in the cache
  lru,        \* leastToMostRecentlyUsed
  variants,   \* per op, least to most recently used: [trace, input, slot]
  staged,     \* per op: stagedSlots of its stageable input
  retained,   \* slots the trace cache retains
  callers,    \* buffers the framework holds
  untilized,  \* what the read under way untilizes into
  pc, op,     \* what the running program is at
  argument,   \* the program's device-resident argument
  input,      \* what the capture under way reads ...
  slot,       \* ... and its slots; or the ones of the variant to replay
  pick,       \* the variant to replay
  values,     \* <<op, slot>>: outputs published in this program
  late,       \* history: what was allocated since the check of the variant to replay
  settled     \* history: <<op, argument>> that ran since the last allocation

vars == <<workload, live, footprint, pooled, reserved, cached, lru, variants, staged, retained,
          callers, untilized, pc, op, argument, input, slot, pick, values, late, settled>>

Indices(o) == 1 .. Len(variants[o])
VariantsOf(os) == UNION {{variants[o][i] : i \in Indices(o)} : o \in os}
Allocated == [a \in Addrs |-> IF a \in live THEN {a} ELSE {}]

\* The buffers that the cache and the running program refer to.
Needed ==
  {v.slot : v \in VariantsOf(Ops)} \cup {v.input : v \in VariantsOf(Ops)}
  \cup {staged[o] : o \in Ops} \cup {w[2] : w \in values} \cup {argument, input, slot}

\* A runtime tensor lives as long as something refers to it.
Held == callers \cup {untilized} \cup Needed

Init ==
  /\ workload \in Workloads
  /\ live = {} /\ retained = {} /\ callers = {} /\ untilized = NoAddr
  /\ footprint = [t \in Traces |-> {}] /\ pooled = {} /\ reserved = {}
  /\ cached = {} /\ lru = <<>>
  /\ variants = [o \in Ops |-> <<>>]
  /\ staged = [o \in Ops |-> NoAddr]
  /\ pc = "idle" /\ op = CHOOSE o \in Ops : TRUE
  /\ argument = NoAddr /\ input = NoAddr /\ slot = NoAddr /\ pick = 0
  /\ values = {} /\ late = {} /\ settled = {}

-----------------------------------------------------------------------------
(* Helpers.                                                                 *)

\* The wrappers nothing refers to are destroyed, with the buffers they own.
Reclaim(allocated, retains) ==
  /\ live' = allocated \cap Held'
  /\ retained' = retains \cap Held'

\* An allocation beside the pool, or, when nothing else is free, one that makes
\* the allocator give the pool up.
Takes(a) ==
  /\ a \notin live
  /\ a \notin reserved \/ live \cup reserved = Addrs
  /\ reserved' = IF a \in reserved THEN {} ELSE reserved
  /\ settled' = {}

Refresh == reserved' = Memory!Pool(footprint', pooled', Allocated)

ReleaseTraces(ts) ==
  /\ footprint' = [t \in Traces |-> IF t \in ts THEN {} ELSE footprint[t]]
  /\ pooled' = pooled \ ts
  /\ Refresh

\* A program that throws leaves its tensor pool, and its output slots, behind.
Abort ==
  /\ pc' = "idle"
  /\ argument' = NoAddr /\ input' = NoAddr /\ slot' = NoAddr /\ values' = {}

-----------------------------------------------------------------------------
(* The framework's buffers.                                                 *)

\* copyFromHost, which moves a buffer to the device under deviceWorkMutex, which
\* a program holds while it runs.
Create(a) ==
  /\ pc = "idle" /\ Cardinality(callers) < workload.maxCallers
  /\ Takes(a)
  /\ live' = live \cup {a}
  /\ callers' = callers \cup {a}
  /\ UNCHANGED <<footprint, pooled, cached, lru, variants, staged, retained, pc, op,
                 argument, input, slot, pick, values>>

\* Work beside the program's, under the capture mutex alone: between the check of a
\* variant and its replay too.
AllocatesBeside(a) ==
  /\ callers # {} /\ untilized = NoAddr
  /\ Takes(a)
  /\ live' = live \cup {a}
  /\ late' = IF pc = "replay" THEN late \cup {a} ELSE {}
  /\ UNCHANGED <<footprint, pooled, cached, lru, variants, staged, retained, pc, op,
                 argument, input, slot, pick, values>>

\* copyFromBuffer clones on the device.
Copy(a) ==
  /\ workload.copies /\ Cardinality(callers) < workload.maxCallers
  /\ AllocatesBeside(a)
  /\ callers' = callers \cup {a}
  /\ UNCHANGED untilized

\* copyToHost untilizes on the device ...
Untilize(a) ==
  /\ workload.reads
  /\ AllocatesBeside(a)
  /\ untilized' = a
  /\ UNCHANGED callers

\* ... and has the result read, before it lets go of it and of the mutex.
EnqueueRead ==
  /\ untilized # NoAddr
  /\ untilized' = NoAddr
  /\ live' = live \ {untilized}
  /\ UNCHANGED <<footprint, pooled, reserved, cached, lru, variants, staged, retained, callers,
                 pc, op, argument, input, slot, pick, values, late, settled>>

\* deleteData; the cache, or the running program, may still refer to the buffer.
Delete(a) ==
  /\ a \in callers
  /\ callers' = callers \ {a}
  /\ UNCHANGED <<footprint, pooled, reserved, cached, lru, variants, staged, pc, op,
                 argument, input, slot, pick, values, settled>>
  /\ Reclaim(live, retained)

-----------------------------------------------------------------------------
(* The program around the traces.                                           *)

StartProgram(a) ==
  /\ pc = "idle" /\ a \in callers
  /\ pc' = "program"
  /\ argument' = a
  /\ UNCHANGED <<live, footprint, pooled, reserved, cached, lru, variants, staged, retained,
                 callers, op, input, slot, pick, values, settled>>

\* The entry moves to the back.
Touch(o) ==
  lru' = Append(IF \E i \in DOMAIN lru : lru[i] = o
                THEN RemoveAt(lru, CHOOSE i \in DOMAIN lru : lru[i] = o) ELSE lru, o)

\* run() looks the op up; get() touches the entry.
Run(o) ==
  /\ pc = "program" /\ o \notin {w[1] : w \in values}
  /\ op' = o
  /\ IF o \in cached THEN pc' = "hit" /\ Touch(o)
                     ELSE pc' = "miss" /\ UNCHANGED lru
  /\ UNCHANGED <<live, footprint, pooled, reserved, cached, variants, staged, retained,
                 callers, argument, input, slot, pick, values, settled>>

\* Mutant: the outputs go whether or not they are retained.
FinishProgramForced ==
  /\ pc = "program"
  /\ Abort
  /\ UNCHANGED <<footprint, pooled, reserved, cached, lru, variants, staged, callers, op,
                 pick, settled>>
  /\ Reclaim(live \ {w[2] : w \in values}, retained)

\* The program's DeallocateOps free the outputs, unless they are retained.
FinishProgram ==
  /\ pc = "program"
  /\ Abort
  /\ UNCHANGED <<footprint, pooled, reserved, cached, lru, variants, staged, callers, op,
                 pick, settled>>
  /\ Reclaim(live \ {w[2] : w \in {w \in values : w[2] \notin retained}}, retained)

-----------------------------------------------------------------------------
(* A miss: prepareForInsert, then slots, then the capture.                  *)

\* evictLeastRecentlyUsed: the entry's traces go, its slots are not retained any
\* more, and the tensors go with the entry.
EvictEntry ==
  /\ pc = "miss" /\ Len(lru) >= workload.maxEntries
  /\ LET e == Head(lru) IN
       /\ lru' = Tail(lru)
       /\ cached' = cached \ {e}
       /\ variants' = [variants EXCEPT ![e] = <<>>]
       /\ staged' = [staged EXCEPT ![e] = NoAddr]
       /\ ReleaseTraces({v.trace : v \in VariantsOf({e})})
       /\ UNCHANGED <<callers, pc, op, argument, input, slot, pick, values, settled>>
       /\ Reclaim(live, retained \ ({v.slot : v \in VariantsOf({e})} \cup {staged[e]}))

\* allocateTraceSlots: the slots of a device-resident input are the caller's
\* buffer, or the slot it is staged in (useStagedSlots).
AllocateSlots(a) ==
  /\ (pc = "miss" /\ Len(lru) < workload.maxEntries) \/ pc = "slots"
  /\ Takes(a)
  /\ live' = live \cup {a}
  /\ retained' = retained \cup {a}
  /\ slot' = a
  /\ input' = IF staged[op] # NoAddr THEN staged[op] ELSE argument
  /\ pc' = "capture"
  /\ UNCHANGED <<footprint, pooled, cached, lru, variants, staged, callers, op, argument,
                 pick, values>>

\* Nothing is free, not in the pool either: the program throws.
OutOfMemory ==
  /\ \/ pc = "miss" /\ Len(lru) < workload.maxEntries
     \/ pc = "slots"
     \/ pc = "stage" /\ variants[op] = <<>>
  /\ live = Addrs
  /\ reserved' = {}
  /\ Abort
  /\ UNCHANGED <<footprint, pooled, cached, lru, variants, staged, callers, op, pick, settled>>
  /\ Reclaim(live, retained)

\* The ids no trace has; Traces bounds them.
FreeTraces == Traces \ {v.trace : v \in VariantsOf(Ops)}

\* Mutant: the allocation of the slots counts as the capture's.
CaptureWithSlots(touched) ==
  /\ pc = "capture" /\ untilized = NoAddr
  /\ touched \cap live = {} /\ FreeTraces # {}
  /\ LET t == CHOOSE t \in FreeTraces : TRUE IN
       /\ footprint' = [footprint EXCEPT ![t] = touched \cup {slot}]
       /\ pooled' = pooled \cup {t}
       /\ variants' = [variants EXCEPT
                         ![op] = Append(@, [trace |-> t, input |-> input, slot |-> slot])]
  /\ Refresh
  /\ cached' = cached \cup {op}
  /\ IF op \in cached THEN UNCHANGED lru ELSE Touch(op)
  /\ values' = values \cup {<<op, slot>>}
  /\ input' = NoAddr /\ slot' = NoAddr
  /\ pc' = "program"
  /\ settled' = settled \cup {<<op, argument>>}
  /\ UNCHANGED <<live, staged, retained, callers, op, argument, pick>>

\* captureTrace records the trace and publishes its outputs; its transients go
\* anywhere that is free, the pool included, and are freed.  It holds the capture
\* mutex.
Capture(touched) ==
  /\ pc = "capture" /\ untilized = NoAddr
  /\ touched \cap live = {} /\ FreeTraces # {}
  /\ LET t == CHOOSE t \in FreeTraces : TRUE IN
       /\ footprint' = [footprint EXCEPT ![t] = touched]
       /\ pooled' = IF touched = {} THEN pooled ELSE pooled \cup {t}
       /\ variants' = [variants EXCEPT
                         ![op] = Append(@, [trace |-> t, input |-> input, slot |-> slot])]
  /\ Refresh
  /\ cached' = cached \cup {op}
  /\ IF op \in cached THEN UNCHANGED lru ELSE Touch(op)
  /\ values' = values \cup {<<op, slot>>}
  /\ input' = NoAddr /\ slot' = NoAddr
  /\ pc' = "program"
  /\ settled' = settled \cup {<<op, argument>>}
  /\ UNCHANGED <<live, staged, retained, callers, op, argument, pick>>

\* The capture throws; the slots go unless a variant has them too.
CaptureFails ==
  /\ pc = "capture"
  /\ Abort
  /\ reserved' = Memory!Pool(footprint, pooled, Allocated)
  /\ UNCHANGED <<footprint, pooled, cached, lru, variants, staged, callers, op, pick, settled>>
  /\ Reclaim(live, retained)

-----------------------------------------------------------------------------
(* A hit: stageMovedInputs, then the variants.                              *)

\* The variants read the stageable input where it was when they were captured.
Moved ==
  /\ op \in Stageable /\ staged[op] = NoAddr
  /\ variants[op] # <<>>
  /\ variants[op][1].input # argument \/ variants[op][1].input \notin live

\* Mutant: an input that moved is left where it was captured.
StageNothing ==
  /\ pc = "hit"
  /\ pc' = "find"
  /\ UNCHANGED <<live, footprint, pooled, reserved, cached, lru, variants, staged, retained,
                 callers, op, argument, input, slot, pick, values, settled>>

StageMovedInputs ==
  /\ pc = "hit"
  /\ pc' = IF Moved THEN "stage" ELSE "find"
  /\ UNCHANGED <<live, footprint, pooled, reserved, cached, lru, variants, staged, retained,
                 callers, op, argument, input, slot, pick, values, settled>>

\* Mutant: the slots go although the variant to come has them.
EvictOldestVariantAlone(replacement) ==
  LET v == Head(variants[op])
      kept == {w.slot : w \in {variants[op][i] : i \in Indices(op) \ {1}}}
  IN /\ variants' = [variants EXCEPT ![op] = Tail(@)]
     /\ ReleaseTraces({v.trace})
     /\ UNCHANGED <<cached, lru, staged, callers, op, argument, input, slot, pick, values,
                    settled>>
     /\ Reclaim(live, retained \ ({v.slot} \ kept))

\* evictOldestVariant: its trace goes, and its slots are not retained any more
\* unless a variant that stays, or the one to replace it, has them.
EvictOldestVariant(replacement) ==
  LET v == Head(variants[op])
      kept == replacement \cup {w.slot : w \in {variants[op][i] : i \in Indices(op) \ {1}}}
  IN /\ variants' = [variants EXCEPT ![op] = Tail(@)]
     /\ ReleaseTraces({v.trace})
     /\ UNCHANGED <<cached, lru, staged, callers, op, argument, input, slot, pick, values,
                    settled>>
     /\ Reclaim(live, retained \ ({v.slot} \ kept))

StageEvicts ==
  /\ pc = "stage" /\ variants[op] # <<>>
  /\ EvictOldestVariant({})
  /\ UNCHANGED pc

StageInput(a) ==
  /\ pc = "stage" /\ variants[op] = <<>>
  /\ Takes(a)
  /\ live' = live \cup {a}
  /\ retained' = retained \cup {a}
  /\ staged' = [staged EXCEPT ![op] = a]
  /\ pc' = "find"
  /\ UNCHANGED <<footprint, pooled, cached, lru, variants, callers, op, argument, input,
                 slot, pick, values>>

\* deviceInputsMatch: an input captured by address is where it was; stageable
\* ones are left to stageMovedInputs.
DeviceInputsMatch(v) ==
  op \in Stageable \/ (v.input \in live /\ v.input = argument)

Matching == {i \in Indices(op) : DeviceInputsMatch(variants[op][i])}

\* Mutant: any variant for the buffers will do.
ReplayableUnchecked == Matching

Replayable ==
  {i \in Matching : Memory!IsReplaySafe(footprint, variants[op][i].trace, Allocated)}

Latest(is) == CHOOSE i \in is : \A j \in is : j <= i

FindVariant ==
  /\ pc = "find" /\ Replayable # {}
  /\ pick' = Latest(Replayable)
  /\ pc' = "replay"
  /\ UNCHANGED <<live, footprint, pooled, reserved, cached, lru, variants, staged, retained,
                 callers, op, argument, input, slot, values, settled>>

\* No variant is safe to replay: the slots of a matching one are used again.
FindSlots ==
  /\ pc = "find" /\ Replayable = {}
  /\ IF Matching # {}
     THEN LET v == variants[op][Latest(Matching)] IN input' = v.input /\ slot' = v.slot
     ELSE UNCHANGED <<input, slot>>
  /\ pc' = "evict"
  /\ UNCHANGED <<live, footprint, pooled, reserved, cached, lru, variants, staged, retained,
                 callers, op, argument, pick, values, settled>>

\* Room is made before slots are allocated.
MakeRoom ==
  /\ pc = "evict"
  /\ pc' = IF slot = NoAddr THEN "slots" ELSE "capture"
  /\ IF Len(variants[op]) = MaxVariants
     THEN EvictOldestVariant({input, slot})
     ELSE UNCHANGED <<live, footprint, pooled, reserved, cached, lru, variants, staged,
                      retained, callers, op, argument, input, slot, pick, values, settled>>

\* executeTrace copies a staged input into its slot and replays; the variant
\* becomes the most recently used one.
Replay ==
  /\ pc = "replay"
  /\ LET v == variants[op][pick]
     IN /\ variants' = [variants EXCEPT ![op] = Append(RemoveAt(@, pick), v)]
        /\ values' = values \cup {<<op, v.slot>>}
  /\ pc' = "program"
  /\ pick' = 0
  /\ settled' = IF late = {} THEN settled \cup {<<op, argument>>} ELSE settled
  /\ UNCHANGED <<live, footprint, pooled, reserved, cached, lru, staged, retained, callers,
                 op, argument, input, slot>>

-----------------------------------------------------------------------------
\* TraceCache::erase: the executable goes, with all its traces and slots.
Erase ==
  /\ pc = "idle" /\ cached # {}
  /\ cached' = {} /\ lru' = <<>>
  /\ variants' = [o \in Ops |-> <<>>]
  /\ staged' = [o \in Ops |-> NoAddr]
  /\ ReleaseTraces({v.trace : v \in VariantsOf(Ops)})
  /\ UNCHANGED <<callers, pc, op, argument, input, slot, pick, values, settled>>
  /\ Reclaim(live, {})

\* A program's steps, and what the framework does between programs or without the
\* device.
ProgramStep ==
  \/ \E a \in Addrs : Create(a) \/ Delete(a) \/ StartProgram(a)
  \/ \E o \in Ops : Run(o)
  \/ FinishProgram
  \/ EvictEntry \/ OutOfMemory \/ CaptureFails
  \/ \E a \in Addrs : AllocateSlots(a) \/ StageInput(a)
  \/ \E touched \in SUBSET Addrs : Cardinality(touched) <= workload.maxTransients /\ Capture(touched)
  \/ StageMovedInputs \/ StageEvicts
  \/ FindVariant \/ FindSlots \/ MakeRoom \/ Replay
  \/ Erase

BesideStep == (\E a \in Addrs : Copy(a) \/ Untilize(a)) \/ EnqueueRead

Next ==
  /\ \/ /\ UNCHANGED untilized
        /\ ProgramStep
        /\ late' = IF pc' = "replay" THEN late ELSE {}
     \/ BesideStep
  /\ workload' = workload

Spec == Init /\ [][Next]_vars

-----------------------------------------------------------------------------
\* What the cache, a running program or the framework still refers to stays
\* allocated, the cache's own slots retained, in the face of the program's
\* DeallocateOps, evictions and shared slots.
NothingDangles ==
  /\ Held \ {NoAddr} \subseteq live
  /\ {v.slot : v \in VariantsOf(Ops)} \cup ({staged[o] : o \in Ops} \ {NoAddr}) \subseteq retained

\* Nobody writes into another's buffer: the slots of an op, which its replays
\* overwrite, belong to no other op, hold no staged input and are no buffer of
\* the framework, nor what a read untilizes into.
SlotsAreApart ==
  \A o, q \in Ops : \A v \in VariantsOf({o}) :
    /\ o # q => v.slot \notin {w.slot : w \in VariantsOf({q})}
    /\ v.slot \notin callers \cup {staged[q], untilized}

\* "all variants therefore read an input that isn't staged at the same address":
\* what a replay reads is what the program was called with.
ReplayReadsTheArgument ==
  pc = "replay" =>
    variants[op][pick].input = IF staged[op] # NoAddr THEN staged[op] ELSE argument

\* What lies, when a trace replays, where its transients go.
Overwritten == footprint[variants[op][pick].trace] \cap live

\* "nothing may be allocated in between": when the trace replays, no live buffer
\* lies where its transients go.  (copyFromBuffer and copyToHost do allocate in
\* between.)
ReplayIsSafe == pc = "replay" => Overwritten = {}

\* A replay overwrites nothing that was there when it was checked: only what
\* copyFromBuffer or copyToHost allocated since, and so nothing that the program has,
\* no slot and no input of any variant.
ReplayOverwritesOnlyLate ==
  pc = "replay" =>
    /\ Overwritten \subseteq late
    /\ Overwritten \cap Needed = {}

\* A capture "cannot move a buffer that a sibling cached trace baked": an op that
\* ran with an argument is not captured for it again unless something was allocated
\* in between, so a loop of programs settles into replays.
CapturesSettle ==
  pc = "capture" /\ Len(variants[op]) > 0 => <<op, argument>> \notin settled
=============================================================================
