-------------------------- MODULE TraceCache_proofs --------------------------
(* Buffers of the framework, inputs that traces read and slots that replays  *)
(* write stay apart and allocated, and replays are of what they were called  *)
(* with, for any memory, operations, variants and calls.                     *)
EXTENDS TraceCache, SequenceTheorems, WellFoundedInduction, TLAPS

-----------------------------------------------------------------------------
(* The inductive invariant.                                                 *)

Variants == [trace : Traces, input : Addrs, slot : Addrs]
Slots == Addrs \cup {NoAddr}
Stages == {"idle", "program", "hit", "miss", "stage", "find", "replay", "evict", "slots", "capture"}

TypeOK ==
  /\ workload \in Workloads
  /\ live \subseteq Addrs /\ retained \subseteq Addrs /\ callers \subseteq Addrs
  /\ untilized \in Slots /\ late \subseteq Addrs
  /\ footprint \in [Traces -> SUBSET Addrs]
  /\ cached \subseteq Ops /\ lru \in Seq(Ops)
  /\ variants \in [Ops -> Seq(Variants)]
  /\ staged \in [Ops -> Slots]
  /\ pc \in Stages /\ op \in Ops
  /\ argument \in Slots /\ input \in Slots /\ slot \in Slots /\ pick \in Nat
  /\ values \subseteq Ops \X Addrs /\ settled \subseteq Ops \X Addrs

\* What a program has in hand, by what it is at.
InHand ==
  /\ IF pc = "idle" THEN argument = NoAddr /\ values = {} ELSE argument # NoAddr
  /\ pc \notin {"evict", "capture"} => slot = NoAddr
  /\ slot = NoAddr <=> input = NoAddr
  /\ pc = "capture" => slot # NoAddr
  /\ pc = "replay" => pick \in Indices(op)
  /\ pc = "miss" => op \notin cached
  /\ pc \in {"hit", "stage"} => op \in cached
  /\ pc = "stage" => op \in Stageable /\ staged[op] = NoAddr

\* The addresses that replays write, and those that programs read.
SlotsOf(o) == {variants[o][i].slot : i \in Indices(o)}
InputsOf(o) == {variants[o][i].input : i \in Indices(o)}
AllSlots == {v.slot : v \in VariantsOf(Ops)}
AllInputs == {v.input : v \in VariantsOf(Ops)}
Stagings == {staged[o] : o \in Ops}
Outputs == {w[2] : w \in values}
Written == AllSlots \cup Outputs \cup {slot}
Read == callers \cup AllInputs \cup Stagings \cup {argument, input}

WrittenIsNotRead ==
  /\ Written \cap Read \subseteq {NoAddr}
  /\ untilized \in Written \cup Read => untilized = NoAddr

\* A program's step leaves the read under way alone, and the next check begins anew.
BesideStays ==
  /\ untilized' = untilized
  /\ late' = IF pc' = "replay" THEN late ELSE {}

USE DEF BesideStays

\* Slots are of one op, and so is what inputs are staged in.
SlotsAreOwn ==
  /\ \A o, q \in Ops : o # q => SlotsOf(o) \cap SlotsOf(q) = {}
  /\ \A o \in Ops \ {op} : slot \notin SlotsOf(o)
  /\ \A o, q \in Ops : o # q /\ staged[o] = staged[q] => staged[o] = NoAddr
  /\ slot # NoAddr => slot \in retained

\* What is not cached has nothing; only stageable inputs are staged, and all variants
\* of an op read theirs in the same place.
VariantsAgree ==
  /\ \A o \in Ops \ cached : variants[o] = << >> /\ staged[o] = NoAddr
  /\ \A o \in Ops \ Stageable : staged[o] = NoAddr
  /\ \A o \in Stageable : \A i, j \in Indices(o) :
       /\ variants[o][i].input = variants[o][j].input
       /\ staged[o] # NoAddr => variants[o][i].input = staged[o]

InputOfCall == IF staged[op] # NoAddr THEN staged[op] ELSE argument

\* Where a stageable op that goes on to a replay or a capture reads its input.
VariantsFit ==
  /\ pc \in {"find", "replay", "evict", "slots", "capture"} /\ op \in Stageable =>
       \A i \in Indices(op) : variants[op][i].input = InputOfCall
  /\ input # NoAddr => input = InputOfCall

Fitting(o, a) == {i \in Indices(o) : o \in Stageable \/ variants[o][i].input = a}
Safe(v) == footprint[v.trace] \cap live = {}

\* Of the variants for an argument that ran since the last allocation the latest is
\* safe to replay; and what is captured into slots it had before had no safe one.
LatestIsSafe ==
  \A o \in Ops, a \in Addrs : <<o, a>> \in settled =>
    \A i \in Fitting(o, a) : (\A j \in Fitting(o, a) : j <= i) => Safe(variants[o][i])

SettledIsSafe ==
  /\ LatestIsSafe
  /\ slot # NoAddr => <<op, argument>> \notin settled

\* What was allocated since a variant was found safe is nothing that the program or the
\* cache has, and it is all that the variant overwrites.
OverwritesLate ==
  /\ pc # "replay" => late = {}
  /\ late # {} => settled = {}
  /\ late \cap Needed = {}
  /\ pc = "replay" => footprint[variants[op][pick].trace] \cap live \subseteq late

IInv ==
  /\ TypeOK /\ InHand /\ NothingDangles /\ WrittenIsNotRead /\ SlotsAreOwn /\ VariantsAgree /\ VariantsFit
  /\ ReplayReadsTheArgument /\ OverwritesLate /\ SettledIsSafe

-----------------------------------------------------------------------------
(* What is held.                                                            *)

LEMMA VariantTypes ==
  ASSUME TypeOK, NEW o \in Ops
  PROVE  /\ variants[o] \in Seq(Variants) /\ Len(variants[o]) \in Nat /\ DOMAIN variants[o] = Indices(o)
         /\ \A i \in Indices(o) : variants[o][i] \in Variants
         /\ SlotsOf(o) \subseteq Addrs /\ InputsOf(o) \subseteq Addrs
<1>1. variants[o] \in Seq(Variants)
  BY DEF TypeOK
<1>2. Len(variants[o]) \in Nat /\ DOMAIN variants[o] = Indices(o)
  BY <1>1, LenProperties DEF Indices
<1>3. \A i \in Indices(o) : variants[o][i] \in Variants
  BY <1>1, ElementOfSeq DEF Indices
<1>4. SlotsOf(o) \subseteq Addrs /\ InputsOf(o) \subseteq Addrs
  BY <1>3 DEF SlotsOf, InputsOf, Variants
<1> QED BY <1>1, <1>2, <1>3, <1>4

LEMMA VariantSets ==
  /\ \A x : x \in AllSlots <=> \E o \in Ops : x \in SlotsOf(o)
  /\ \A x : x \in AllInputs <=> \E o \in Ops : x \in InputsOf(o)
  /\ \A x : x \in Stagings <=> \E o \in Ops : x = staged[o]
BY DEF AllSlots, AllInputs, Stagings, VariantsOf, SlotsOf, InputsOf

LEMMA HeldIs == Held = Written \cup Read \cup {untilized}
BY DEF Held, Needed, Written, Read, AllSlots, AllInputs, Stagings, Outputs

LEMMA NeededIsHeld == Needed \subseteq Held
BY DEF Held

\* What is held is allocated, and what the cache holds of its own retained.
Kept ==
  /\ (Written \cup Read \cup {untilized}) \ {NoAddr} \subseteq live
  /\ \A o \in Ops : SlotsOf(o) \subseteq retained
  /\ \A o \in Ops : staged[o] \in retained \cup {NoAddr}

LEMMA Parts ==
  \A o \in Ops : /\ SlotsOf(o) \subseteq Written
                 /\ InputsOf(o) \subseteq Read
                 /\ staged[o] \in Read
BY VariantSets DEF Written, Read

LEMMA Dangling == NothingDangles <=> Kept
<1>1. NothingDangles <=> /\ Held \ {NoAddr} \subseteq live
                         /\ AllSlots \cup (Stagings \ {NoAddr}) \subseteq retained
  BY DEF NothingDangles, AllSlots, Stagings
<1>2. AllSlots \subseteq retained <=> \A o \in Ops : SlotsOf(o) \subseteq retained
  BY VariantSets
<1>3. Stagings \ {NoAddr} \subseteq retained <=> \A o \in Ops : staged[o] \in retained \cup {NoAddr}
  BY VariantSets
<1> QED BY <1>1, <1>2, <1>3, HeldIs DEF Kept

\* The wrappers that go are not needed.
LEMMA Reclaims ==
  ASSUME NEW allocated, NEW retains, Reclaim(allocated, retains),
         (Written' \cup Read' \cup {untilized'}) \ {NoAddr} \subseteq allocated,
         \A o \in Ops : SlotsOf(o)' \subseteq retains /\ staged'[o] \in retains \cup {NoAddr}
  PROVE  NothingDangles' /\ live' \subseteq allocated /\ retained' \subseteq retains
<1>1. (Held = Written \cup Read \cup {untilized})'
  BY HeldIs, PTL
<1>2. /\ live' = allocated \cap (Written' \cup Read' \cup {untilized'})
      /\ retained' = retains \cap (Written' \cup Read' \cup {untilized'})
  BY <1>1 DEF Reclaim
<1>3. (\A o \in Ops : /\ SlotsOf(o) \subseteq Written
                      /\ InputsOf(o) \subseteq Read
                      /\ staged[o] \in Read)'
  BY Parts, PTL
<1>4. \A o \in Ops : SlotsOf(o)' \subseteq retained'
  BY <1>2, <1>3
<1>5. \A o \in Ops : staged'[o] \in retained' \cup {NoAddr}
  BY <1>2, <1>3
<1>6. (Written' \cup Read' \cup {untilized'}) \ {NoAddr} \subseteq live'
  BY <1>2
<1>7. (NothingDangles <=> Kept)'
  BY Dangling, PTL
<1> QED BY <1>2, <1>4, <1>5, <1>6, <1>7 DEF Kept

\* A trace is safe to replay when its transients lie where nothing is allocated.
LEMMA SafeIs ==
  ASSUME live \subseteq Addrs, NEW t \in Traces
  PROVE  Memory!IsReplaySafe(footprint, t, Allocated) <=> footprint[t] \cap live = {}
<1>1. Memory!InUse(Allocated) = live
  BY DEF Memory!InUse, Allocated
<1> QED BY <1>1 DEF Memory!IsReplaySafe

\* A set of positions has a last one.
LEMMA HasLatest ==
  ASSUME NEW n \in Nat, NEW R \in SUBSET (1 .. n), R # {}
  PROVE  Latest(R) \in R /\ \A j \in R : j <= Latest(R)
<1> DEFINE D == {n - i : i \in R}
<1>0. \A i \in R : i \in Nat /\ n - i \in Nat
  OBVIOUS
<1>1. D # {} /\ D \subseteq Nat
  <2>1. \A d \in D : \E i \in R : d = n - i
    OBVIOUS
  <2>2. D # {}
    OBVIOUS
  <2> HIDE DEF D
  <2> QED BY <1>0, <2>1, <2>2
<1>2. PICK d \in D : \A e \in D : ~ (<<e, d>> \in OpToRel(<, Nat))
  <2> HIDE DEF D
  <2> QED BY <1>1, NatLessThanWellFounded, WFMin
<1>3. \A e \in D : ~ (e < d)
  <2> HIDE DEF D
  <2> QED BY <1>1, <1>2 DEF OpToRel
<1>4. PICK i \in R : d = n - i
  BY <1>2
<1>5. \A j \in R : j <= i
  <2> SUFFICES ASSUME NEW j \in R PROVE j <= i
    OBVIOUS
  <2>1. n - j \in D
    OBVIOUS
  <2>2. ~ (n - j < n - i) /\ i \in Nat /\ j \in Nat
    BY <1>0, <1>3, <1>4, <2>1
  <2> QED BY <2>2
<1> QED BY <1>4, <1>5 DEF Latest

LEMMA RemoveAtProperties ==
  ASSUME NEW S, NEW s \in Seq(S), NEW p \in 1 .. Len(s)
  PROVE  /\ RemoveAt(s, p) \in Seq(S)
         /\ Len(RemoveAt(s, p)) = Len(s) - 1
         /\ \A i \in 1 .. Len(s) - 1 : RemoveAt(s, p)[i] = s[IF i < p THEN i ELSE i + 1]
<1> DEFINE A == SubSeq(s, 1, p - 1)
           B == SubSeq(s, p + 1, Len(s))
<1>1. Len(s) \in Nat /\ \A i \in 1 .. Len(s) : s[i] \in S
  BY LenProperties, ElementOfSeq
<1>2. A \in Seq(S) /\ Len(A) = p - 1 /\ \A i \in 1 .. p - 1 : A[i] = s[i]
  <2>1. \A i \in 1 .. p - 1 : s[i] \in S
    BY <1>1
  <2>2. /\ A \in Seq(S) /\ Len(A) = IF 1 <= p - 1 THEN p - 1 - 1 + 1 ELSE 0
        /\ \A i \in 1 .. p - 1 - 1 + 1 : A[i] = s[1 + i - 1]
    BY <2>1, SubSeqProperties
  <2> QED BY <1>1, <2>2
<1>3. B \in Seq(S) /\ Len(B) = Len(s) - p /\ \A i \in 1 .. Len(s) - p : B[i] = s[p + i]
  <2>1. \A i \in p + 1 .. Len(s) : s[i] \in S
    BY <1>1
  <2>2. /\ B \in Seq(S) /\ Len(B) = IF p + 1 <= Len(s) THEN Len(s) - (p + 1) + 1 ELSE 0
        /\ \A i \in 1 .. Len(s) - (p + 1) + 1 : B[i] = s[p + 1 + i - 1]
    BY <1>1, <2>1, SubSeqProperties
  <2> QED BY <1>1, <2>2
<1>4. RemoveAt(s, p) = A \o B
  BY DEF RemoveAt
<1> HIDE DEF A, B
<1>5. /\ A \o B \in Seq(S) /\ Len(A \o B) = Len(A) + Len(B)
      /\ \A i \in 1 .. Len(A) + Len(B) : (A \o B)[i] = IF i <= Len(A) THEN A[i] ELSE B[i - Len(A)]
  BY <1>2, <1>3, ConcatProperties
<1>6. ASSUME NEW i \in 1 .. Len(s) - 1
      PROVE  (A \o B)[i] = s[IF i < p THEN i ELSE i + 1]
  <2>1. (A \o B)[i] = IF i <= p - 1 THEN A[i] ELSE B[i - (p - 1)]
    BY <1>1, <1>2, <1>3, <1>5
  <2>2. CASE i < p
    BY <1>1, <1>2, <2>1, <2>2
  <2>3. CASE ~ (i < p)
    <3>1. i - (p - 1) \in 1 .. Len(s) - p /\ p + (i - (p - 1)) = i + 1
      BY <1>1, <2>3
    <3> QED BY <1>1, <1>3, <2>1, <2>3, <3>1
  <2> QED BY <2>2, <2>3
<1> QED BY <1>1, <1>2, <1>3, <1>4, <1>5, <1>6

LEMMA AppendElements ==
  ASSUME NEW S, NEW s \in Seq(S), NEW e \in S
  PROVE  /\ Append(s, e) \in Seq(S) /\ Len(Append(s, e)) = Len(s) + 1
         /\ \A i \in 1 .. Len(s) : Append(s, e)[i] = s[i]
         /\ Append(s, e)[Len(s) + 1] = e
OBVIOUS

LEMMA TouchType ==
  ASSUME TypeOK, NEW o \in Ops, Touch(o)
  PROVE  lru' \in Seq(Ops)
<1>1. lru \in Seq(Ops) /\ DOMAIN lru = 1 .. Len(lru)
  BY LenProperties DEF TypeOK
<1> DEFINE p == CHOOSE i \in DOMAIN lru : lru[i] = o
<1>2. CASE \E i \in DOMAIN lru : lru[i] = o
  <2>1. p \in 1 .. Len(lru)
    BY <1>1, <1>2
  <2> HIDE DEF p
  <2>2. RemoveAt(lru, p) \in Seq(Ops)
    BY <1>1, <2>1, RemoveAtProperties
  <2>3. lru' = Append(RemoveAt(lru, p), o)
    BY <1>2 DEF Touch, p
  <2> QED BY <2>2, <2>3, AppendElements
<1>3. CASE ~ \E i \in DOMAIN lru : lru[i] = o
  BY <1>1, <1>3, AppendElements DEF Touch
<1> QED BY <1>2, <1>3

-----------------------------------------------------------------------------
(* Types.                                                                   *)

LEMMA ReclaimTypes ==
  ASSUME TypeOK, NEW allocated, NEW retains, Reclaim(allocated, retains),
         allocated \subseteq live, retains \subseteq retained
  PROVE  live' \subseteq Addrs /\ retained' \subseteq Addrs
BY DEF TypeOK, Reclaim

LEMMA ReleaseTypes ==
  ASSUME TypeOK, NEW ts, ReleaseTraces(ts)
  PROVE  footprint' \in [Traces -> SUBSET Addrs]
BY DEF TypeOK, ReleaseTraces

LEMMA AbortTypes ==
  ASSUME TypeOK, Abort
  PROVE  /\ pc' \in Stages /\ argument' \in Slots /\ input' \in Slots /\ slot' \in Slots
         /\ values' \subseteq Ops \X Addrs
BY DEF TypeOK, Abort, Stages, Slots

LEMMA EvictTypes ==
  ASSUME TypeOK, NEW replacement, EvictOldestVariant(replacement), variants[op] # << >>
  PROVE  /\ live' \subseteq Addrs /\ retained' \subseteq Addrs
         /\ footprint' \in [Traces -> SUBSET Addrs]
         /\ variants' \in [Ops -> Seq(Variants)]
         /\ UNCHANGED <<cached, lru, staged, callers, op, argument, input, slot, pick, values, settled>>
<1> DEFINE v == Head(variants[op])
           kept == replacement \cup {w.slot : w \in {variants[op][i] : i \in Indices(op) \ {1}}}
<1>1. /\ variants' = [variants EXCEPT ![op] = Tail(@)]
      /\ ReleaseTraces({v.trace})
      /\ UNCHANGED <<cached, lru, staged, callers, op, argument, input, slot, pick, values, settled>>
      /\ Reclaim(live, retained \ ({v.slot} \ kept))
  BY DEF EvictOldestVariant
<1> HIDE DEF v, kept
<1>2. Tail(variants[op]) \in Seq(Variants)
  BY HeadTailProperties DEF TypeOK
<1>3. variants' \in [Ops -> Seq(Variants)]
  BY <1>1, <1>2 DEF TypeOK
<1>4. retained \ ({v.slot} \ kept) \subseteq retained
  OBVIOUS
<1> QED BY <1>1, <1>3, <1>4, ReclaimTypes, ReleaseTypes

LEMMA TypeStep ==
  ASSUME CacheAssumption, TypeOK, InHand, Next
  PROVE  TypeOK'
<1> USE DEF CacheAssumption
<1>w. workload' \in Workloads /\ untilized' \in Slots /\ late' \subseteq Addrs /\ \A n \in {"idle", "program", "hit", "miss", "stage", "find", "replay", "evict", "slots", "capture"} : n \in Stages
  <2>1. CASE BesideStep
    BY <2>1 DEF TypeOK, Next, Stages, BesideStep, Copy, Untilize, EnqueueRead, AllocatesBeside, Slots
  <2>2. CASE untilized' = untilized /\ late' = IF pc' = "replay" THEN late ELSE {}
    BY <2>2 DEF TypeOK, Next, Stages
  <2> QED BY <2>1, <2>2 DEF Next
<1>1. ASSUME NEW a \in Addrs, Create(a) \/ Copy(a) \/ Untilize(a)
      PROVE  TypeOK'
  BY <1>1, <1>w DEF TypeOK, Create, Copy, Untilize, AllocatesBeside, Takes
<1>16. ASSUME EnqueueRead
       PROVE  TypeOK'
  BY <1>16, <1>w DEF TypeOK, EnqueueRead
<1>2. ASSUME NEW a \in Addrs, Delete(a)
      PROVE  TypeOK'
  <2>1. live' \subseteq Addrs /\ retained' \subseteq Addrs
    BY <1>2, ReclaimTypes DEF Delete
  <2> QED BY <1>2, <1>w, <2>1 DEF TypeOK, Delete
<1>3. ASSUME NEW a \in Addrs, StartProgram(a)
      PROVE  TypeOK'
  BY <1>3, <1>w DEF TypeOK, StartProgram, Slots
<1>4. ASSUME NEW o \in Ops, Run(o)
      PROVE  TypeOK'
  <2>1. lru' \in Seq(Ops)
    BY <1>4, TouchType DEF Run, TypeOK
  <2> QED BY <1>4, <1>w, <2>1 DEF TypeOK, Run
<1>5. ASSUME FinishProgram
      PROVE  TypeOK'
  <2>1. live' \subseteq Addrs /\ retained' \subseteq Addrs
    BY <1>5, ReclaimTypes DEF FinishProgram
  <2> QED BY <1>5, <1>w, <2>1, AbortTypes DEF TypeOK, FinishProgram
<1>6. ASSUME EvictEntry
      PROVE  TypeOK'
  <2> DEFINE e == Head(lru)
  <2>1. lru # << >> /\ lru \in Seq(Ops)
    BY <1>6 DEF EvictEntry, TypeOK
  <2>2. e \in Ops /\ Tail(lru) \in Seq(Ops)
    BY <2>1, HeadTailProperties
  <2>3. /\ lru' = Tail(lru) /\ cached' = cached \ {e}
        /\ variants' = [variants EXCEPT ![e] = <<>>]
        /\ staged' = [staged EXCEPT ![e] = NoAddr]
        /\ ReleaseTraces({v.trace : v \in VariantsOf({e})})
        /\ UNCHANGED <<callers, pc, op, argument, input, slot, pick, values, settled>>
        /\ Reclaim(live, retained \ ({v.slot : v \in VariantsOf({e})} \cup {staged[e]}))
    BY <1>6 DEF EvictEntry
  <2> HIDE DEF e
  <2>4. live' \subseteq Addrs /\ retained' \subseteq Addrs
    <3>1. retained \ ({v.slot : v \in VariantsOf({e})} \cup {staged[e]}) \subseteq retained
      OBVIOUS
    <3> QED BY <2>3, <3>1, ReclaimTypes
  <2>5. footprint' \in [Traces -> SUBSET Addrs]
    BY <2>3, ReleaseTypes
  <2>6. variants' \in [Ops -> Seq(Variants)] /\ staged' \in [Ops -> Slots]
    BY <2>2, <2>3, EmptySeq DEF TypeOK, Slots
  <2> QED BY <1>w, <2>2, <2>3, <2>4, <2>5, <2>6 DEF TypeOK
<1>7. ASSUME OutOfMemory \/ CaptureFails
      PROVE  TypeOK'
  <2>1. live' \subseteq Addrs /\ retained' \subseteq Addrs
    BY <1>7, ReclaimTypes DEF OutOfMemory, CaptureFails
  <2>2. /\ UNCHANGED <<footprint, cached, lru, variants, staged, callers, op, pick, settled>>
        /\ Abort
    BY <1>7 DEF OutOfMemory, CaptureFails
  <2> QED BY <1>w, <2>1, <2>2, AbortTypes DEF TypeOK
<1>8. ASSUME NEW a \in Addrs, AllocateSlots(a)
      PROVE  TypeOK'
  BY <1>8, <1>w DEF TypeOK, AllocateSlots, Slots, Takes
<1>9. ASSUME NEW a \in Addrs, StageInput(a)
      PROVE  TypeOK'
  BY <1>9, <1>w DEF TypeOK, StageInput, Slots, Takes
<1>10. ASSUME NEW touched \in SUBSET Addrs, Capture(touched)
       PROVE  TypeOK'
  <2> DEFINE t == CHOOSE t \in FreeTraces : TRUE
             v == [trace |-> t, input |-> input, slot |-> slot]
  <2>1. t \in Traces
    BY <1>10 DEF Capture, FreeTraces
  <2>2. input \in Addrs /\ slot \in Addrs /\ argument \in Addrs
    BY <1>10 DEF Capture, InHand, TypeOK, Slots
  <2>3. v \in Variants
    BY <2>1, <2>2 DEF Variants
  <2>4. /\ footprint' = [footprint EXCEPT ![t] = touched]
        /\ variants' = [variants EXCEPT ![op] = Append(@, v)]
        /\ cached' = cached \cup {op}
        /\ IF op \in cached THEN UNCHANGED lru ELSE Touch(op)
        /\ values' = values \cup {<<op, slot>>}
        /\ input' = NoAddr /\ slot' = NoAddr
        /\ pc' = "program"
        /\ settled' = settled \cup {<<op, argument>>}
        /\ UNCHANGED <<live, staged, retained, callers, op, argument, pick>>
    BY <1>10 DEF Capture
  <2> HIDE DEF t, v
  <2>5. lru' \in Seq(Ops)
    BY <2>4, TouchType DEF TypeOK
  <2>6. Append(variants[op], v) \in Seq(Variants)
    BY <2>3, AppendElements DEF TypeOK
  <2> QED BY <1>w, <2>1, <2>2, <2>4, <2>5, <2>6 DEF TypeOK, Slots
<1>11. ASSUME StageMovedInputs \/ FindVariant
       PROVE  TypeOK'
  <2>1. ASSUME FindVariant PROVE pick' \in Nat
    <3>1. Replayable # {} /\ Replayable \subseteq Indices(op) /\ Indices(op) \subseteq Nat
      BY <2>1 DEF FindVariant, Replayable, Matching, Indices
    <3>2. PICK n \in Nat : n = Len(variants[op])
      BY VariantTypes DEF TypeOK
    <3>3. Latest(Replayable) \in Replayable
      BY <3>1, <3>2, HasLatest DEF Indices
    <3> QED BY <2>1, <3>1, <3>3 DEF FindVariant
  <2> QED BY <1>11, <1>w, <2>1 DEF TypeOK, StageMovedInputs, FindVariant
<1>12. ASSUME FindSlots
       PROVE  TypeOK'
  <2>1. Matching \subseteq Indices(op)
    BY DEF Matching
  <2>2. PICK n \in Nat : n = Len(variants[op])
    BY VariantTypes DEF TypeOK
  <2>3. Matching # {} => Latest(Matching) \in Indices(op)
    BY <2>1, <2>2, HasLatest DEF Indices
  <2>4. Matching # {} => variants[op][Latest(Matching)] \in Variants
    BY <2>3, VariantTypes DEF TypeOK
  <2>5. input' \in Slots /\ slot' \in Slots
    BY <1>12, <2>4 DEF FindSlots, TypeOK, Variants, Slots
  <2> QED BY <1>12, <1>w, <2>5 DEF TypeOK, FindSlots
<1>13. ASSUME StageEvicts \/ MakeRoom
       PROVE  TypeOK'
  <2>1. CASE UNCHANGED <<live, footprint, pooled, reserved, cached, lru, variants, staged,
                      retained, callers, op, argument, input, slot, pick, values, settled>>
    BY <1>13, <1>w, <2>1 DEF TypeOK, StageEvicts, MakeRoom
  <2>2. CASE /\ variants[op] # << >>
             /\ \E replacement : EvictOldestVariant(replacement)
    BY <1>13, <1>w, <2>2, EvictTypes DEF TypeOK, StageEvicts, MakeRoom
  <2>3. Len(variants[op]) = MaxVariants => variants[op] # << >>
    BY EmptySeq
  <2> QED BY <1>13, <2>1, <2>2, <2>3 DEF StageEvicts, MakeRoom
<1>14. ASSUME Replay
       PROVE  TypeOK'
  <2> DEFINE v == variants[op][pick]
  <2>1. /\ variants' = [variants EXCEPT ![op] = Append(RemoveAt(@, pick), v)]
        /\ values' = values \cup {<<op, v.slot>>}
        /\ pc' = "program" /\ pick' = 0
        /\ settled' = IF late = {} THEN settled \cup {<<op, argument>>} ELSE settled
        /\ UNCHANGED <<live, footprint, pooled, reserved, cached, lru, staged, retained, callers,
                       op, argument, input, slot>>
    BY <1>14 DEF Replay
  <2>2. v \in Variants /\ pick \in 1 .. Len(variants[op]) /\ variants[op] \in Seq(Variants) /\ op \in Ops
    BY <1>14, VariantTypes DEF Replay, InHand, TypeOK, Indices
  <2>3. argument \in Addrs
    BY <1>14 DEF Replay, InHand, TypeOK, Slots
  <2> HIDE DEF v
  <2>4. Append(RemoveAt(variants[op], pick), v) \in Seq(Variants)
    BY <2>2, RemoveAtProperties, AppendElements
  <2>5. v.slot \in Addrs
    BY <2>2 DEF Variants
  <2> QED BY <1>w, <2>1, <2>2, <2>3, <2>4, <2>5 DEF TypeOK
<1>15. ASSUME Erase
       PROVE  TypeOK'
  <2>1. live' \subseteq Addrs /\ retained' \subseteq Addrs /\ footprint' \in [Traces -> SUBSET Addrs]
    BY <1>15, ReclaimTypes, ReleaseTypes DEF Erase
  <2>2. lru' \in Seq(Ops) /\ << >> \in Seq(Variants)
    BY <1>15, EmptySeq DEF Erase
  <2> QED BY <1>15, <1>w, <2>1, <2>2 DEF TypeOK, Erase, Slots
<1> QED
  BY <1>1, <1>2, <1>3, <1>4, <1>5, <1>6, <1>7, <1>8, <1>9, <1>10, <1>11, <1>12, <1>13, <1>14, <1>15, <1>16
  DEF Next, ProgramStep, BesideStep

LEMMA InHandStep ==
  ASSUME CacheAssumption, TypeOK, InHand, Next
  PROVE  InHand'
<1>1. ASSUME NEW a \in Addrs, Create(a) \/ Copy(a) \/ Untilize(a) \/ Delete(a)
      PROVE  InHand'
  BY <1>1 DEF InHand, Indices, Create, Copy, Untilize, AllocatesBeside, Delete
<1>15. ASSUME EnqueueRead
       PROVE  InHand'
  BY <1>15 DEF InHand, Indices, EnqueueRead
<1>2. ASSUME NEW a \in Addrs, StartProgram(a)
      PROVE  InHand'
  BY <1>2 DEF InHand, StartProgram, CacheAssumption
<1>3. ASSUME NEW o \in Ops, Run(o)
      PROVE  InHand'
  BY <1>3 DEF InHand, Run
<1>4. ASSUME FinishProgram \/ OutOfMemory \/ CaptureFails
      PROVE  InHand'
  BY <1>4 DEF InHand, FinishProgram, OutOfMemory, CaptureFails, Abort
<1>5. ASSUME EvictEntry
      PROVE  InHand'
  BY <1>5 DEF InHand, EvictEntry
<1>6. ASSUME NEW a \in Addrs, AllocateSlots(a)
      PROVE  InHand'
  BY <1>6 DEF InHand, AllocateSlots, CacheAssumption
<1>7. ASSUME NEW a \in Addrs, StageInput(a)
      PROVE  InHand'
  BY <1>7 DEF InHand, StageInput
<1>8. ASSUME NEW touched \in SUBSET Addrs, Capture(touched)
      PROVE  InHand'
  BY <1>8 DEF InHand, Capture
<1>9. ASSUME StageMovedInputs
      PROVE  InHand'
  BY <1>9 DEF InHand, StageMovedInputs, Moved
<1>10. ASSUME FindVariant
       PROVE  InHand'
  <2>1. Replayable # {} /\ Replayable \subseteq Indices(op)
    BY <1>10 DEF FindVariant, Replayable, Matching
  <2>2. PICK n \in Nat : n = Len(variants[op])
    BY VariantTypes DEF TypeOK
  <2>3. Latest(Replayable) \in Indices(op)
    BY <2>1, <2>2, HasLatest DEF Indices
  <2> QED BY <1>10, <2>3 DEF InHand, FindVariant, Indices
<1>11. ASSUME FindSlots
       PROVE  InHand'
  <2>1. Matching \subseteq Indices(op)
    BY DEF Matching
  <2>2. PICK n \in Nat : n = Len(variants[op])
    BY VariantTypes DEF TypeOK
  <2>3. Matching # {} => Latest(Matching) \in Indices(op)
    BY <2>1, <2>2, HasLatest DEF Indices
  <2>4. Matching # {} => variants[op][Latest(Matching)] \in Variants
    BY <2>3, VariantTypes DEF TypeOK
  <2>5. slot' = NoAddr <=> input' = NoAddr
    BY <1>11, <2>4 DEF FindSlots, InHand, Variants, CacheAssumption
  <2> QED BY <1>11, <2>5 DEF InHand, FindSlots
<1>12. ASSUME StageEvicts \/ MakeRoom
       PROVE  InHand'
  <2>1. UNCHANGED <<cached, staged, op, argument, input, slot, pick, values>>
    BY <1>12 DEF StageEvicts, MakeRoom, EvictOldestVariant
  <2> QED BY <1>12, <2>1 DEF InHand, StageEvicts, MakeRoom
<1>13. ASSUME Replay
       PROVE  InHand'
  BY <1>13 DEF InHand, Replay
<1>14. ASSUME Erase
       PROVE  InHand'
  BY <1>14 DEF InHand, Erase
<1> QED
  BY <1>1, <1>2, <1>3, <1>4, <1>5, <1>6, <1>7, <1>8, <1>9, <1>10, <1>11, <1>12, <1>13, <1>14, <1>15
  DEF Next, ProgramStep, BesideStep

-----------------------------------------------------------------------------
(* Variants go from the front.                                              *)

Shrinks ==
  \A o \in Ops : \E d \in Nat :
    /\ Len(variants'[o]) = Len(variants[o]) - d
    /\ \A i \in 1 .. Len(variants'[o]) : variants'[o][i] = variants[o][i + d]

LEMMA EmptiedShrinks ==
  ASSUME TypeOK, \A o \in Ops : variants'[o] = variants[o] \/ variants'[o] = << >>
  PROVE  Shrinks
<1> SUFFICES ASSUME NEW o \in Ops
             PROVE  \E d \in Nat :
                      /\ Len(variants'[o]) = Len(variants[o]) - d
                      /\ \A i \in 1 .. Len(variants'[o]) : variants'[o][i] = variants[o][i + d]
  BY DEF Shrinks
<1>1. PICK n \in Nat : n = Len(variants[o])
  BY VariantTypes
<1>2. CASE variants'[o] = variants[o]
  <2>1. n = n - 0 /\ \A i \in 1 .. n : variants'[o][i] = variants[o][i + 0]
    BY <1>1, <1>2
  <2>2. Len(variants'[o]) = n
    BY <1>1, <1>2
  <2> QED BY <1>1, <2>1, <2>2
<1>3. CASE variants'[o] = << >>
  BY <1>1, <1>3
<1> QED BY <1>2, <1>3

LEMMA TailShrinks ==
  ASSUME TypeOK, variants[op] # << >>, variants' = [variants EXCEPT ![op] = Tail(@)]
  PROVE  Shrinks
<1> SUFFICES ASSUME NEW o \in Ops
             PROVE  \E d \in Nat :
                      /\ Len(variants'[o]) = Len(variants[o]) - d
                      /\ \A i \in 1 .. Len(variants'[o]) : variants'[o][i] = variants[o][i + d]
  BY DEF Shrinks
<1>1. PICK n \in Nat : n = Len(variants[o])
  BY VariantTypes
<1>2. CASE o = op
  <2>1. /\ variants'[o] = Tail(variants[o]) /\ Len(variants'[o]) = n - 1
        /\ \A i \in 1 .. Len(variants'[o]) : variants'[o][i] = variants[o][i + 1]
    BY <1>1, <1>2, HeadTailProperties DEF TypeOK
  <2> QED BY <1>1, <2>1
<1>3. CASE o # op
  <2>1. variants'[o] = variants[o]
    BY <1>3 DEF TypeOK
  <2> QED BY <1>1, <2>1
<1> QED BY <1>2, <1>3

LEMMA Shrunk ==
  ASSUME TypeOK, Shrinks, NEW o \in Ops
  PROVE  /\ SlotsOf(o)' \subseteq SlotsOf(o) /\ InputsOf(o)' \subseteq InputsOf(o)
         /\ Indices(o)' # {} => Indices(o) # {}
         /\ \A i \in Indices(o)' : \E j \in Indices(o) : variants'[o][i] = variants[o][j]
<1>1. PICK d \in Nat : /\ Len(variants'[o]) = Len(variants[o]) - d
                       /\ \A i \in 1 .. Len(variants'[o]) : variants'[o][i] = variants[o][i + d]
  BY DEF Shrinks
<1>2. PICK n \in Nat : n = Len(variants[o])
  BY VariantTypes
<1>3. \A i \in 1 .. Len(variants'[o]) : i + d \in 1 .. Len(variants[o])
  BY <1>1, <1>2
<1>4. \A i \in Indices(o)' : \E j \in Indices(o) : variants'[o][i] = variants[o][j]
  BY <1>1, <1>3 DEF Indices
<1>5. SlotsOf(o)' \subseteq SlotsOf(o) /\ InputsOf(o)' \subseteq InputsOf(o)
  BY <1>4 DEF SlotsOf, InputsOf
<1> QED BY <1>4, <1>5

\* The latest variant for an argument stays the latest.
LEMMA LatestStays ==
  ASSUME TypeOK, Shrinks, LatestIsSafe, live' \subseteq live, settled' \subseteq settled,
         \A t \in Traces : footprint'[t] \subseteq footprint[t]
  PROVE  LatestIsSafe'
<1> SUFFICES ASSUME NEW o \in Ops, NEW a \in Addrs, <<o, a>> \in settled',
                    NEW i \in Fitting(o, a)', \A j \in Fitting(o, a)' : j <= i
             PROVE  Safe(variants[o][i])'
  BY DEF LatestIsSafe
<1>1. PICK d \in Nat : /\ Len(variants'[o]) = Len(variants[o]) - d
                       /\ \A k \in 1 .. Len(variants'[o]) : variants'[o][k] = variants[o][k + d]
  BY DEF Shrinks
<1>2. PICK n \in Nat : n = Len(variants[o])
  BY VariantTypes
<1>3. /\ i \in 1 .. n - d /\ variants'[o][i] = variants[o][i + d] /\ i + d \in 1 .. n
      /\ o \in Stageable \/ variants'[o][i].input = a
  BY <1>1, <1>2 DEF Fitting, Indices
<1>4. i + d \in Fitting(o, a)
  BY <1>2, <1>3 DEF Fitting, Indices
<1>5. ASSUME NEW j \in Fitting(o, a)
      PROVE  j <= i + d
  <2>1. j \in 1 .. n /\ (o \in Stageable \/ variants[o][j].input = a)
    BY <1>2 DEF Fitting, Indices
  <2>2. CASE j <= d
    BY <1>3, <2>1, <2>2
  <2>3. CASE ~ (j <= d)
    <3>1. j - d \in 1 .. n - d /\ (j - d) + d = j
      BY <2>1, <2>3
    <3>2. j - d \in Fitting(o, a)'
      BY <1>1, <1>2, <2>1, <3>1 DEF Fitting, Indices
    <3>3. j - d <= i
      BY <3>2
    <3> QED BY <1>3, <2>1, <3>3
  <2> QED BY <2>2, <2>3
<1>6. Safe(variants[o][i + d])
  BY <1>4, <1>5 DEF LatestIsSafe
<1>7. variants[o][i + d].trace \in Traces
  BY <1>2, <1>3, VariantTypes DEF Indices, Variants
<1> QED BY <1>3, <1>6, <1>7 DEF Safe

-----------------------------------------------------------------------------
(* What is written and read, from step to step.                             *)

LEMMA Bounds ==
  ASSUME NEW R, NEW W,
         \A o \in Ops : /\ SlotsOf(o)' \subseteq Written \cup W
                        /\ InputsOf(o)' \subseteq Read \cup R
                        /\ staged'[o] \in Read \cup R,
         callers' \subseteq Read \cup R, Outputs' \subseteq Written \cup W,
         argument' \in Read \cup R, input' \in Read \cup R, slot' \in Written \cup W
  PROVE  Written' \subseteq Written \cup W /\ Read' \subseteq Read \cup R
<1>1. (/\ \A x : x \in AllSlots <=> \E o \in Ops : x \in SlotsOf(o)
       /\ \A x : x \in AllInputs <=> \E o \in Ops : x \in InputsOf(o)
       /\ \A x : x \in Stagings <=> \E o \in Ops : x = staged[o])'
  BY VariantSets, PTL
<1>2. AllSlots' \subseteq Written \cup W
  BY <1>1
<1>3. AllInputs' \subseteq Read \cup R /\ Stagings' \subseteq Read \cup R
  BY <1>1
<1>4. Written' = AllSlots' \cup Outputs' \cup {slot'}
  BY DEF Written
<1>5. Read' = callers' \cup AllInputs' \cup Stagings' \cup {argument', input'}
  BY DEF Read
<1> QED BY <1>2, <1>3, <1>4, <1>5

LEMMA ApartStays ==
  ASSUME WrittenIsNotRead, NEW R, NEW W,
         Written' \subseteq Written \cup W, Read' \subseteq Read \cup R,
         W \cap (Read \cup R) \subseteq {NoAddr}, R \cap Written \subseteq {NoAddr},
         \/ untilized' \in {untilized, NoAddr} /\ (untilized \in R \cup W => untilized = NoAddr)
         \/ untilized' \notin Written \cup Read \cup R \cup W
  PROVE  WrittenIsNotRead'
<1>1. Written' \cap Read' \subseteq {NoAddr}
  BY DEF WrittenIsNotRead
<1>2. untilized' \in Written' \cup Read' => untilized' = NoAddr
  BY DEF WrittenIsNotRead
<1> QED BY <1>1, <1>2 DEF WrittenIsNotRead

\* An address nothing holds.
LEMMA FreshIsFree ==
  ASSUME NothingDangles, NEW a \in Addrs, a \notin live, CacheAssumption
  PROVE  a \notin Written \cup Read \cup {untilized}
BY Dangling DEF Kept, CacheAssumption

LEMMA OutputsShrink ==
  ASSUME values' \subseteq values
  PROVE  Outputs' \subseteq Written
BY DEF Outputs, Written

LEMMA OwnStays ==
  ASSUME CacheAssumption, TypeOK, SlotsAreOwn,
         \A o \in Ops : SlotsOf(o)' \subseteq SlotsOf(o) /\ staged'[o] \in {staged[o], NoAddr},
         slot' = NoAddr \/ (slot' = slot /\ op' = op /\ slot' \in retained')
  PROVE  SlotsAreOwn'
<1>1. \A o, q \in Ops : o # q => SlotsOf(o)' \cap SlotsOf(q)' = {}
  BY DEF SlotsAreOwn
<1>2. \A o \in Ops : o # op' => slot' \notin SlotsOf(o)'
  <2> SUFFICES ASSUME NEW o \in Ops, o # op' PROVE slot' \notin SlotsOf(o)'
    OBVIOUS
  <2>1. NoAddr \notin SlotsOf(o)
    BY VariantTypes DEF CacheAssumption
  <2> QED BY <2>1 DEF SlotsAreOwn
<1>3. \A o, q \in Ops : o # q /\ staged'[o] = staged'[q] => staged'[o] = NoAddr
  BY DEF SlotsAreOwn
<1> QED BY <1>1, <1>2, <1>3 DEF SlotsAreOwn

\* Steps that only let go.
Loses ==
  /\ Shrinks /\ \A o \in Ops : staged'[o] \in {staged[o], NoAddr}
  /\ \A o \in Ops \ cached' : o \notin cached \/ (variants'[o] = << >> /\ staged'[o] = NoAddr)
  /\ callers' \subseteq callers /\ values' \subseteq values /\ settled' = settled
  /\ argument' \in {argument, NoAddr} /\ input' \in {input, NoAddr}
  /\ \A t \in Traces : footprint'[t] \subseteq footprint[t]
  /\ slot' = NoAddr \/ (slot' = slot /\ op' = op /\ argument' = argument)
  /\ untilized' \in {untilized, NoAddr}

LEMMA LosesBounds ==
  ASSUME TypeOK, Loses
  PROVE  /\ Written' \subseteq Written \cup {NoAddr} /\ Read' \subseteq Read \cup {NoAddr}
         /\ \A o \in Ops : SlotsOf(o)' \subseteq SlotsOf(o)
<1>1. \A o \in Ops : /\ SlotsOf(o)' \subseteq SlotsOf(o) /\ SlotsOf(o) \subseteq Written
                     /\ InputsOf(o)' \subseteq Read
                     /\ staged'[o] \in Read \cup {NoAddr}
  BY Shrunk, Parts DEF Loses
<1>2. /\ callers' \subseteq Read /\ Outputs' \subseteq Written
      /\ argument' \in Read \cup {NoAddr} /\ input' \in Read \cup {NoAddr} /\ slot' \in Written \cup {NoAddr}
  BY OutputsShrink DEF Loses, Read, Written
<1>3. \A o \in Ops : /\ SlotsOf(o)' \subseteq Written \cup {NoAddr}
                     /\ InputsOf(o)' \subseteq Read \cup {NoAddr}
                     /\ staged'[o] \in Read \cup {NoAddr}
  BY <1>1
<1>4. callers' \subseteq Read \cup {NoAddr} /\ Outputs' \subseteq Written \cup {NoAddr}
  BY <1>2
<1>5. Written' \subseteq Written \cup {NoAddr} /\ Read' \subseteq Read \cup {NoAddr}
  BY <1>2, <1>3, <1>4, Bounds
<1> QED BY <1>1, <1>5

LEMMA LosesAgrees ==
  ASSUME CacheAssumption, TypeOK, TypeOK', VariantsAgree, Loses
  PROVE  VariantsAgree'
<1>1. ASSUME NEW o \in Ops \ cached'
      PROVE  variants'[o] = << >> /\ staged'[o] = NoAddr
  <2> SUFFICES ASSUME o \notin cached PROVE variants'[o] = << >> /\ staged'[o] = NoAddr
    BY DEF Loses
  <2>1. variants[o] = << >> /\ staged[o] = NoAddr
    BY DEF VariantsAgree
  <2>2. PICK d \in Nat : Len(variants'[o]) = Len(variants[o]) - d
    BY DEF Loses, Shrinks
  <2>3. variants'[o] \in Seq(Variants) /\ Len(<< >>) = 0
    BY EmptySeq DEF TypeOK
  <2>4. Len(variants'[o]) = 0
    BY <2>1, <2>2, <2>3, LenProperties
  <2>5. variants'[o] = << >>
    BY <2>3, <2>4, EmptySeq
  <2> QED BY <2>1, <2>5 DEF Loses
<1>2. \A o \in Ops \ Stageable : staged'[o] = NoAddr
  BY DEF Loses, VariantsAgree
<1>3. ASSUME NEW o \in Ops, o \in Stageable, NEW i \in Indices(o)', NEW j \in Indices(o)'
      PROVE  /\ variants'[o][i].input = variants'[o][j].input
             /\ staged'[o] # NoAddr => variants'[o][i].input = staged'[o]
  <2>1. PICK k \in Indices(o) : variants'[o][i] = variants[o][k]
    BY Shrunk DEF Loses
  <2>2. PICK l \in Indices(o) : variants'[o][j] = variants[o][l]
    BY Shrunk DEF Loses
  <2>3. staged'[o] # NoAddr => staged'[o] = staged[o]
    BY DEF Loses
  <2>4. \A m, n \in Indices(o) : /\ variants[o][m].input = variants[o][n].input
                                 /\ staged[o] # NoAddr => variants[o][m].input = staged[o]
    BY <1>3 DEF VariantsAgree
  <2> HIDE DEF Indices
  <2> QED BY <2>1, <2>2, <2>3, <2>4
<1>4. \A o \in Stageable : \A i, j \in Indices(o)' :
        /\ variants'[o][i].input = variants'[o][j].input
        /\ staged'[o] # NoAddr => variants'[o][i].input = staged'[o]
  BY <1>3 DEF CacheAssumption
<1> QED BY <1>1, <1>2, <1>4 DEF VariantsAgree

LEMMA LosesKeeps ==
  ASSUME CacheAssumption, IInv, TypeOK', Loses, NEW allocated, NEW retains,
         Reclaim(allocated, retains), allocated \subseteq live,
         \A x \in Written' \cup Read' : x \in live => x \in allocated,
         untilized' \in allocated \cup {NoAddr},
         \A o \in Ops : SlotsOf(o)' \subseteq retains /\ staged'[o] \in retains \cup {NoAddr},
         slot' \in retains \cup {NoAddr}
  PROVE  /\ NothingDangles' /\ WrittenIsNotRead' /\ SlotsAreOwn' /\ VariantsAgree' /\ SettledIsSafe'
         /\ live' \subseteq live
<1> USE DEF IInv
<1>1. /\ Written' \subseteq Written \cup {NoAddr} /\ Read' \subseteq Read \cup {NoAddr}
      /\ \A o \in Ops : SlotsOf(o)' \subseteq SlotsOf(o)
  BY LosesBounds
<1>2. (Written' \cup Read' \cup {untilized'}) \ {NoAddr} \subseteq allocated
  <2>1. (Written \cup Read) \ {NoAddr} \subseteq live
    BY Dangling DEF Kept
  <2> QED BY <1>1, <2>1
<1>3. NothingDangles' /\ live' \subseteq allocated
  BY <1>2, Reclaims
<1>4. slot' # NoAddr => slot' \in retained'
  <2>1. (Held = Written \cup Read \cup {untilized})'
    BY HeldIs, PTL
  <2>2. slot' \in Written'
    BY DEF Written
  <2> QED BY <2>1, <2>2 DEF Reclaim
<1>5. WrittenIsNotRead'
  <2>1. {NoAddr} \cap (Read \cup {NoAddr}) \subseteq {NoAddr} /\ {NoAddr} \cap Written \subseteq {NoAddr}
    OBVIOUS
  <2> QED BY <1>1, <2>1, ApartStays DEF Loses
<1>6. SlotsAreOwn'
  BY <1>1, <1>4, OwnStays DEF Loses
<1>7. VariantsAgree'
  BY LosesAgrees
<1>8. SettledIsSafe'
  <2>1. LatestIsSafe'
    BY <1>3, LatestStays DEF Loses, SettledIsSafe
  <2>2. slot' # NoAddr => <<op', argument'>> \notin settled'
    BY DEF Loses, SettledIsSafe
  <2> QED BY <2>1, <2>2 DEF SettledIsSafe
<1> QED BY <1>3, <1>5, <1>6, <1>7, <1>8

LEMMA AsideStep ==
  ASSUME pc' \in {"idle", "program", "hit", "miss", "stage"}, input' = NoAddr,
         late' = IF pc' = "replay" THEN late ELSE {}
  PROVE  VariantsFit' /\ ReplayReadsTheArgument' /\ OverwritesLate'
BY DEF VariantsFit, ReplayReadsTheArgument, OverwritesLate

\* What the cache and the framework have stays with them.
LEMMA CacheKeeps ==
  ASSUME CacheAssumption, IInv
  PROVE  /\ \A o \in Ops : SlotsOf(o) \subseteq retained /\ staged[o] \in retained \cup {NoAddr}
         /\ slot \in retained \cup {NoAddr}
         /\ untilized \in live \cup {NoAddr}
BY Dangling DEF IInv, Kept, SlotsAreOwn

LEMMA DeleteKeeps ==
  ASSUME CacheAssumption, IInv, TypeOK', InHand', NEW a \in Addrs, Delete(a), BesideStays
  PROVE  IInv'
<1> USE DEF IInv
<1>1. /\ callers' = callers \ {a}
      /\ UNCHANGED <<footprint, variants, staged, cached, pc, op, argument, input, slot, pick, values, settled>>
      /\ Reclaim(live, retained)
  BY DEF Delete
<1>2. Loses
  BY <1>1, EmptiedShrinks DEF Loses
<1>3. \A o \in Ops : SlotsOf(o)' \subseteq retained /\ staged'[o] \in retained \cup {NoAddr}
  <2>1. \A o \in Ops : SlotsOf(o)' = SlotsOf(o) /\ staged'[o] = staged[o]
    BY <1>1 DEF SlotsOf, Indices
  <2> QED BY <2>1, CacheKeeps
<1>4. slot' \in retained \cup {NoAddr}
  BY <1>1, CacheKeeps
<1>5. /\ NothingDangles' /\ WrittenIsNotRead' /\ SlotsAreOwn' /\ VariantsAgree' /\ SettledIsSafe'
      /\ live' \subseteq live
  BY <1>1, <1>2, <1>3, <1>4, CacheKeeps, LosesKeeps
<1>6. VariantsFit'
  BY <1>1 DEF VariantsFit, InputOfCall, Indices
<1>7. ReplayReadsTheArgument'
  BY <1>1 DEF ReplayReadsTheArgument
<1>8. OverwritesLate'
  <2>1. Needed' = Needed
    BY <1>1 DEF Needed, VariantsOf, Indices
  <2> QED BY <1>1, <1>5, <2>1 DEF OverwritesLate
<1> QED BY <1>5, <1>6, <1>7, <1>8

\* A program that ends, and what it leaves of its outputs.
LEMMA AbortKeeps ==
  ASSUME CacheAssumption, IInv, TypeOK', InHand', BesideStays, Abort,
         UNCHANGED <<footprint, cached, variants, staged, callers, op, settled>>,
         NEW gone \in SUBSET Addrs, gone \cap retained = {}, gone \subseteq Outputs,
         Reclaim(live \ gone, retained)
  PROVE  IInv'
<1> USE DEF IInv
<1>1. argument' = NoAddr /\ input' = NoAddr /\ slot' = NoAddr /\ values' = {} /\ pc' = "idle"
  BY DEF Abort
<1>2. Loses
  BY <1>1, EmptiedShrinks DEF Loses
<1>3. \A o \in Ops : SlotsOf(o)' = SlotsOf(o) /\ staged'[o] = staged[o]
  BY DEF SlotsOf, Indices
<1>4. \A o \in Ops : SlotsOf(o)' \subseteq retained /\ staged'[o] \in retained \cup {NoAddr}
  BY <1>3, CacheKeeps
<1>5. /\ Written' \subseteq retained \cup {NoAddr}
      /\ Read' \subseteq Read \cup {NoAddr}
  <2>1. (\A x : x \in AllSlots <=> \E o \in Ops : x \in SlotsOf(o))'
    BY VariantSets, PTL
  <2>2. AllSlots' \subseteq retained /\ Outputs' = {}
    BY <1>1, <1>4, <2>1 DEF Outputs
  <2>3. Written' \subseteq retained \cup {NoAddr}
    BY <1>1, <2>2 DEF Written
  <2> QED BY <1>2, <2>3, LosesBounds
<1>6. \A x \in Written' \cup Read' : x \in live => x \in live \ gone
  <2>1. gone \subseteq Written
    BY DEF Written
  <2>2. gone \cap Read = {} /\ NoAddr \notin gone
    BY <2>1 DEF WrittenIsNotRead, CacheAssumption
  <2> QED BY <1>5, <2>2
<1>7. /\ NothingDangles' /\ WrittenIsNotRead' /\ SlotsAreOwn' /\ VariantsAgree' /\ SettledIsSafe'
      /\ live' \subseteq live
  <2>1. live \ gone \subseteq live /\ slot' \in retained \cup {NoAddr}
    BY <1>1
  <2>2. untilized' \in (live \ gone) \cup {NoAddr}
    BY CacheKeeps DEF WrittenIsNotRead, Written
  <2> QED BY <1>2, <1>4, <1>6, <2>1, <2>2, LosesKeeps
<1>8. VariantsFit' /\ ReplayReadsTheArgument' /\ OverwritesLate'
  BY <1>1, AsideStep
<1> QED BY <1>7, <1>8

LEMMA EndsKeep ==
  ASSUME CacheAssumption, IInv, TypeOK', InHand', BesideStays,
         FinishProgram \/ OutOfMemory \/ CaptureFails
  PROVE  IInv'
<1>1. CASE FinishProgram
  <2> DEFINE gone == {w[2] : w \in {w \in values : w[2] \notin retained}}
  <2>1. gone \subseteq Addrs /\ gone \cap retained = {} /\ gone \subseteq Outputs
    BY DEF IInv, TypeOK, Outputs
  <2>2. /\ Abort /\ Reclaim(live \ gone, retained)
        /\ UNCHANGED <<footprint, cached, variants, staged, callers, op, settled>>
    BY <1>1 DEF FinishProgram
  <2> HIDE DEF gone
  <2> QED BY <2>1, <2>2, AbortKeeps
<1>2. CASE OutOfMemory \/ CaptureFails
  <2>1. /\ Abort /\ Reclaim(live, retained)
        /\ UNCHANGED <<footprint, cached, variants, staged, callers, op, settled>>
    BY <1>2 DEF OutOfMemory, CaptureFails
  <2>2. live \ {} = live /\ {} \in SUBSET Addrs /\ {} \cap retained = {} /\ {} \subseteq Outputs
    OBVIOUS
  <2>3. Reclaim(live \ {}, retained)
    BY <2>1, <2>2
  <2> QED BY <2>1, <2>2, <2>3, AbortKeeps
<1> QED BY <1>1, <1>2

-----------------------------------------------------------------------------
(* Evictions.                                                               *)

LEMMA ReleaseLets ==
  ASSUME TypeOK, NEW ts, ReleaseTraces(ts)
  PROVE  \A t \in Traces : footprint'[t] \subseteq footprint[t]
BY DEF TypeOK, ReleaseTraces

LEMMA SlotsOfOne ==
  ASSUME NEW o
  PROVE  {v.slot : v \in VariantsOf({o})} = SlotsOf(o)
BY DEF VariantsOf, SlotsOf

\* The slots of one op, and what its input is staged in, are no other's.
LEMMA OthersStay ==
  ASSUME CacheAssumption, IInv, NEW e \in Ops, NEW o \in Ops, o # e
  PROVE  /\ SlotsOf(o) \cap (SlotsOf(e) \cup {staged[e]}) = {}
         /\ staged[o] \in SlotsOf(e) \cup {staged[e]} => staged[o] = NoAddr
<1> USE DEF IInv
<1>1. SlotsOf(o) \cap SlotsOf(e) = {} /\ (staged[o] = staged[e] => staged[o] = NoAddr)
  BY DEF SlotsAreOwn
<1>2. SlotsOf(o) \subseteq Written \ {NoAddr} /\ SlotsOf(e) \subseteq Written \ {NoAddr}
  BY Parts, VariantTypes DEF CacheAssumption
<1>3. staged[o] \in Read /\ staged[e] \in Read
  BY Parts
<1> QED BY <1>1, <1>2, <1>3 DEF WrittenIsNotRead

LEMMA EvictEntryKeeps ==
  ASSUME CacheAssumption, IInv, TypeOK', InHand', EvictEntry, BesideStays
  PROVE  IInv'
<1> DEFINE e == Head(lru)
<1>1. lru # << >> /\ lru \in Seq(Ops)
  BY DEF EvictEntry, IInv, TypeOK, CacheAssumption
<1>2. e \in Ops
  BY <1>1, HeadTailProperties
<1>3. /\ pc = "miss" /\ cached' = cached \ {e}
      /\ variants' = [variants EXCEPT ![e] = <<>>]
      /\ staged' = [staged EXCEPT ![e] = NoAddr]
      /\ ReleaseTraces({v.trace : v \in VariantsOf({e})})
      /\ UNCHANGED <<callers, pc, op, argument, input, slot, pick, values, settled>>
      /\ Reclaim(live, retained \ (SlotsOf(e) \cup {staged[e]}))
  BY SlotsOfOne DEF EvictEntry
<1> HIDE DEF e
<1>4. /\ \A o \in Ops : o # e => variants'[o] = variants[o] /\ staged'[o] = staged[o]
      /\ variants'[e] = << >> /\ staged'[e] = NoAddr
  BY <1>2, <1>3 DEF IInv, TypeOK
<1>5. slot' = NoAddr /\ input' = NoAddr
  BY <1>3 DEF IInv, InHand
<1>6. \A o \in Ops : variants'[o] = variants[o] \/ variants'[o] = << >>
  BY <1>4
<1>7. Loses
  BY <1>3, <1>4, <1>6, EmptiedShrinks, ReleaseLets DEF Loses, IInv
<1>8. ASSUME NEW o \in Ops
      PROVE  /\ SlotsOf(o)' \subseteq retained \ (SlotsOf(e) \cup {staged[e]})
             /\ staged'[o] \in (retained \ (SlotsOf(e) \cup {staged[e]})) \cup {NoAddr}
  <2>1. CASE o = e
    <3>1. SlotsOf(o)' = {}
      BY <1>4, <2>1, EmptySeq DEF SlotsOf, Indices
    <3> QED BY <1>4, <2>1, <3>1
  <2>2. CASE o # e
    <3>1. SlotsOf(o)' = SlotsOf(o) /\ staged'[o] = staged[o]
      BY <1>4, <2>2 DEF SlotsOf, Indices
    <3> QED BY <1>2, <2>2, <3>1, OthersStay, CacheKeeps
  <2> QED BY <2>1, <2>2
<1>9. /\ NothingDangles' /\ WrittenIsNotRead' /\ SlotsAreOwn' /\ VariantsAgree' /\ SettledIsSafe'
  BY <1>3, <1>5, <1>7, <1>8, CacheKeeps, LosesKeeps
<1>10. VariantsFit' /\ ReplayReadsTheArgument' /\ OverwritesLate'
  BY <1>3, <1>5, AsideStep
<1> QED BY <1>9, <1>10 DEF IInv

LEMMA EraseKeeps ==
  ASSUME CacheAssumption, IInv, TypeOK', InHand', Erase, BesideStays
  PROVE  IInv'
<1>1. /\ pc = "idle" /\ cached' = {}
      /\ \A o \in Ops : variants'[o] = << >> /\ staged'[o] = NoAddr
      /\ ReleaseTraces({v.trace : v \in VariantsOf(Ops)})
      /\ UNCHANGED <<callers, pc, op, argument, input, slot, pick, values, settled>>
      /\ Reclaim(live, {})
  BY DEF Erase
<1>2. slot' = NoAddr /\ input' = NoAddr
  BY <1>1 DEF IInv, InHand
<1>3. Loses
  BY <1>1, EmptiedShrinks, ReleaseLets DEF Loses, IInv
<1>4. \A o \in Ops : SlotsOf(o)' \subseteq {} /\ staged'[o] \in {} \cup {NoAddr}
  BY <1>1, EmptySeq DEF SlotsOf, Indices
<1>5. /\ NothingDangles' /\ WrittenIsNotRead' /\ SlotsAreOwn' /\ VariantsAgree' /\ SettledIsSafe'
  BY <1>1, <1>2, <1>3, <1>4, CacheKeeps, LosesKeeps
<1>6. VariantsFit' /\ ReplayReadsTheArgument' /\ OverwritesLate'
  BY <1>1, <1>2, AsideStep
<1> QED BY <1>5, <1>6 DEF IInv

LEMMA EvictOldestKeeps ==
  ASSUME CacheAssumption, IInv, TypeOK', NEW replacement, EvictOldestVariant(replacement),
         variants[op] # << >>, slot \in replacement \cup {NoAddr}, BesideStays
  PROVE  /\ NothingDangles' /\ WrittenIsNotRead' /\ SlotsAreOwn' /\ VariantsAgree' /\ SettledIsSafe'
         /\ Shrinks
<1> DEFINE v == Head(variants[op])
           kept == replacement \cup {w.slot : w \in {variants[op][i] : i \in Indices(op) \ {1}}}
<1>0. op \in Ops /\ variants[op] \in Seq(Variants)
  BY DEF IInv, TypeOK
<1>1. /\ variants' = [variants EXCEPT ![op] = Tail(@)]
      /\ ReleaseTraces({v.trace})
      /\ UNCHANGED <<cached, lru, staged, callers, op, argument, input, slot, pick, values, settled>>
      /\ Reclaim(live, retained \ ({v.slot} \ kept))
  BY DEF EvictOldestVariant
<1>2. v.slot \in SlotsOf(op)
  <2>1. v = variants[op][1]
    BY <1>0
  <2>2. 1 \in Indices(op)
    BY <1>0, EmptySeq DEF Indices
  <2> QED BY <2>1, <2>2 DEF SlotsOf
<1>3. SlotsOf(op)' \subseteq kept
  <2>1. /\ variants'[op] = Tail(variants[op])
        /\ op' = op
    BY <1>1 DEF IInv, TypeOK
  <2>2. /\ Len(Tail(variants[op])) = Len(variants[op]) - 1 /\ Len(variants[op]) \in Nat
        /\ \A i \in 1 .. Len(Tail(variants[op])) : Tail(variants[op])[i] = variants[op][i + 1]
    BY <1>0, HeadTailProperties, LenProperties
  <2>3. \A i \in 1 .. Len(variants'[op]) : i + 1 \in Indices(op) \ {1} /\ variants'[op][i] = variants[op][i + 1]
    BY <2>1, <2>2 DEF Indices
  <2>4. \A i \in 1 .. Len(variants'[op]) : variants'[op][i].slot \in kept
    BY <2>3
  <2>5. SlotsOf(op)' = {variants'[op][i].slot : i \in 1 .. Len(variants'[op])}
    BY <2>1 DEF SlotsOf, Indices
  <2> HIDE DEF kept
  <2> QED BY <2>4, <2>5
<1> HIDE DEF v
<1>4. Shrinks
  BY <1>1, TailShrinks DEF IInv
<1>5. Loses
  BY <1>1, <1>4, ReleaseLets DEF Loses, IInv
<1>6. slot \in kept \cup {NoAddr}
  OBVIOUS
<1> HIDE DEF kept
<1>7. ASSUME NEW o \in Ops
      PROVE  /\ SlotsOf(o)' \subseteq retained \ ({v.slot} \ kept)
             /\ staged'[o] \in (retained \ ({v.slot} \ kept)) \cup {NoAddr}
  <2>1. SlotsOf(o)' \subseteq retained /\ staged'[o] = staged[o] /\ staged[o] \in retained \cup {NoAddr}
    BY <1>1, <1>4, CacheKeeps, Shrunk DEF IInv
  <2>2. staged[o] = v.slot => staged[o] = NoAddr
    BY <1>0, <1>2, Parts DEF WrittenIsNotRead, IInv
  <2>3. v.slot \in SlotsOf(o)' => v.slot \in kept
    <3>1. CASE o = op
      BY <1>1, <1>3, <3>1
    <3>2. CASE o # op
      BY <1>0, <1>2, <1>4, <3>2, OthersStay, Shrunk DEF IInv
    <3> QED BY <3>1, <3>2
  <2> QED BY <2>1, <2>2, <2>3
<1>8. slot' \in (retained \ ({v.slot} \ kept)) \cup {NoAddr}
  BY <1>1, <1>6, CacheKeeps
<1>9. retained \ ({v.slot} \ kept) \subseteq retained /\ live \subseteq live
  OBVIOUS
<1> QED BY <1>1, <1>4, <1>5, <1>7, <1>8, <1>9, CacheKeeps, LosesKeeps

-----------------------------------------------------------------------------
(* Steps on the way to a replay or a capture.                               *)

LEMMA QuietKeeps ==
  ASSUME CacheAssumption, IInv, TypeOK', BesideStays,
         UNCHANGED <<live, footprint, cached, variants, staged, retained, callers, values, settled>>,
         argument' \in Read \cup {NoAddr}, input' \in Read \cup {NoAddr},
         slot' = NoAddr \/ (slot' \in SlotsOf(op') \cup {slot} /\ op' = op),
         slot' # NoAddr => <<op', argument'>> \notin settled
  PROVE  NothingDangles' /\ WrittenIsNotRead' /\ SlotsAreOwn' /\ VariantsAgree' /\ SettledIsSafe'
<1> USE DEF IInv
<1>1. \A o \in Ops : /\ SlotsOf(o)' = SlotsOf(o) /\ InputsOf(o)' = InputsOf(o)
                     /\ staged'[o] = staged[o] /\ Indices(o)' = Indices(o)
  BY DEF SlotsOf, InputsOf, Indices
<1>2. op' \in Ops
  BY DEF TypeOK
<1>3. slot' \in Written \cup {NoAddr} /\ (slot' # NoAddr => slot' \in retained)
  <2>1. CASE slot' = NoAddr
    BY <2>1
  <2>2. CASE slot' \in SlotsOf(op') /\ op' = op
    BY <1>2, <2>2, Parts, CacheKeeps
  <2>3. CASE slot' = slot
    BY <2>3, CacheKeeps DEF Written
  <2> QED BY <2>1, <2>2, <2>3
<1>4. Written' \subseteq Written \cup {NoAddr} /\ Read' \subseteq Read \cup {NoAddr}
  <2>1. \A o \in Ops : /\ SlotsOf(o)' \subseteq Written \cup {NoAddr}
                       /\ InputsOf(o)' \subseteq Read \cup {NoAddr}
                       /\ staged'[o] \in Read \cup {NoAddr}
    BY <1>1, Parts
  <2>2. callers' \subseteq Read \cup {NoAddr} /\ Outputs' \subseteq Written \cup {NoAddr}
    BY OutputsShrink DEF Read
  <2> QED BY <1>3, <2>1, <2>2, Bounds
<1>5. WrittenIsNotRead'
  <2>1. {NoAddr} \cap (Read \cup {NoAddr}) \subseteq {NoAddr} /\ {NoAddr} \cap Written \subseteq {NoAddr}
    OBVIOUS
  <2> QED BY <1>4, <2>1, ApartStays
<1>6. NothingDangles'
  <2>1. (NothingDangles <=> Kept)'
    BY Dangling, PTL
  <2>2. (Written \cup Read \cup {untilized}) \ {NoAddr} \subseteq live
    BY Dangling DEF Kept
  <2>3. (Written' \cup Read' \cup {untilized'}) \ {NoAddr} \subseteq live'
    BY <1>4, <2>2
  <2> QED BY <1>1, <2>1, <2>3, CacheKeeps DEF Kept
<1>7. SlotsAreOwn'
  <2>1. \A o, q \in Ops : o # q => SlotsOf(o)' \cap SlotsOf(q)' = {}
    BY <1>1 DEF SlotsAreOwn
  <2>2. ASSUME NEW o \in Ops, o # op' PROVE slot' \notin SlotsOf(o)'
    <3>1. NoAddr \notin SlotsOf(o)
      BY VariantTypes DEF CacheAssumption
    <3>2. op' = op => slot \notin SlotsOf(o)
      BY <2>2 DEF SlotsAreOwn
    <3>3. SlotsOf(o) \cap SlotsOf(op') = {}
      BY <1>2, <2>2 DEF SlotsAreOwn
    <3>4. SlotsOf(op') = SlotsOf(op)' \/ op' # op
      BY <1>1, <1>2
    <3> QED BY <1>1, <3>1, <3>2, <3>3
  <2>3. \A o, q \in Ops : o # q /\ staged'[o] = staged'[q] => staged'[o] = NoAddr
    BY <1>1 DEF SlotsAreOwn
  <2> QED BY <1>3, <2>1, <2>2, <2>3 DEF SlotsAreOwn
<1>8. VariantsAgree'
  BY <1>1 DEF VariantsAgree
<1>9. SettledIsSafe'
  <2>1. LatestIsSafe => LatestIsSafe'
    BY DEF LatestIsSafe, Fitting, Safe, Indices
  <2> QED BY <2>1 DEF SettledIsSafe
<1> QED BY <1>5, <1>6, <1>7, <1>8, <1>9

LEMMA NoSlotYet ==
  ASSUME InHand, pc \notin {"evict", "capture"}
  PROVE  slot = NoAddr /\ input = NoAddr
BY DEF InHand

LEMMA ProgramKeeps ==
  ASSUME CacheAssumption, IInv, TypeOK', InHand', BesideStays,
         (\E a \in Addrs : StartProgram(a)) \/ (\E o \in Ops : Run(o))
  PROVE  IInv'
<1>1. /\ UNCHANGED <<live, footprint, cached, variants, staged, retained, callers, values, settled, input, slot>>
      /\ pc \in {"idle", "program"} /\ pc' \in {"program", "hit", "miss"}
      /\ argument' \in Read
  BY DEF StartProgram, Run, Read
<1>2. slot' = NoAddr /\ input' = NoAddr
  BY <1>1, NoSlotYet DEF IInv
<1>3. NothingDangles' /\ WrittenIsNotRead' /\ SlotsAreOwn' /\ VariantsAgree' /\ SettledIsSafe'
  BY <1>1, <1>2, QuietKeeps
<1>4. VariantsFit' /\ ReplayReadsTheArgument' /\ OverwritesLate'
  BY <1>1, <1>2, AsideStep
<1> QED BY <1>3, <1>4 DEF IInv

LEMMA StageMovedInputsKeeps ==
  ASSUME CacheAssumption, IInv, TypeOK', InHand', BesideStays, StageMovedInputs
  PROVE  IInv'
<1>1. /\ pc = "hit" /\ pc' = IF Moved THEN "stage" ELSE "find"
      /\ UNCHANGED <<live, footprint, cached, variants, staged, retained, callers, op, argument,
                    input, slot, values, settled>>
  BY DEF StageMovedInputs
<1>2. slot' = NoAddr /\ input' = NoAddr
  BY <1>1, NoSlotYet DEF IInv
<1>3. NothingDangles' /\ WrittenIsNotRead' /\ SlotsAreOwn' /\ VariantsAgree' /\ SettledIsSafe'
  BY <1>1, <1>2, QuietKeeps DEF Read
<1>4. ASSUME pc' = "find", op \in Stageable, NEW i \in Indices(op)
      PROVE  variants[op][i].input = InputOfCall
  <2>0. ~Moved /\ op \in Ops
    BY <1>1, <1>4 DEF IInv, TypeOK
  <2>1. PICK n \in Nat : n = Len(variants[op])
    BY VariantTypes DEF IInv, TypeOK
  <2>2. variants[op] # << >> /\ 1 \in Indices(op)
    BY <1>4, <2>1, EmptySeq DEF Indices
  <2>3. \A k, l \in Indices(op) : /\ variants[op][k].input = variants[op][l].input
                                  /\ staged[op] # NoAddr => variants[op][k].input = staged[op]
    BY <1>4 DEF IInv, VariantsAgree
  <2>4. variants[op][i].input = variants[op][1].input
    BY <1>4, <2>2, <2>3
  <2>5. staged[op] # NoAddr => variants[op][i].input = staged[op]
    BY <1>4, <2>3
  <2> QED BY <1>4, <2>0, <2>2, <2>4, <2>5 DEF Moved, InputOfCall
<1>5. VariantsFit'
  BY <1>1, <1>2, <1>4 DEF VariantsFit, InputOfCall, Indices
<1>6. ReplayReadsTheArgument' /\ OverwritesLate'
  BY <1>1 DEF ReplayReadsTheArgument, OverwritesLate
<1> QED BY <1>3, <1>5, <1>6 DEF IInv

\* Matching are the variants for the argument, Replayable the safe ones among them.
LEMMA MatchingFits ==
  ASSUME IInv, CacheAssumption
  PROVE  /\ Matching = Fitting(op, argument)
         /\ Replayable = {i \in Matching : Safe(variants[op][i])}
         /\ Matching # {} => Latest(Matching) \in Matching /\ \A j \in Matching : j <= Latest(Matching)
         /\ Replayable # {} => Latest(Replayable) \in Replayable
<1> USE DEF IInv
<1>0. op \in Ops
  BY DEF TypeOK
<1>1. \A i \in Indices(op) : variants[op][i].input \in live
  <2>1. InputsOf(op) \subseteq Read \ {NoAddr}
    BY <1>0, Parts, VariantTypes DEF CacheAssumption
  <2> QED BY <2>1, Dangling DEF Kept, InputsOf
<1>2. Matching = Fitting(op, argument)
  BY <1>1 DEF Matching, DeviceInputsMatch, Fitting
<1>3. \A i \in Indices(op) : variants[op][i].trace \in Traces
  BY <1>0, VariantTypes DEF Variants
<1>4. Replayable = {i \in Matching : Safe(variants[op][i])}
  BY <1>3, SafeIs DEF Replayable, Matching, Safe, TypeOK
<1>5. PICK n \in Nat : Indices(op) = 1 .. n
  BY <1>0, VariantTypes DEF Indices
<1>6. Matching \subseteq 1 .. n /\ Replayable \subseteq 1 .. n
  BY <1>5 DEF Matching, Replayable
<1>7. Matching # {} => Latest(Matching) \in Matching /\ \A j \in Matching : j <= Latest(Matching)
  BY <1>6, HasLatest
<1>8. Replayable # {} => Latest(Replayable) \in Replayable
  BY <1>6, HasLatest
<1> QED BY <1>2, <1>4, <1>7, <1>8

LEMMA FindVariantKeeps ==
  ASSUME CacheAssumption, IInv, TypeOK', InHand', BesideStays, FindVariant
  PROVE  IInv'
<1>1. /\ pc = "find" /\ pc' = "replay" /\ pick' = Latest(Replayable) /\ Replayable # {}
      /\ UNCHANGED <<live, footprint, cached, variants, staged, retained, callers, op, argument,
                    input, slot, values, settled>>
  BY DEF FindVariant
<1>2. slot' = NoAddr /\ input' = NoAddr
  BY <1>1, NoSlotYet DEF IInv
<1>3. NothingDangles' /\ WrittenIsNotRead' /\ SlotsAreOwn' /\ VariantsAgree' /\ SettledIsSafe'
  BY <1>1, <1>2, QuietKeeps DEF Read
<1>4. VariantsFit'
  BY <1>1, <1>2 DEF IInv, VariantsFit, InputOfCall, Indices
<1>5. pick' \in Fitting(op, argument) /\ Safe(variants[op][pick'])
  BY <1>1, MatchingFits
<1>6. ReplayReadsTheArgument'
  <2>1. op \in Stageable => variants[op][pick'].input = InputOfCall
    BY <1>1, <1>5 DEF IInv, VariantsFit, Fitting
  <2>2. op \notin Stageable => variants[op][pick'].input = argument /\ staged[op] = NoAddr
    BY <1>5 DEF Fitting, IInv, VariantsAgree, TypeOK
  <2> QED BY <1>1, <2>1, <2>2 DEF ReplayReadsTheArgument, InputOfCall
<1>7. OverwritesLate'
  <2>1. late' = {}
    BY <1>1 DEF IInv, OverwritesLate
  <2>2. (footprint[variants[op][pick].trace] \cap live)' = {}
    BY <1>1, <1>5 DEF Safe
  <2> QED BY <1>1, <2>1, <2>2 DEF OverwritesLate
<1> QED BY <1>3, <1>4, <1>6, <1>7 DEF IInv

LEMMA FindSlotsKeeps ==
  ASSUME CacheAssumption, IInv, TypeOK', InHand', BesideStays, FindSlots
  PROVE  IInv'
<1> DEFINE v == variants[op][Latest(Matching)]
<1>1. /\ pc = "find" /\ pc' = "evict" /\ Replayable = {}
      /\ Matching # {} => input' = v.input /\ slot' = v.slot
      /\ Matching = {} => input' = input /\ slot' = slot
      /\ UNCHANGED <<live, footprint, cached, variants, staged, retained, callers, op, argument,
                    values, settled>>
  BY DEF FindSlots
<1>2. slot = NoAddr /\ input = NoAddr
  BY <1>1, NoSlotYet DEF IInv
<1>3. op \in Ops
  BY DEF IInv, TypeOK
<1>4. Matching # {} => /\ Latest(Matching) \in Fitting(op, argument) /\ Latest(Matching) \in Indices(op)
                       /\ \A j \in Fitting(op, argument) : j <= Latest(Matching)
                       /\ ~Safe(v)
  BY <1>1, MatchingFits DEF Fitting
<1>5. Matching # {} => v.input \in Read /\ v.slot \in SlotsOf(op)
  BY <1>3, <1>4, Parts DEF SlotsOf, InputsOf
<1>6. slot' # NoAddr => <<op, argument>> \notin settled
  <2> SUFFICES ASSUME slot' # NoAddr, <<op, argument>> \in settled
               PROVE  FALSE
    OBVIOUS
  <2>1. Matching # {}
    BY <1>1, <1>2
  <2>2. argument \in Addrs /\ LatestIsSafe
    BY <1>1 DEF IInv, TypeOK, InHand, SettledIsSafe, Slots
  <2>3. Safe(v)
    BY <1>3, <1>4, <2>1, <2>2 DEF LatestIsSafe
  <2> QED BY <1>4, <2>1, <2>3
<1>7. Matching # {} => v.input = InputOfCall
  <2>1. op \in Stageable => (Matching # {} => v.input = InputOfCall)
    BY <1>1, <1>4 DEF IInv, VariantsFit
  <2>2. op \notin Stageable => staged[op] = NoAddr /\ (Matching # {} => v.input = argument)
    BY <1>3, <1>4 DEF Fitting, IInv, VariantsAgree
  <2> QED BY <2>1, <2>2 DEF InputOfCall
<1> HIDE DEF v
<1>8. SlotsOf(op') = SlotsOf(op)
  BY <1>1
<1>9. NothingDangles' /\ WrittenIsNotRead' /\ SlotsAreOwn' /\ VariantsAgree' /\ SettledIsSafe'
  <2>1. argument' \in Read
    BY <1>1 DEF Read
  <2>2. input' \in Read \cup {NoAddr} /\ (slot' = NoAddr \/ slot' \in SlotsOf(op'))
    BY <1>1, <1>2, <1>5, <1>8
  <2> QED BY <1>1, <1>6, <2>1, <2>2, QuietKeeps
<1>10. VariantsFit'
  <2>1. InputOfCall' = InputOfCall
    BY <1>1 DEF InputOfCall
  <2>2. input' # NoAddr => input' = InputOfCall
    BY <1>1, <1>2, <1>7
  <2>3. op \in Stageable => \A i \in Indices(op) : variants[op][i].input = InputOfCall
    BY <1>1 DEF IInv, VariantsFit
  <2> QED BY <1>1, <2>1, <2>2, <2>3 DEF VariantsFit, Indices
<1>11. ReplayReadsTheArgument' /\ OverwritesLate'
  BY <1>1 DEF ReplayReadsTheArgument, OverwritesLate
<1> QED BY <1>9, <1>10, <1>11 DEF IInv

LEMMA RoomKeeps ==
  ASSUME CacheAssumption, IInv, TypeOK', InHand', BesideStays, StageEvicts \/ MakeRoom
  PROVE  IInv'
<1>0. op \in Ops /\ variants[op] \in Seq(Variants)
  BY DEF IInv, TypeOK
<1>1. CASE StageEvicts
  <2>1. slot = NoAddr /\ input = NoAddr
    BY <1>1, NoSlotYet DEF IInv, StageEvicts
  <2>2. /\ variants[op] # << >> /\ EvictOldestVariant({}) /\ pc' = "stage" /\ input' = input
    BY <1>1 DEF StageEvicts, EvictOldestVariant
  <2>3. NothingDangles' /\ WrittenIsNotRead' /\ SlotsAreOwn' /\ VariantsAgree' /\ SettledIsSafe'
    BY <2>1, <2>2, EvictOldestKeeps
  <2>4. VariantsFit' /\ ReplayReadsTheArgument' /\ OverwritesLate'
    BY <2>1, <2>2, AsideStep
  <2> QED BY <2>3, <2>4 DEF IInv
<1>2. CASE MakeRoom
  <2>1. /\ pc = "evict" /\ pc' \in {"slots", "capture"}
        /\ UNCHANGED <<staged, op, argument, input, slot>>
    BY <1>2 DEF MakeRoom, EvictOldestVariant
  <2>2. CASE Len(variants[op]) = MaxVariants
    <3>1. EvictOldestVariant({input, slot}) /\ variants[op] # << >>
      BY <1>0, <1>2, <2>2, EmptySeq DEF MakeRoom, CacheAssumption
    <3>2. /\ NothingDangles' /\ WrittenIsNotRead' /\ SlotsAreOwn' /\ VariantsAgree' /\ SettledIsSafe'
          /\ Shrinks
      BY <3>1, EvictOldestKeeps
    <3>3. \A i \in Indices(op)' : \E j \in Indices(op) : variants'[op][i] = variants[op][j]
      BY <1>0, <2>1, <3>2, Shrunk DEF IInv, Indices
    <3>4. op \in Stageable => \A i \in Indices(op)' : variants'[op][i].input = InputOfCall
      BY <2>1, <3>3 DEF IInv, VariantsFit
    <3>5. VariantsFit'
      BY <2>1, <3>4 DEF IInv, VariantsFit, InputOfCall, Indices
    <3>6. ReplayReadsTheArgument' /\ OverwritesLate'
      BY <2>1 DEF ReplayReadsTheArgument, OverwritesLate
    <3> QED BY <3>2, <3>5, <3>6 DEF IInv
  <2>3. CASE Len(variants[op]) # MaxVariants
    <3>1. UNCHANGED <<live, footprint, cached, variants, staged, retained, callers, op, argument,
                      input, slot, values, settled>>
      BY <1>2, <2>3 DEF MakeRoom
    <3>2. input' \in Read /\ argument' \in Read /\ (slot' # NoAddr => <<op', argument'>> \notin settled)
      BY <3>1 DEF Read, IInv, SettledIsSafe
    <3>3. NothingDangles' /\ WrittenIsNotRead' /\ SlotsAreOwn' /\ VariantsAgree' /\ SettledIsSafe'
      BY <3>1, <3>2, QuietKeeps
    <3>4. VariantsFit'
      BY <2>1, <3>1 DEF IInv, VariantsFit, InputOfCall, Indices
    <3>5. ReplayReadsTheArgument' /\ OverwritesLate'
      BY <2>1 DEF ReplayReadsTheArgument, OverwritesLate
    <3> QED BY <3>3, <3>4, <3>5 DEF IInv
  <2> QED BY <2>2, <2>3
<1> QED BY <1>1, <1>2

-----------------------------------------------------------------------------
(* Allocations.                                                             *)

LEMMA FreshKeeps ==
  ASSUME CacheAssumption, IInv,
         NEW a \in Addrs, a \notin live, live' = live \cup {a}, settled' = {},
         NEW R, NEW W,
         \/ ((R = {a} /\ W = {}) \/ (R = {} /\ W = {a})) /\ untilized' = untilized
         \/ R = {} /\ W = {} /\ untilized' = a,
         UNCHANGED <<variants, values, argument>>, retained \subseteq retained',
         callers' \subseteq callers \cup R, input' \in Read, slot' \in {slot} \cup W,
         \A o \in Ops : staged'[o] = staged[o] \/ (staged'[o] \in R /\ a \in retained')
  PROVE  NothingDangles' /\ WrittenIsNotRead' /\ SettledIsSafe'
<1> USE DEF IInv
<1>1. \A o \in Ops : SlotsOf(o)' = SlotsOf(o) /\ InputsOf(o)' = InputsOf(o)
  BY DEF SlotsOf, InputsOf, Indices
<1>2. Written' \subseteq Written \cup W /\ Read' \subseteq Read \cup R
  <2>1. \A o \in Ops : /\ SlotsOf(o)' \subseteq Written \cup W
                       /\ InputsOf(o)' \subseteq Read \cup R
                       /\ staged'[o] \in Read \cup R
    BY <1>1, Parts
  <2>2. /\ callers' \subseteq Read \cup R /\ Outputs' \subseteq Written \cup W
        /\ argument' \in Read \cup R /\ slot' \in Written \cup W
    BY OutputsShrink DEF Read, Written
  <2> QED BY <2>1, <2>2, Bounds
<1>3. a \notin Written \cup Read \cup {untilized}
  BY FreshIsFree
<1>4. WrittenIsNotRead'
  <2>1. W \cap (Read \cup R) \subseteq {NoAddr} /\ R \cap Written \subseteq {NoAddr}
    BY <1>3
  <2> QED BY <1>2, <1>3, <2>1, ApartStays
<1>5. NothingDangles'
  <2>1. (NothingDangles <=> Kept)'
    BY Dangling, PTL
  <2>2. (Written \cup Read \cup {untilized}) \ {NoAddr} \subseteq live
    BY Dangling DEF Kept
  <2>3. (Written' \cup Read' \cup {untilized'}) \ {NoAddr} \subseteq live'
    BY <1>2, <2>2
  <2>4. \A o \in Ops : SlotsOf(o)' \subseteq retained'
    BY <1>1, CacheKeeps
  <2>5. \A o \in Ops : staged'[o] \in retained' \cup {NoAddr}
    BY CacheKeeps
  <2> QED BY <2>1, <2>3, <2>4, <2>5 DEF Kept
<1>6. SettledIsSafe'
  BY DEF SettledIsSafe, LatestIsSafe
<1> QED BY <1>4, <1>5, <1>6

LEMMA FrameworkKeeps ==
  ASSUME CacheAssumption, IInv, TypeOK', InHand', NEW a \in Addrs,
         (Create(a) /\ BesideStays) \/ Copy(a) \/ Untilize(a)
  PROVE  IInv'
<1>1. /\ a \notin live /\ live' = live \cup {a} /\ settled' = {}
      /\ \/ callers' = callers \cup {a} /\ untilized' = untilized
         \/ callers' = callers /\ untilized' = a
      /\ UNCHANGED <<footprint, pooled, cached, lru, variants, staged, retained, pc, op,
                    argument, input, slot, pick, values>>
      /\ late' = IF pc = "replay" THEN late \cup {a} ELSE {}
  BY DEF Create, Copy, Untilize, AllocatesBeside, Takes
<1>2. NothingDangles' /\ WrittenIsNotRead' /\ SettledIsSafe'
  <2>1. input' \in Read /\ slot' \in {slot} \cup {}
    BY <1>1 DEF Read
  <2>2. CASE callers' = callers \cup {a} /\ untilized' = untilized
    BY <1>1, <2>1, <2>2, FreshKeeps
  <2>3. CASE callers' = callers /\ untilized' = a
    BY <1>1, <2>1, <2>3, FreshKeeps
  <2> QED BY <1>1, <2>2, <2>3
<1>3. \A o \in Ops : SlotsOf(o)' = SlotsOf(o) /\ Indices(o)' = Indices(o)
  BY <1>1 DEF SlotsOf, Indices
<1>4. SlotsAreOwn'
  BY <1>1, <1>3 DEF IInv, SlotsAreOwn
<1>5. VariantsAgree'
  BY <1>1 DEF IInv, VariantsAgree, Indices
<1>6. VariantsFit'
  BY <1>1 DEF IInv, VariantsFit, Indices, InputOfCall
<1>7. ReplayReadsTheArgument'
  BY <1>1 DEF IInv, ReplayReadsTheArgument
<1>8. OverwritesLate'
  <2>1. Needed' = Needed
    BY <1>1 DEF Needed, VariantsOf, Indices
  <2>2. a \notin Needed
    BY <1>1, FreshIsFree, HeldIs, NeededIsHeld DEF IInv
  <2> QED BY <1>1, <2>1, <2>2 DEF IInv, OverwritesLate
<1> QED BY <1>2, <1>4, <1>5, <1>6, <1>7, <1>8 DEF IInv

\* A read lets go of what it untilized into.
LEMMA EnqueueReadKeeps ==
  ASSUME CacheAssumption, IInv, TypeOK', InHand', EnqueueRead
  PROVE  IInv'
<1> USE DEF IInv
<1>1. /\ untilized' = NoAddr /\ live' = live \ {untilized} /\ untilized # NoAddr
      /\ UNCHANGED <<footprint, cached, variants, staged, retained, callers, pc, op, argument,
                    input, slot, pick, values, late, settled>>
  BY DEF EnqueueRead
<1>2. /\ Written' = Written /\ Read' = Read /\ Needed' = Needed
      /\ \A o \in Ops : SlotsOf(o)' = SlotsOf(o) /\ Indices(o)' = Indices(o)
  BY <1>1 DEF Written, Read, Needed, AllSlots, AllInputs, Stagings, Outputs, VariantsOf, SlotsOf, Indices
<1>3. NothingDangles'
  <2>1. (NothingDangles <=> Kept)'
    BY Dangling, PTL
  <2>2. (Written \cup Read) \ {NoAddr} \subseteq live /\ untilized \notin Written \cup Read
    BY <1>1, Dangling DEF Kept, WrittenIsNotRead
  <2> QED BY <1>1, <1>2, <2>1, <2>2, CacheKeeps DEF Kept
<1>4. WrittenIsNotRead' /\ SlotsAreOwn' /\ VariantsAgree'
  BY <1>1, <1>2 DEF WrittenIsNotRead, SlotsAreOwn, VariantsAgree
<1>5. VariantsFit' /\ ReplayReadsTheArgument'
  BY <1>1, <1>2 DEF VariantsFit, ReplayReadsTheArgument, InputOfCall, Indices
<1>6. OverwritesLate'
  BY <1>1, <1>2 DEF OverwritesLate
<1>7. SettledIsSafe'
  BY <1>1 DEF SettledIsSafe, LatestIsSafe, Fitting, Safe, Indices
<1> QED BY <1>3, <1>4, <1>5, <1>6, <1>7

LEMMA AllocateSlotsKeeps ==
  ASSUME CacheAssumption, IInv, TypeOK', InHand', BesideStays,
         NEW a \in Addrs, AllocateSlots(a)
  PROVE  IInv'
<1> USE DEF IInv
<1>1. /\ a \notin live /\ live' = live \cup {a} /\ settled' = {} /\ retained' = retained \cup {a}
      /\ slot' = a /\ pc' = "capture" /\ pc \in {"miss", "slots"}
      /\ UNCHANGED <<footprint, pooled, cached, lru, variants, staged, callers, op, argument, pick, values>>
      /\ input' = InputOfCall
  BY DEF AllocateSlots, Takes, InputOfCall
<1>2. op \in Ops
  BY DEF TypeOK
<1>3. NothingDangles' /\ WrittenIsNotRead' /\ SettledIsSafe'
  <2>1. input' \in Read
    BY <1>1, <1>2, Parts DEF InputOfCall, Read
  <2> QED BY <1>1, <2>1, FreshKeeps
<1>4. SlotsAreOwn'
  <2>1. \A o \in Ops : SlotsOf(o)' = SlotsOf(o) /\ a \notin SlotsOf(o)
    BY <1>1, FreshIsFree, Parts DEF SlotsOf, Indices
  <2> QED BY <1>1, <2>1 DEF SlotsAreOwn
<1>5. VariantsAgree'
  BY <1>1 DEF VariantsAgree, Indices
<1>6. VariantsFit'
  <2>1. ASSUME op \in Stageable, NEW i \in Indices(op)
        PROVE  variants[op][i].input = InputOfCall
    <3>1. CASE pc = "slots"
      BY <2>1, <3>1 DEF VariantsFit
    <3>2. CASE pc = "miss"
      <4>1. variants[op] = << >>
        BY <1>2, <3>2 DEF VariantsAgree, InHand
      <4> QED BY <2>1, <4>1, EmptySeq DEF Indices
    <3> QED BY <1>1, <3>1, <3>2
  <2>2. InputOfCall' = InputOfCall
    BY <1>1 DEF InputOfCall
  <2> QED BY <1>1, <2>1, <2>2 DEF VariantsFit, Indices
<1>7. ReplayReadsTheArgument' /\ OverwritesLate'
  BY <1>1 DEF ReplayReadsTheArgument, OverwritesLate
<1> QED BY <1>3, <1>4, <1>5, <1>6, <1>7

LEMMA StageInputKeeps ==
  ASSUME CacheAssumption, IInv, TypeOK', InHand', BesideStays,
         NEW a \in Addrs, StageInput(a)
  PROVE  IInv'
<1> USE DEF IInv
<1>1. /\ a \notin live /\ live' = live \cup {a} /\ settled' = {} /\ retained' = retained \cup {a}
      /\ pc = "stage" /\ pc' = "find" /\ variants[op] = << >>
      /\ staged' = [staged EXCEPT ![op] = a]
      /\ UNCHANGED <<footprint, pooled, cached, lru, variants, callers, op, argument, input, slot, pick, values>>
  BY DEF StageInput, Takes
<1>2. op \in Ops /\ op \in Stageable /\ op \in cached
  BY <1>1 DEF TypeOK, InHand
<1>3. \A o \in Ops : staged'[o] = IF o = op THEN a ELSE staged[o]
  BY <1>1, <1>2 DEF TypeOK
<1>4. slot' = NoAddr /\ input' = NoAddr
  BY <1>1, NoSlotYet
<1>5. NothingDangles' /\ WrittenIsNotRead' /\ SettledIsSafe'
  <2>1. input' \in Read /\ slot' \in {slot} \cup {}
    BY <1>1 DEF Read
  <2> QED BY <1>1, <1>3, <2>1, FreshKeeps
<1>6. SlotsAreOwn'
  <2>1. \A o \in Ops : SlotsOf(o)' = SlotsOf(o) /\ NoAddr \notin SlotsOf(o)
    BY <1>1, VariantTypes DEF SlotsOf, Indices, CacheAssumption
  <2>2. \A o \in Ops : staged[o] # a
    BY <1>1, FreshIsFree, Parts
  <2>3. \A o, q \in Ops : o # q /\ staged'[o] = staged'[q] => staged'[o] = NoAddr
    BY <1>3, <2>2 DEF SlotsAreOwn
  <2> QED BY <1>4, <2>1, <2>3 DEF SlotsAreOwn
<1>7. VariantsAgree'
  <2>1. \A o \in Ops \ cached' : variants'[o] = << >> /\ staged'[o] = NoAddr
    BY <1>1, <1>2, <1>3 DEF VariantsAgree
  <2>2. \A o \in Ops \ Stageable : staged'[o] = NoAddr
    BY <1>2, <1>3 DEF VariantsAgree
  <2>3. Indices(op) = {}
    BY <1>1, EmptySeq DEF Indices
  <2>4. \A o \in Stageable : \A i, j \in Indices(o)' :
          /\ variants'[o][i].input = variants'[o][j].input
          /\ staged'[o] # NoAddr => variants'[o][i].input = staged'[o]
    <3> SUFFICES ASSUME NEW o \in Stageable, NEW i \in Indices(o), NEW j \in Indices(o)
                 PROVE  /\ variants[o][i].input = variants[o][j].input
                        /\ staged'[o] # NoAddr => variants[o][i].input = staged'[o]
      BY <1>1 DEF Indices
    <3>1. o # op /\ o \in Ops
      BY <2>3 DEF CacheAssumption
    <3> QED BY <1>3, <3>1 DEF VariantsAgree
  <2> QED BY <2>1, <2>2, <2>4 DEF VariantsAgree
<1>8. VariantsFit'
  <2>1. Indices(op)' = {}
    BY <1>1, EmptySeq DEF Indices
  <2> QED BY <1>1, <1>4, <2>1 DEF VariantsFit
<1>9. ReplayReadsTheArgument' /\ OverwritesLate'
  BY <1>1 DEF ReplayReadsTheArgument, OverwritesLate
<1> QED BY <1>5, <1>6, <1>7, <1>8, <1>9

-----------------------------------------------------------------------------
(* Captures and replays.                                                    *)

\* What an op ran into is its own, and nothing else changes hands.
LEMMA RunsKeep ==
  ASSUME CacheAssumption, IInv, TypeOK', NEW s \in (SlotsOf(op) \cup {slot}) \ {NoAddr},
         UNCHANGED <<live, staged, retained, callers, untilized, op, argument>>,
         \A o \in Ops \ {op} : variants'[o] = variants[o],
         SlotsOf(op)' \subseteq SlotsOf(op) \cup {s}, InputsOf(op)' \subseteq InputsOf(op) \cup {input},
         values' = values \cup {<<op, s>>}, input' = NoAddr, slot' = NoAddr
  PROVE  NothingDangles' /\ WrittenIsNotRead' /\ SlotsAreOwn'
<1> USE DEF IInv
<1>0. op \in Ops
  BY DEF TypeOK
<1>1. \A o \in Ops \ {op} : SlotsOf(o)' = SlotsOf(o) /\ InputsOf(o)' = InputsOf(o)
  BY DEF SlotsOf, InputsOf, Indices
<1>2. s \in Written /\ s \in retained /\ \A o \in Ops \ {op} : s \notin SlotsOf(o)
  <2>1. CASE s = slot
    BY <2>1, CacheKeeps DEF Written, SlotsAreOwn
  <2>2. CASE s \in SlotsOf(op)
    BY <1>0, <2>2, CacheKeeps, Parts DEF SlotsAreOwn
  <2> QED BY <2>1, <2>2
<1>3. Written' \subseteq Written \cup {NoAddr} /\ Read' \subseteq Read \cup {NoAddr}
  <2>1. Outputs' \subseteq Written \cup {NoAddr}
    BY <1>2 DEF Outputs, Written
  <2>2. input \in Read /\ argument \in Read /\ callers \subseteq Read
    BY DEF Read
  <2>3. \A o \in Ops : /\ SlotsOf(o)' \subseteq Written \cup {NoAddr}
                       /\ InputsOf(o)' \subseteq Read \cup {NoAddr}
                       /\ staged'[o] \in Read \cup {NoAddr}
    BY <1>0, <1>1, <1>2, <2>2, Parts
  <2> QED BY <2>1, <2>2, <2>3, Bounds
<1>4. WrittenIsNotRead'
  <2>1. {NoAddr} \cap (Read \cup {NoAddr}) \subseteq {NoAddr} /\ {NoAddr} \cap Written \subseteq {NoAddr}
    OBVIOUS
  <2> QED BY <1>3, <2>1, ApartStays
<1>5. NothingDangles'
  <2>1. (NothingDangles <=> Kept)'
    BY Dangling, PTL
  <2>2. (Written \cup Read \cup {untilized}) \ {NoAddr} \subseteq live
    BY Dangling DEF Kept
  <2>3. (Written' \cup Read' \cup {untilized'}) \ {NoAddr} \subseteq live'
    BY <1>3, <2>2
  <2>4. \A o \in Ops : SlotsOf(o)' \subseteq retained'
    BY <1>0, <1>1, <1>2, CacheKeeps
  <2>5. \A o \in Ops : staged'[o] \in retained' \cup {NoAddr}
    BY CacheKeeps
  <2> QED BY <2>1, <2>3, <2>4, <2>5 DEF Kept
<1>6. SlotsAreOwn'
  <2>1. \A o, q \in Ops : o # q => SlotsOf(o)' \cap SlotsOf(q)' = {}
    <3> SUFFICES ASSUME NEW o \in Ops, NEW q \in Ops, o # q PROVE SlotsOf(o)' \cap SlotsOf(q)' = {}
      OBVIOUS
    <3>1. SlotsOf(o) \cap SlotsOf(q) = {}
      BY DEF SlotsAreOwn
    <3>2. CASE o = op
      BY <1>1, <1>2, <3>1, <3>2
    <3>3. CASE q = op
      BY <1>1, <1>2, <3>1, <3>3
    <3>4. CASE o # op /\ q # op
      BY <1>1, <3>1, <3>4
    <3> QED BY <3>2, <3>3, <3>4
  <2>2. \A o \in Ops : NoAddr \notin SlotsOf(o)'
    <3>1. \A o \in Ops : NoAddr \notin SlotsOf(o)
      BY VariantTypes DEF CacheAssumption
    <3> QED BY <1>0, <1>1, <3>1
  <2>3. \A o, q \in Ops : o # q /\ staged'[o] = staged'[q] => staged'[o] = NoAddr
    BY DEF SlotsAreOwn
  <2> QED BY <2>1, <2>2, <2>3 DEF SlotsAreOwn
<1> QED BY <1>4, <1>5, <1>6

\* The input of a call is the argument where it is not staged.
LEMMA UnstagedReads ==
  ASSUME VariantsAgree, op \in Ops \ Stageable
  PROVE  InputOfCall = argument
BY DEF VariantsAgree, InputOfCall

LEMMA CaptureKeeps ==
  ASSUME CacheAssumption, IInv, TypeOK', InHand', BesideStays,
         NEW touched \in SUBSET Addrs, Capture(touched)
  PROVE  IInv'
<1> USE DEF IInv
<1> DEFINE t == CHOOSE t \in FreeTraces : TRUE
           v == [trace |-> t, input |-> input, slot |-> slot]
           n == Len(variants[op])
<1>1. /\ pc = "capture" /\ touched \cap live = {}
      /\ footprint' = [footprint EXCEPT ![t] = touched]
      /\ variants' = [variants EXCEPT ![op] = Append(@, v)]
      /\ cached' = cached \cup {op} /\ values' = values \cup {<<op, slot>>}
      /\ input' = NoAddr /\ slot' = NoAddr /\ pc' = "program"
      /\ settled' = settled \cup {<<op, argument>>}
      /\ UNCHANGED <<live, staged, retained, callers, op, argument, pick>>
  BY DEF Capture
<1>2. t \in FreeTraces
  BY DEF Capture
<1>3. v.trace = t /\ v.input = input /\ v.slot = slot
  OBVIOUS
<1>4. /\ op \in Ops /\ variants[op] \in Seq(Variants) /\ n \in Nat
      /\ slot \in Addrs /\ input \in Addrs /\ argument \in Addrs
      /\ input = InputOfCall
  BY <1>1, VariantTypes DEF TypeOK, InHand, Slots, VariantsFit
<1>5. v \in Variants
  BY <1>2, <1>3, <1>4 DEF Variants, FreeTraces
<1>6. t \in Traces /\ \A o \in Ops : \A i \in Indices(o) : variants[o][i].trace # t
  BY <1>2 DEF FreeTraces, VariantsOf
<1> HIDE DEF t, v, n
<1>7. /\ \A o \in Ops \ {op} : variants'[o] = variants[o]
      /\ variants'[op] = Append(variants[op], v)
  BY <1>1, <1>4 DEF TypeOK
<1>8. /\ Indices(op) = 1 .. n /\ Indices(op)' = 1 .. n + 1
      /\ \A i \in 1 .. n : variants'[op][i] = variants[op][i]
      /\ variants'[op][n + 1] = v
  BY <1>1, <1>4, <1>5, <1>7, AppendElements DEF Indices, n
<1>9. \A i \in 1 .. n + 1 : i \in 1 .. n \/ i = n + 1
  BY <1>4
<1>10. \A i \in Indices(op)' : variants'[op][i] = v \/ \E j \in Indices(op) : variants'[op][i] = variants[op][j]
  BY <1>8, <1>9
<1>11. SlotsOf(op)' \subseteq SlotsOf(op) \cup {slot} /\ InputsOf(op)' \subseteq InputsOf(op) \cup {input}
  <2>1. op' = op
    BY <1>1
  <2> QED BY <1>3, <1>10, <2>1 DEF SlotsOf, InputsOf
<1>12. NothingDangles' /\ WrittenIsNotRead' /\ SlotsAreOwn'
  BY <1>1, <1>4, <1>7, <1>11, RunsKeep DEF CacheAssumption
<1>13. VariantsAgree'
  <2>1. \A o \in Ops \ cached' : variants'[o] = << >> /\ staged'[o] = NoAddr
    BY <1>1, <1>7 DEF VariantsAgree
  <2>2. \A o \in Ops \ Stageable : staged'[o] = NoAddr
    BY <1>1 DEF VariantsAgree
  <2>3. \A o \in Stageable : \A i, j \in Indices(o)' :
          /\ variants'[o][i].input = variants'[o][j].input
          /\ staged'[o] # NoAddr => variants'[o][i].input = staged'[o]
    <3> SUFFICES ASSUME NEW o \in Stageable, NEW i \in Indices(o)', NEW j \in Indices(o)'
                 PROVE  /\ variants'[o][i].input = variants'[o][j].input
                        /\ staged[o] # NoAddr => variants'[o][i].input = staged[o]
      BY <1>1
    <3>1. CASE o = op
      <4>1. \A k \in Indices(op) : variants[op][k].input = InputOfCall
        BY <1>1, <3>1 DEF VariantsFit
      <4>2. variants'[op][i].input = InputOfCall /\ variants'[op][j].input = InputOfCall
        BY <1>1, <1>3, <1>4, <1>10, <3>1, <4>1
      <4> QED BY <3>1, <4>2 DEF InputOfCall
    <3>2. CASE o # op
      <4>1. o \in Ops
        BY DEF CacheAssumption
      <4>2. variants'[o] = variants[o] /\ i \in Indices(o) /\ j \in Indices(o)
        BY <1>7, <3>2, <4>1 DEF Indices
      <4> QED BY <4>2 DEF VariantsAgree
    <3> QED BY <3>1, <3>2
  <2> QED BY <2>1, <2>2, <2>3 DEF VariantsAgree
<1>14. SettledIsSafe'
  <2> SUFFICES LatestIsSafe'
    BY <1>1 DEF SettledIsSafe
  <2> SUFFICES ASSUME NEW o \in Ops, NEW a \in Addrs, <<o, a>> \in settled',
                      NEW i \in Fitting(o, a)', \A j \in Fitting(o, a)' : j <= i
               PROVE  Safe(variants[o][i])'
    BY DEF LatestIsSafe
  <2>0. LatestIsSafe
    BY DEF SettledIsSafe
  <2>1. \A q \in Ops : \A j \in Indices(q) :
          Safe(variants[q][j]) => footprint'[variants[q][j].trace] \cap live' = {}
    <3> SUFFICES ASSUME NEW q \in Ops, NEW j \in Indices(q), Safe(variants[q][j])
                 PROVE  footprint'[variants[q][j].trace] \cap live' = {}
      OBVIOUS
    <3>1. variants[q][j].trace \in Traces /\ variants[q][j].trace # t
      BY <1>6, VariantTypes DEF Variants
    <3>2. footprint'[variants[q][j].trace] = footprint[variants[q][j].trace]
      BY <1>1, <3>1 DEF TypeOK
    <3> QED BY <1>1, <3>2 DEF Safe
  <2>2. footprint'[t] \cap live' = {}
    BY <1>1, <1>6 DEF TypeOK
  <2>3. CASE o # op
    <3>1. variants'[o] = variants[o] /\ <<o, a>> \in settled
      BY <1>1, <1>7, <2>3
    <3>2. Fitting(o, a)' = Fitting(o, a)
      BY <3>1 DEF Fitting, Indices
    <3>3. Safe(variants[o][i]) /\ i \in Indices(o)
      BY <2>0, <3>1, <3>2 DEF LatestIsSafe, Fitting
    <3>4. footprint'[variants[o][i].trace] \cap live' = {}
      BY <2>1, <3>3
    <3> QED BY <3>1, <3>4 DEF Safe
  <2>4. CASE o = op
    <3>0. op' = op /\ i \in 1 .. n + 1 /\ (o \in Stageable \/ variants'[op][i].input = a)
      BY <1>1, <1>8, <2>4 DEF Fitting
    <3>f. Fitting(o, a)' = {j \in 1 .. n + 1 : o \in Stageable \/ variants'[o][j].input = a}
      <4>1. Indices(o)' = 1 .. n + 1
        BY <1>1, <1>8, <2>4 DEF Indices
      <4> QED BY <4>1 DEF Fitting
    <3>1. CASE op \in Stageable \/ input = a
      <4>1. n + 1 \in Fitting(o, a)'
        BY <1>3, <1>4, <1>8, <2>4, <3>f, <3>1
      <4>2. n + 1 <= i
        BY <2>4, <4>1
      <4>3. i = n + 1
        BY <1>4, <3>0, <4>2
      <4>4. variants'[o][i].trace = t
        BY <1>3, <1>8, <2>4, <4>3
      <4> QED BY <2>2, <4>4 DEF Safe
    <3>2. CASE op \notin Stageable /\ input # a
      <4>1. input = argument
        BY <1>4, <3>2, UnstagedReads
      <4>2. <<op, a>> \in settled
        BY <1>1, <2>4, <3>2, <4>1
      <4>3. i \in 1 .. n
        BY <1>3, <1>8, <1>9, <2>4, <3>0, <3>2
      <4>4. i \in Fitting(op, a)
        BY <1>8, <2>4, <3>0, <4>3 DEF Fitting
      <4>5. \A j \in Fitting(op, a) : j <= i
        <5> SUFFICES ASSUME NEW j \in Fitting(op, a) PROVE j <= i
          OBVIOUS
        <5>1. j \in 1 .. n /\ variants'[op][j].input = a
          BY <1>8, <3>2 DEF Fitting
        <5>2. j \in 1 .. n + 1
          BY <1>4, <5>1
        <5>3. j \in Fitting(o, a)'
          BY <2>4, <3>f, <5>1, <5>2
        <5> QED BY <2>4, <5>3
      <4>6. Safe(variants[op][i])
        BY <1>4, <2>0, <4>2, <4>4, <4>5 DEF LatestIsSafe
      <4>7. footprint'[variants[op][i].trace] \cap live' = {}
        BY <1>4, <1>8, <2>1, <4>3, <4>6
      <4> QED BY <1>8, <2>4, <4>3, <4>7 DEF Safe
    <3> QED BY <3>1, <3>2
  <2> QED BY <2>3, <2>4
<1>15. VariantsFit' /\ ReplayReadsTheArgument' /\ OverwritesLate'
  BY <1>1, AsideStep
<1> QED BY <1>12, <1>13, <1>14, <1>15

LEMMA ReplayKeeps ==
  ASSUME CacheAssumption, IInv, TypeOK', InHand', BesideStays, Replay
  PROVE  IInv'
<1> USE DEF IInv
<1> DEFINE v == variants[op][pick]
           n == Len(variants[op])
           m == n - 1
           r == RemoveAt(variants[op], pick)
<1>1. /\ pc = "replay" /\ pc' = "program"
      /\ variants' = [variants EXCEPT ![op] = Append(r, v)]
      /\ values' = values \cup {<<op, v.slot>>}
      /\ settled' = IF late = {} THEN settled \cup {<<op, argument>>} ELSE settled
      /\ UNCHANGED <<live, footprint, cached, staged, retained, callers, op, argument, input, slot>>
  BY DEF Replay
<1>2. slot = NoAddr /\ input = NoAddr
  BY <1>1, NoSlotYet
<1>3. /\ op \in Ops /\ variants[op] \in Seq(Variants) /\ n \in Nat
      /\ pick \in 1 .. n /\ v \in Variants /\ argument \in Addrs
  BY <1>1, VariantTypes DEF TypeOK, InHand, Slots, Indices
<1>4. /\ r \in Seq(Variants) /\ Len(r) = m /\ m \in Nat
      /\ \A i \in 1 .. m : r[i] = variants[op][IF i < pick THEN i ELSE i + 1]
  BY <1>3, RemoveAtProperties
<1>5. v.slot \in SlotsOf(op) /\ v.slot # NoAddr
  BY <1>3 DEF SlotsOf, Indices, Variants, CacheAssumption
<1> HIDE DEF r
<1>6. /\ \A o \in Ops \ {op} : variants'[o] = variants[o]
      /\ variants'[op] = Append(r, v)
  BY <1>1, <1>3 DEF TypeOK
<1>7. /\ Len(Append(r, v)) = m + 1 /\ Append(r, v)[m + 1] = v
      /\ \A i \in 1 .. m : Append(r, v)[i] = r[i]
  <2> HIDE DEF v, m
  <2> QED BY <1>3, <1>4, AppendElements
<1>8. /\ Indices(op) = 1 .. m + 1 /\ Indices(op)' = 1 .. m + 1
      /\ variants'[op][m + 1] = v
      /\ \A i \in 1 .. m : variants'[op][i] = variants[op][IF i < pick THEN i ELSE i + 1]
  <2>1. Indices(op) = 1 .. m + 1
    BY <1>3 DEF Indices
  <2>2. Indices(op)' = 1 .. m + 1
    BY <1>1, <1>6, <1>7 DEF Indices
  <2> QED BY <1>4, <1>6, <1>7, <2>1, <2>2
<1>9. \A i \in 1 .. m + 1 : i \in 1 .. m \/ i = m + 1
  BY <1>4
<1>10. \A i \in 1 .. m : (IF i < pick THEN i ELSE i + 1) \in 1 .. m + 1
  BY <1>3, <1>4
<1>p. pick \in 1 .. m + 1
  BY <1>3
<1>11. \A i \in Indices(op)' : \E j \in Indices(op) : variants'[op][i] = variants[op][j]
  <2> SUFFICES ASSUME NEW i \in 1 .. m + 1
               PROVE  \E j \in 1 .. m + 1 : variants'[op][i] = variants[op][j]
    BY <1>8
  <2>1. CASE i \in 1 .. m
    BY <1>8, <1>10, <2>1
  <2>2. CASE i = m + 1
    BY <1>8, <1>p, <2>2
  <2> QED BY <1>9, <2>1, <2>2
<1> HIDE DEF v, n, m
<1>12. SlotsOf(op)' \subseteq SlotsOf(op) /\ InputsOf(op)' \subseteq InputsOf(op)
  <2>1. op' = op
    BY <1>1
  <2> QED BY <1>11, <2>1 DEF SlotsOf, InputsOf
<1>13. NothingDangles' /\ WrittenIsNotRead' /\ SlotsAreOwn'
  BY <1>1, <1>2, <1>5, <1>6, <1>12, RunsKeep
<1>14. VariantsAgree'
  <2>1. \A o \in Ops \ cached' : variants'[o] = << >> /\ staged'[o] = NoAddr
    <3>0. variants[op] # << >>
      <4>1. pick \in Indices(op)
        BY <1>8, <1>p
      <4>2. variants[op] = << >> => Indices(op) = {}
        BY EmptySeq DEF Indices
      <4> QED BY <4>1, <4>2
    <3>1. op \in cached
      BY <1>3, <3>0 DEF VariantsAgree
    <3> QED BY <1>1, <1>6, <3>1 DEF VariantsAgree
  <2>2. \A o \in Ops \ Stageable : staged'[o] = NoAddr
    BY <1>1 DEF VariantsAgree
  <2>3. \A o \in Stageable : \A i, j \in Indices(o)' :
          /\ variants'[o][i].input = variants'[o][j].input
          /\ staged'[o] # NoAddr => variants'[o][i].input = staged'[o]
    <3> SUFFICES ASSUME NEW o \in Stageable, NEW i \in Indices(o)', NEW j \in Indices(o)'
                 PROVE  /\ variants'[o][i].input = variants'[o][j].input
                        /\ staged[o] # NoAddr => variants'[o][i].input = staged[o]
      BY <1>1
    <3>0. \A k, l \in Indices(o) : /\ variants[o][k].input = variants[o][l].input
                                   /\ staged[o] # NoAddr => variants[o][k].input = staged[o]
      BY DEF VariantsAgree
    <3>1. CASE o = op
      <4>1. PICK k \in Indices(op) : variants'[op][i] = variants[op][k]
        BY <1>1, <1>11, <3>1
      <4>2. PICK l \in Indices(op) : variants'[op][j] = variants[op][l]
        BY <1>1, <1>11, <3>1
      <4> HIDE DEF Indices
      <4> QED BY <3>0, <3>1, <4>1, <4>2
    <3>2. CASE o # op
      <4>1. o \in Ops
        BY DEF CacheAssumption
      <4>2. variants'[o] = variants[o] /\ i \in Indices(o) /\ j \in Indices(o)
        BY <1>6, <3>2, <4>1 DEF Indices
      <4> HIDE DEF Indices
      <4> QED BY <3>0, <4>2
    <3> QED BY <3>1, <3>2
  <2> QED BY <2>1, <2>2, <2>3 DEF VariantsAgree
<1>15. SettledIsSafe'
  <2>n. CASE late # {}
    BY <1>1, <1>2, <2>n DEF SettledIsSafe, LatestIsSafe, OverwritesLate
  <2> SUFFICES ASSUME late = {} PROVE LatestIsSafe'
    BY <1>1, <1>2, <2>n DEF SettledIsSafe
  <2> SUFFICES ASSUME NEW o \in Ops, NEW a \in Addrs, <<o, a>> \in settled',
                      NEW i \in Fitting(o, a)', \A j \in Fitting(o, a)' : j <= i
               PROVE  Safe(variants'[o][i])
    BY <1>1 DEF LatestIsSafe, Safe
  <2>0. LatestIsSafe
    BY DEF SettledIsSafe
  <2>1. Safe(v)
    BY <1>1 DEF OverwritesLate, Safe, v
  <2>2. CASE o # op
    <3>1. variants'[o] = variants[o] /\ <<o, a>> \in settled
      BY <1>1, <1>6, <2>2
    <3>2. Fitting(o, a)' = Fitting(o, a)
      BY <3>1 DEF Fitting, Indices
    <3> QED BY <2>0, <3>1, <3>2 DEF LatestIsSafe
  <2>3. CASE o = op
    <3>f. Fitting(o, a)' = {j \in 1 .. m + 1 : o \in Stageable \/ variants'[o][j].input = a}
      <4>1. Indices(o)' = 1 .. m + 1
        BY <1>1, <1>8, <2>3 DEF Indices
      <4> QED BY <4>1 DEF Fitting
    <3>0. i \in 1 .. m + 1 /\ (o \in Stageable \/ variants'[op][i].input = a)
      BY <2>3, <3>f
    <3>1. CASE op \in Stageable \/ v.input = a
      <4>1. m + 1 \in Fitting(o, a)'
        BY <1>4, <1>8, <2>3, <3>f, <3>1
      <4>2. m + 1 <= i
        BY <2>3, <4>1
      <4>3. i = m + 1
        BY <1>4, <3>0, <4>2
      <4> QED BY <1>8, <2>1, <2>3, <4>3
    <3>2. CASE op \notin Stageable /\ v.input # a
      <4>1. v.input = argument
        BY <1>1, <1>3, <3>2 DEF ReplayReadsTheArgument, VariantsAgree, v
      <4>2. <<op, a>> \in settled
        BY <1>1, <2>3, <3>2, <4>1
      <4>3. i \in 1 .. m
        BY <1>8, <1>9, <2>3, <3>0, <3>2
      <4> DEFINE k == IF i < pick THEN i ELSE i + 1
      <4>4. k \in 1 .. m + 1 /\ variants'[op][i] = variants[op][k]
        BY <1>8, <1>10, <4>3
      <4>5. k \in Fitting(op, a)
        BY <1>8, <2>3, <3>0, <4>4 DEF Fitting
      <4>6. ASSUME NEW j \in Fitting(op, a)
            PROVE  j <= k
        <5>1. j \in 1 .. m + 1 /\ variants[op][j].input = a /\ j # pick
          BY <1>8, <3>2, <4>6 DEF Fitting, v
        <5> DEFINE l == IF j < pick THEN j ELSE j - 1
        <5>2. l \in 1 .. m /\ (IF l < pick THEN l ELSE l + 1) = j
          BY <1>4, <1>p, <5>1
        <5>3. variants'[op][l].input = a
          BY <1>8, <5>1, <5>2
        <5>4. l \in 1 .. m + 1
          BY <1>4, <5>2
        <5>5. l \in Fitting(o, a)'
          <6> HIDE DEF l
          <6> QED BY <2>3, <3>f, <5>3, <5>4
        <5>6. l <= i
          <6> HIDE DEF l
          <6> QED BY <5>5
        <5> QED BY <1>4, <1>p, <4>3, <5>1, <5>6
      <4> HIDE DEF k
      <4>7. Safe(variants[op][k])
        BY <1>3, <2>0, <4>2, <4>5, <4>6 DEF LatestIsSafe
      <4> QED BY <2>3, <4>4, <4>7
    <3> QED BY <3>1, <3>2
  <2> QED BY <2>2, <2>3
<1>16. VariantsFit' /\ ReplayReadsTheArgument' /\ OverwritesLate'
  BY <1>1, <1>2, AsideStep
<1> QED BY <1>13, <1>14, <1>15, <1>16

-----------------------------------------------------------------------------
(* The invariant.                                                           *)

LEMMA InitIInv ==
  ASSUME CacheAssumption, Init
  PROVE  IInv
<1>1. op \in Ops
  BY DEF Init, CacheAssumption
<1>2. \A o \in Ops : variants[o] = << >> /\ staged[o] = NoAddr
  BY DEF Init
<1>3. TypeOK
  BY <1>1, EmptySeq DEF Init, TypeOK, Slots, Stages
<1>4. InHand
  BY DEF Init, InHand
<1>5. \A o \in Ops : Indices(o) = {} /\ SlotsOf(o) = {} /\ InputsOf(o) = {}
  BY <1>2, EmptySeq DEF Indices, SlotsOf, InputsOf
<1>6. Written \subseteq {NoAddr} /\ Read \subseteq {NoAddr}
  BY <1>2, <1>5, VariantSets DEF Init, Written, Read, Outputs
<1>7. NothingDangles
  BY <1>2, <1>5, <1>6, Dangling DEF Init, Kept
<1>8. WrittenIsNotRead
  BY <1>6 DEF Init, WrittenIsNotRead
<1>9. SlotsAreOwn
  BY <1>2, <1>5 DEF Init, SlotsAreOwn
<1>10. VariantsAgree
  BY <1>2, <1>5 DEF VariantsAgree, CacheAssumption
<1>11. VariantsFit /\ ReplayReadsTheArgument /\ OverwritesLate
  BY DEF Init, VariantsFit, ReplayReadsTheArgument, OverwritesLate
<1>12. SettledIsSafe
  BY DEF Init, SettledIsSafe, LatestIsSafe
<1> QED BY <1>3, <1>4, <1>7, <1>8, <1>9, <1>10, <1>11, <1>12 DEF IInv

LEMMA NextKeeps ==
  ASSUME CacheAssumption, IInv, [Next]_vars
  PROVE  IInv'
<1>1. CASE Next
  <2>1. TypeOK' /\ InHand'
    BY <1>1, TypeStep, InHandStep DEF IInv
  <2>0. CASE BesideStep
    BY <2>0, <2>1, FrameworkKeeps, EnqueueReadKeeps DEF BesideStep
  <2> SUFFICES ASSUME ProgramStep, untilized' = untilized,
                      late' = IF pc' = "replay" THEN late ELSE {}
               PROVE  IInv'
    BY <1>1, <2>0 DEF Next
  <2>2. ASSUME NEW a \in Addrs, Create(a) \/ Delete(a) \/ StartProgram(a)
        PROVE  IInv'
    BY <2>1, <2>2, FrameworkKeeps, DeleteKeeps, ProgramKeeps
  <2>3. ASSUME NEW o \in Ops, Run(o)
        PROVE  IInv'
    BY <2>1, <2>3, ProgramKeeps
  <2>4. ASSUME FinishProgram \/ OutOfMemory \/ CaptureFails
        PROVE  IInv'
    BY <2>1, <2>4, EndsKeep
  <2>5. ASSUME EvictEntry \/ Erase
        PROVE  IInv'
    BY <2>1, <2>5, EvictEntryKeeps, EraseKeeps
  <2>6. ASSUME NEW a \in Addrs, AllocateSlots(a) \/ StageInput(a)
        PROVE  IInv'
    BY <2>1, <2>6, AllocateSlotsKeeps, StageInputKeeps
  <2>7. ASSUME NEW touched \in SUBSET Addrs, Capture(touched)
        PROVE  IInv'
    BY <2>1, <2>7, CaptureKeeps
  <2>8. ASSUME StageMovedInputs \/ FindVariant \/ FindSlots \/ Replay
        PROVE  IInv'
    BY <2>1, <2>8, StageMovedInputsKeeps, FindVariantKeeps, FindSlotsKeeps, ReplayKeeps
  <2>9. ASSUME StageEvicts \/ MakeRoom
        PROVE  IInv'
    BY <2>1, <2>9, RoomKeeps
  <2> QED BY <2>2, <2>3, <2>4, <2>5, <2>6, <2>7, <2>8, <2>9 DEF ProgramStep
<1>2. CASE UNCHANGED vars
  <2>1. /\ TypeOK' /\ InHand'
        /\ (\A o : SlotsOf(o)' = SlotsOf(o) /\ InputsOf(o)' = InputsOf(o) /\ Indices(o)' = Indices(o))
    BY <1>2 DEF vars, IInv, TypeOK, InHand, SlotsOf, InputsOf, Indices
  <2>2. NothingDangles' /\ WrittenIsNotRead' /\ SlotsAreOwn' /\ VariantsAgree' /\ SettledIsSafe'
    <3>1. /\ argument' \in Read /\ input' \in Read
          /\ slot' # NoAddr => <<op', argument'>> \notin settled
          /\ BesideStays
      BY <1>2 DEF vars, Read, IInv, SettledIsSafe, OverwritesLate
    <3> QED BY <1>2, <2>1, <3>1, QuietKeeps DEF vars
  <2>3. VariantsFit' /\ ReplayReadsTheArgument'
    BY <1>2 DEF vars, IInv, VariantsFit, InputOfCall, Indices, ReplayReadsTheArgument
  <2>4. OverwritesLate'
    <3>1. Needed' = Needed
      BY <1>2 DEF vars, Needed, VariantsOf, Indices
    <3> QED BY <1>2, <3>1 DEF vars, IInv, OverwritesLate
  <2> QED BY <2>1, <2>2, <2>3, <2>4 DEF IInv
<1> QED BY <1>1, <1>2

-----------------------------------------------------------------------------
(* The theorems.                                                            *)

\* What is written and read apart, held and allocated, and safe to replay: the
\* invariant the rest follows from.
THEOREM Invariant == Spec => []IInv
<1>1. Init => IInv
  BY InitIInv, CacheAssumption
<1>2. IInv /\ [Next]_vars => IInv'
  BY NextKeeps, CacheAssumption
<1> QED BY <1>1, <1>2, PTL DEF Spec

\* The state has its type.
THEOREM TypeCorrect == Spec => []TypeOK
<1>1. IInv => TypeOK
  BY DEF IInv
<1> QED BY <1>1, Invariant, PTL

\* Buffers that the cache, a program or the framework refers to stay allocated, and the
\* cache's own stay retained, whatever is evicted, deallocated, shared or erased.
THEOREM HeldStaysAllocated == Spec => []NothingDangles
<1>1. IInv => NothingDangles
  BY DEF IInv
<1> QED BY <1>1, Invariant, PTL

\* The slots that the replays of an op overwrite are no other op's, hold no staged input,
\* are no buffer of the framework and not what a read untilizes into.
THEOREM SlotsStayApart == Spec => []SlotsAreApart
<1>1. IInv => SlotsAreApart
  <2> SUFFICES ASSUME IInv, NEW o \in Ops, NEW q \in Ops, NEW v \in VariantsOf({o})
               PROVE  /\ o # q => v.slot \notin {w.slot : w \in VariantsOf({q})}
                      /\ v.slot \notin callers \cup {staged[q], untilized}
    BY DEF SlotsAreApart
  <2>1. v.slot \in SlotsOf(o)
    BY DEF VariantsOf, SlotsOf
  <2>2. v.slot \in Written /\ v.slot # NoAddr
    BY <2>1, Parts, VariantTypes, CacheAssumption DEF IInv, CacheAssumption
  <2>3. v.slot \notin Read \cup {untilized}
    BY <2>2 DEF IInv, WrittenIsNotRead
  <2>4. callers \subseteq Read /\ staged[q] \in Read
    BY Parts DEF Read
  <2>5. o # q => v.slot \notin SlotsOf(q)
    BY <2>1 DEF IInv, SlotsAreOwn
  <2> QED BY <2>3, <2>4, <2>5, SlotsOfOne
<1> QED BY <1>1, Invariant, PTL

\* A replay reads what the program was called with.
THEOREM ReplaysReadTheArgument == Spec => []ReplayReadsTheArgument
<1>1. IInv => ReplayReadsTheArgument
  BY DEF IInv
<1> QED BY <1>1, Invariant, PTL

\* A replay overwrites nothing that was there when it was found safe, nor anything the
\* program or the cache has: only what a copy on the device or a read of the framework's
\* allocated since.
THEOREM ReplaysOverwriteOnlyLate == Spec => []ReplayOverwritesOnlyLate
<1>1. IInv => ReplayOverwritesOnlyLate
  BY DEF IInv, OverwritesLate, ReplayOverwritesOnlyLate, Overwritten
<1> QED BY <1>1, Invariant, PTL

\* An op that ran with an argument is not captured for it again before something is
\* allocated.
THEOREM LoopsSettle == Spec => []CapturesSettle
<1>1. IInv => CapturesSettle
  BY DEF IInv, InHand, SettledIsSafe, CapturesSettle
<1> QED BY <1>1, Invariant, PTL
=============================================================================
