--------------------------- MODULE Device_proofs ----------------------------
(***************************************************************************)
(* Proofs about what the device does: the copies of the plugin to and from *)
(* it (HostCopies), and the programs of the repository's own operations on *)
(* it (StatePoolCopy, IndexedRows, TopKSelect).                            *)
(***************************************************************************)
EXTENDS HostCopies, StatePoolCopy, IndexedRows, TopKSelect, FiniteSetTheorems, SequenceTheorems, TLAPS
-----------------------------------------------------------------------------
(* HostCopies.                                                             *)

HandingOver == {"move", "release", "close"}

\* Executions hold deviceWorkMutex, and a hand-over has a mesh to go to.
ExecutesAlone ==
  \A t \in Threads :
    /\ pc[t] \in HandingOver \cup {"execute"} => deviceWorkMutex = t
    /\ pc[t] \in HandingOver => mesh < MaxMeshes

\* Threads that do not use the plugin do nothing.
OthersIdle == \A t \in Threads \ running : pc[t] = "idle"

\* Data on the framework's memory is under its host buffer; deleted data has no host copies.
WhereDataIs ==
  \A x \in Tensors :
    /\ at[x] = OnFrameworkMemory => hostBuffer[x] = "held"
    /\ at[x] = Nowhere => kept[x] = 0

\* What a hand-over has been to, or need not go to, is off the mesh.
MovedIsOff ==
  \A t \in Threads :
    /\ pc[t] \in HandingOver => \A x \in Tensors \ moving : at[x] \notin Meshes /\ kept[x] = 0
    /\ pc[t] \in {"release", "close"} => moving = {}

NoneBorrowed == \A c \in Slots : ~copies[c].borrowed

\* A copy that is enqueued has one thread that is about to count it.
EnqueuedHasThread ==
  /\ \A t \in Threads :
       /\ pc[t] = "count" => copying[t] \in Slots /\ copies[copying[t]].stage = "enqueued"
       /\ \A u \in Threads : pc[t] = "count" /\ pc[u] = "count" /\ copying[t] = copying[u] => t = u
  /\ \A c \in Slots : copies[c].stage = "enqueued" => \E t \in Threads : pc[t] = "count" /\ copying[t] = c

Counted == {c \in Slots : copies[c].stage \in {"running", "copied"}}
CountIsRight == s_copies_to_host_in_flight = Cardinality(Counted)

\* With one thread a mesh closes when there are no copies at all.
NoneAtClose ==
  Cardinality(running) = 1 =>
    \A t \in Threads : pc[t] = "close" => \A c \in Slots : copies[c].stage = "none"

HostIInv ==
  /\ TypeOK /\ ExecutesAlone /\ OthersIdle /\ WhereDataIs /\ MovedIsOff /\ NothingLeftOnClosedMesh
  /\ NoneBorrowed /\ EnqueuedHasThread /\ CountIsRight /\ NoneAtClose /\ OneThreadClosesAfterCopies

LEMMA NoCopyIsACopy ==
  NoCopy \in CopyStates /\ NoCopy.stage = "none" /\ ~NoCopy.borrowed /\ NoCopy.mesh = 0
BY CopiesAssumption DEF NoCopy, CopyStates

\* What setting its stage, or its arrival, leaves of a copy.
LEMMA StageChanges ==
  ASSUME NEW copy \in CopyStates, NEW next \in {"none", "enqueued", "running", "copied"}
  PROVE  LET new == [copy EXCEPT !.stage = next]
         IN  new \in CopyStates /\ new.stage = next /\ new.mesh = copy.mesh /\ new.borrowed = copy.borrowed
BY DEF CopyStates

LEMMA ArrivedChanges ==
  ASSUME NEW copy \in CopyStates, NEW b \in BOOLEAN
  PROVE  LET new == [copy EXCEPT !.arrived = b]
         IN  new \in CopyStates /\ new.stage = copy.stage /\ new.mesh = copy.mesh /\ new.borrowed = copy.borrowed
BY DEF CopyStates

LEMMA HostStarts == Init => HostIInv
<1> SUFFICES ASSUME Init PROVE HostIInv
  OBVIOUS
<1> USE CopiesAssumption DEF Init, Meshes, Slots, OnHost, OnFrameworkMemory, Nowhere
<1>1. TypeOK
  BY NoCopyIsACopy DEF TypeOK
<1>2. ExecutesAlone /\ OthersIdle /\ WhereDataIs /\ MovedIsOff /\ NothingLeftOnClosedMesh
  BY DEF ExecutesAlone, HandingOver, OthersIdle, WhereDataIs, MovedIsOff, NothingLeftOnClosedMesh
<1>3. NoneBorrowed /\ EnqueuedHasThread /\ NoneAtClose /\ OneThreadClosesAfterCopies
  BY DEF NoneBorrowed, EnqueuedHasThread, NoneAtClose, OneThreadClosesAfterCopies, NoCopyFromClosedMesh, NoCopy
<1>4. CountIsRight
  <2>1. Counted = {}
    BY DEF Counted, NoCopy
  <2> QED BY <2>1, FS_EmptySet DEF CountIsRight
<1> QED BY <1>1, <1>2, <1>3, <1>4 DEF HostIInv

-----------------------------------------------------------------------------
(* The count.                                                               *)

LEMMA CountedIsFinite == IsFiniteSet(Counted) /\ Cardinality(Counted) \in Nat
<1>1. IsFiniteSet(Slots)
  BY CopiesAssumption, FS_Interval DEF Slots
<1>2. Counted \in SUBSET Slots
  BY DEF Counted
<1>3. IsFiniteSet(Counted)
  BY <1>1, <1>2, FS_Subset
<1> QED BY <1>3, FS_CardinalityType

LEMMA CountStays ==
  ASSUME CountIsRight, Counted' = Counted, s_copies_to_host_in_flight' = s_copies_to_host_in_flight
  PROVE  CountIsRight'
BY DEF CountIsRight

LEMMA CountAdds ==
  ASSUME NEW c, c \notin Counted, Counted' = Counted \cup {c}, CountIsRight,
         s_copies_to_host_in_flight' = s_copies_to_host_in_flight + 1
  PROVE  CountIsRight'
BY CountedIsFinite, FS_AddElement DEF CountIsRight

LEMMA CountRemoves ==
  ASSUME NEW c, c \in Counted, Counted' = Counted \ {c}, CountIsRight,
         s_copies_to_host_in_flight' = s_copies_to_host_in_flight - 1
  PROVE  CountIsRight' /\ s_copies_to_host_in_flight' \in Nat
<1>1. CountIsRight'
  BY CountedIsFinite, FS_RemoveElement DEF CountIsRight
<1>2. Cardinality(Counted) # 0
  BY CountedIsFinite, FS_EmptySet
<1> QED BY <1>1, <1>2, CountedIsFinite DEF CountIsRight

\* A count of zero: no copy runs.
LEMMA NoneCounted ==
  ASSUME CountIsRight, s_copies_to_host_in_flight = 0
  PROVE  \A c \in Slots : copies[c].stage \notin {"running", "copied"}
<1>1. Counted = {}
  BY CountedIsFinite, FS_EmptySet DEF CountIsRight
<1> QED BY <1>1 DEF Counted

-----------------------------------------------------------------------------
\* A framework of one thread.
LEMMA OnlyOne ==
  ASSUME running \subseteq Threads, Cardinality(running) = 1
  PROVE  \A t, u \in running : t = u
<1>1. IsFiniteSet(running)
  BY CopiesAssumption, FS_Subset
<1> QED BY <1>1, FS_Singleton

LEMMA HostSteps == HostIInv /\ [Next]_vars => HostIInv'
<1> SUFFICES ASSUME HostIInv, [Next]_vars PROVE HostIInv'
  OBVIOUS
<1> USE CopiesAssumption DEF HostIInv, Meshes, Slots, OnHost, OnFrameworkMemory, Nowhere, HandingOver, Goto
<1> DEFINE Shape == TypeOK /\ ExecutesAlone /\ OthersIdle
           Places == WhereDataIs /\ MovedIsOff /\ NothingLeftOnClosedMesh
           Copying == NoneBorrowed /\ EnqueuedHasThread /\ NoneAtClose /\ OneThreadClosesAfterCopies
<1> USE DEF TypeOK, ExecutesAlone, OthersIdle, WhereDataIs, MovedIsOff, NothingLeftOnClosedMesh,
            NoneBorrowed, EnqueuedHasThread, NoneAtClose, OneThreadClosesAfterCopies, NoCopyFromClosedMesh
<1>1. ASSUME running' = running, NEW t \in running, NEW x \in Tensors, CreateFromHost(t, x) PROVE HostIInv'
  <2> USE <1>1 DEF CreateFromHost
  <2>1. Shape' OBVIOUS
  <2>2. Places' OBVIOUS
  <2>3. Copying' OBVIOUS
  <2>4. CountIsRight'
    <3>1. Counted' = Counted BY DEF Counted
    <3> QED BY <3>1, CountStays
  <2> QED BY <2>1, <2>2, <2>3, <2>4
<1>2. ASSUME running' = running, NEW t \in running, NEW x \in Tensors, DeleteData(t, x) PROVE HostIInv'
  <2> USE <1>2 DEF DeleteData
  <2>1. Shape' OBVIOUS
  <2>2. Places' OBVIOUS
  <2>3. Copying' OBVIOUS
  <2>4. CountIsRight'
    <3>1. Counted' = Counted BY DEF Counted
    <3> QED BY <3>1, CountStays
  <2> QED BY <2>1, <2>2, <2>3, <2>4
<1>3. ASSUME running' = running, NEW t \in running, NEW x \in Tensors, TakeInput(t, x) PROVE HostIInv'
  <2> USE <1>3 DEF TakeInput
  <2>1. Shape' OBVIOUS
  <2>2. Places' OBVIOUS
  <2>3. Copying' OBVIOUS
  <2>4. CountIsRight'
    <3>1. Counted' = Counted BY DEF Counted
    <3> QED BY <3>1, CountStays
  <2> QED BY <2>1, <2>2, <2>3, <2>4
<1>4. ASSUME running' = running, NEW t \in running, NEW x \in Tensors, NEW c \in Slots,
             StartCopyToHost(t, x, c) PROVE HostIInv'
  <2> USE <1>4
  <2>1. PICK copy \in CopyStates :
          /\ copies' = [copies EXCEPT ![c] = copy] /\ copy.stage = "enqueued" /\ ~copy.borrowed
          /\ copy.mesh \in {0, mesh}
          /\ (kept' = kept \/ kept' = [kept EXCEPT ![x] = copy.mesh])
          /\ (copy.mesh # 0 => kept[x] # 0 \/ at[x] \in Meshes)
    <3> DEFINE onHost == at[x] \in {OnFrameworkMemory, OnHost}
               from == IF HoldsHostBuffer(x) THEN 0
                       ELSE IF kept[x] # 0 THEN kept[x] ELSE IF onHost THEN 0 ELSE at[x]
               copy == [stage |-> "enqueued", tensor |-> x, mesh |-> from,
                        borrowed |-> at[x] = OnFrameworkMemory /\ ~HoldsHostBuffer(x), arrived |-> from = 0]
    <3>1. from \in {0, mesh} /\ (from # 0 => kept[x] # 0 \/ at[x] \in Meshes) /\ from \in 0 .. MaxMeshes
      BY DEF StartCopyToHost, HoldsHostBuffer
    <3>2. ~(at[x] = OnFrameworkMemory /\ ~HoldsHostBuffer(x))
      BY DEF HoldsHostBuffer
    <3> HIDE DEF from
    <3>3. copy \in CopyStates
      BY <3>1 DEF CopyStates
    <3>4. copies' = [copies EXCEPT ![c] = copy] /\ (kept' = kept \/ kept' = [kept EXCEPT ![x] = from])
      BY DEF StartCopyToHost, from
    <3> QED BY <3>1, <3>2, <3>3, <3>4
  <2>2. /\ pc[t] = "idle" /\ at[x] # Nowhere /\ copies[c].stage = "none"
        /\ copying' = [copying EXCEPT ![t] = c] /\ pc' = [pc EXCEPT ![t] = "count"]
        /\ UNCHANGED <<mesh, at, hostBuffer, s_copies_to_host_in_flight, deviceWorkMutex, moving>>
    BY DEF StartCopyToHost
  <2>3. Shape' BY <2>1, <2>2
  <2>4. Places'
    <3>1. WhereDataIs' BY <2>1, <2>2
    <3>2. MovedIsOff' BY <2>1, <2>2
    <3>3. NothingLeftOnClosedMesh' BY <2>1, <2>2
    <3> QED BY <3>1, <3>2, <3>3
  <2>5. NoneBorrowed' BY <2>1, <2>2
  <2>6. EnqueuedHasThread' BY <2>1, <2>2
  <2>7. NoneAtClose'
    BY <2>1, <2>2, OnlyOne
  <2>8. OneThreadClosesAfterCopies' BY <2>1, <2>2
  <2>9. CountIsRight'
    <3>1. Counted' = Counted BY <2>1, <2>2 DEF Counted
    <3> QED BY <2>2, <3>1, CountStays
  <2> QED BY <2>3, <2>4, <2>5, <2>6, <2>7, <2>8, <2>9
<1>5. ASSUME running' = running, NEW t \in running, NEW b \in BOOLEAN, StartExecute(t, b) PROVE HostIInv'
  <2> USE <1>5 DEF StartExecute
  <2>1. Shape' OBVIOUS
  <2>2. Places' OBVIOUS
  <2>3. Copying' OBVIOUS
  <2>4. CountIsRight'
    <3>1. Counted' = Counted BY DEF Counted
    <3> QED BY <3>1, CountStays
  <2> QED BY <2>1, <2>2, <2>3, <2>4
<1>6. ASSUME running' = running, NEW t \in running, CountCopy(t) PROVE HostIInv'
  <2> USE <1>6 DEF CountCopy
  <2>1. copying[t] \in Slots /\ copies[copying[t]].stage = "enqueued"
    OBVIOUS
  <2>2. PICK copy \in CopyStates :
          /\ copies' = [copies EXCEPT ![copying[t]] = copy] /\ copy.stage = "running"
          /\ copy.mesh = copies[copying[t]].mesh /\ copy.borrowed = copies[copying[t]].borrowed
    <3> DEFINE copy == [copies[copying[t]] EXCEPT !.stage = "running"]
    <3>1. copies' = [copies EXCEPT ![copying[t]] = copy]
      BY <2>1
    <3>2. /\ copy \in CopyStates /\ copy.stage = "running"
          /\ copy.mesh = copies[copying[t]].mesh /\ copy.borrowed = copies[copying[t]].borrowed
      <4>1. copies[copying[t]] \in CopyStates BY <2>1
      <4> QED BY <4>1, StageChanges, Zenon
    <3> HIDE DEF copy
    <3> QED BY <3>1, <3>2
  <2>3. Shape' BY <2>1, <2>2
  <2>4. Places' BY <2>1, <2>2
  <2>5. NoneBorrowed' BY <2>1, <2>2
  <2>6. EnqueuedHasThread' BY <2>1, <2>2
  <2>7. NoneAtClose' BY <2>1, <2>2, OnlyOne
  <2>8. OneThreadClosesAfterCopies' BY <2>1, <2>2
  <2>9. Counted' = Counted \cup {copying[t]} /\ copying[t] \notin Counted BY <2>1, <2>2 DEF Counted
  <2>10. CountIsRight' BY <2>9, CountAdds
  <2> QED BY <2>3, <2>4, <2>5, <2>6, <2>7, <2>8, <2>10
<1>7. ASSUME running' = running, NEW t \in running, NEW x \in Tensors, MoveToHost(t, x) PROVE HostIInv'
  <2> USE <1>7 DEF MoveToHost
  <2>1. Shape' OBVIOUS
  <2>2. Places' OBVIOUS
  <2>3. Copying' OBVIOUS
  <2>4. CountIsRight'
    <3>1. Counted' = Counted BY DEF Counted
    <3> QED BY <3>1, CountStays
  <2> QED BY <2>1, <2>2, <2>3, <2>4
<1>8. ASSUME running' = running, NEW t \in running, AllMoved(t) PROVE HostIInv'
  <2> USE <1>8 DEF AllMoved
  <2>1. Shape' OBVIOUS
  <2>2. Places' OBVIOUS
  <2>3. Copying' OBVIOUS
  <2>4. CountIsRight'
    <3>1. Counted' = Counted BY DEF Counted
    <3> QED BY <3>1, CountStays
  <2> QED BY <2>1, <2>2, <2>3, <2>4
<1>9. ASSUME running' = running, NEW t \in running, WaitForCopiesToHost(t) PROVE HostIInv'
  <2> USE <1>9 DEF WaitForCopiesToHost
  <2>1. Shape' OBVIOUS
  <2>2. Places' OBVIOUS
  <2>3. NoneAtClose'
    <3> SUFFICES ASSUME Cardinality(running) = 1, NEW c \in Slots PROVE copies[c].stage = "none"
      OBVIOUS
    <3>0. \A u \in Threads : u # t => pc[u] = "idle"
      BY OnlyOne
    <3>1. copies[c].stage # "enqueued"
      BY <3>0
    <3>2. copies[c].stage \in {"none", "enqueued", "running", "copied"}
      BY DEF CopyStates
    <3> QED BY <3>1, <3>2, NoneCounted
  <2>4. Copying' BY <2>3
  <2>5. CountIsRight'
    <3>1. Counted' = Counted BY DEF Counted
    <3> QED BY <3>1, CountStays
  <2> QED BY <2>1, <2>2, <2>4, <2>5
<1>10. ASSUME running' = running, NEW t \in running, HandOver(t) PROVE HostIInv'
  <2> USE <1>10 DEF HandOver
  <2>1. /\ copies' \in [Slots -> CopyStates]
        /\ \A c \in Slots : /\ copies'[c].stage = copies[c].stage /\ copies'[c].mesh = copies[c].mesh
                             /\ copies'[c].borrowed = copies[c].borrowed
    <3> DEFINE copy(c) == [copies[c] EXCEPT !.arrived = copies[c].stage # "none"]
    <3>1. copies' = [c \in Slots |-> copy(c)]
      OBVIOUS
    <3>2. ASSUME NEW c \in Slots
          PROVE  /\ copy(c) \in CopyStates /\ copy(c).stage = copies[c].stage
                 /\ copy(c).mesh = copies[c].mesh /\ copy(c).borrowed = copies[c].borrowed
      <4>1. PICK b \in BOOLEAN : b = (copies[c].stage # "none")
        OBVIOUS
      <4>2. copies[c] \in CopyStates OBVIOUS
      <4>3. copy(c) = [copies[c] EXCEPT !.arrived = b] BY <4>1
      <4> HIDE DEF copy
      <4> QED BY <4>2, <4>3, ArrivedChanges
    <3> HIDE DEF copy, TypeOK, HandOver
    <3> QED BY <3>1, <3>2
  <2>2. Shape' BY <2>1
  <2>3. Places' OBVIOUS
  <2>4. NoneBorrowed' BY <2>1
  <2>5. EnqueuedHasThread'
    <3>1. copying' = copying /\ \A u \in Threads : pc'[u] = "count" <=> pc[u] = "count"
      OBVIOUS
    <3>2. ASSUME NEW c \in Slots, copies'[c].stage = "enqueued"
          PROVE  \E u \in Threads : pc'[u] = "count" /\ copying'[u] = c
      <4>1. copies[c].stage = "enqueued" BY <2>1, <3>2
      <4>2. PICK u \in Threads : pc[u] = "count" /\ copying[u] = c BY <4>1
      <4> WITNESS u \in Threads
      <4> QED BY <3>1, <4>2
    <3>3. ASSUME NEW u \in Threads, pc'[u] = "count"
          PROVE  /\ copying'[u] \in Slots /\ copies'[copying'[u]].stage = "enqueued"
                 /\ \A v \in Threads : pc'[v] = "count" /\ copying'[u] = copying'[v] => u = v
      BY <2>1, <3>1, <3>3
    <3> HIDE DEF HandOver
    <3> QED BY <3>2, <3>3
  <2>6. NoneAtClose' BY <2>1
  <2>7. OneThreadClosesAfterCopies' BY <2>1, OnlyOne
  <2>8. CountIsRight'
    <3>1. Counted' = Counted BY <2>1 DEF Counted
    <3> QED BY <3>1, CountStays
  <2> QED BY <2>2, <2>3, <2>4, <2>5, <2>6, <2>7, <2>8
<1>11. ASSUME running' = running, NEW t \in running, FinishExecute(t) PROVE HostIInv'
  <2> USE <1>11 DEF FinishExecute
  <2>1. Shape' OBVIOUS
  <2>2. Places'
    <3>1. \A u \in Threads : pc'[u] \notin HandingOver
      OBVIOUS
    <3>2. WhereDataIs' /\ NothingLeftOnClosedMesh' OBVIOUS
    <3> QED BY <3>1, <3>2
  <2>3. Copying' OBVIOUS
  <2>4. CountIsRight'
    <3>1. Counted' = Counted BY DEF Counted
    <3> QED BY <3>1, CountStays
  <2> QED BY <2>1, <2>2, <2>3, <2>4
<1>12. ASSUME running' = running, NEW c \in Slots, ReadArrives(c) \/ CopyData(c) PROVE HostIInv'
  <2> USE <1>12
  <2>1. PICK copy \in CopyStates :
          /\ copies' = [copies EXCEPT ![c] = copy] /\ copy.mesh = copies[c].mesh /\ copy.borrowed = copies[c].borrowed
          /\ (copy.stage = copies[c].stage \/ (copies[c].stage = "running" /\ copy.stage = "copied"))
    <3>1. CASE ReadArrives(c)
      <4> DEFINE copy == [copies[c] EXCEPT !.arrived = TRUE]
      <4>0. copies[c] \in CopyStates OBVIOUS
      <4>1. copies' = [copies EXCEPT ![c] = copy]
        BY <3>1 DEF ReadArrives
      <4>2. /\ copy \in CopyStates /\ copy.stage = copies[c].stage
            /\ copy.mesh = copies[c].mesh /\ copy.borrowed = copies[c].borrowed
        BY <4>0, ArrivedChanges
      <4> HIDE DEF copy
      <4> QED BY <4>1, <4>2
    <3>2. CASE CopyData(c)
      <4> DEFINE copy == [copies[c] EXCEPT !.stage = "copied"]
      <4>0. copies[c] \in CopyStates OBVIOUS
      <4>1. copies' = [copies EXCEPT ![c] = copy] /\ copies[c].stage = "running"
        BY <3>2 DEF CopyData
      <4>2. /\ copy \in CopyStates /\ copy.stage = "copied"
            /\ copy.mesh = copies[c].mesh /\ copy.borrowed = copies[c].borrowed
        BY <4>0, StageChanges
      <4> HIDE DEF copy
      <4> QED BY <4>1, <4>2
    <3> QED BY <3>1, <3>2
  <2>2. UNCHANGED <<mesh, at, hostBuffer, kept, s_copies_to_host_in_flight, deviceWorkMutex, moving, pc, copying>>
    BY DEF ReadArrives, CopyData
  <2>3. Shape' BY <2>1, <2>2
  <2>4. Places' BY <2>2
  <2>5. NoneBorrowed' BY <2>1, <2>2
  <2>6. EnqueuedHasThread' BY <2>1, <2>2
  <2>7. NoneAtClose' BY <2>1, <2>2
  <2>8. OneThreadClosesAfterCopies' BY <2>1, <2>2
  <2>9. CountIsRight'
    <3>1. Counted' = Counted BY <2>1, <2>2 DEF Counted
    <3> QED BY <2>2, <3>1, CountStays
  <2> QED BY <2>3, <2>4, <2>5, <2>6, <2>7, <2>8, <2>9
<1>13. ASSUME running' = running, NEW c \in Slots, FinishCopy(c) PROVE HostIInv'
  <2> USE <1>13, NoCopyIsACopy DEF FinishCopy
  <2>1. Counted' = Counted \ {c} /\ c \in Counted BY DEF Counted
  <2>2. CountIsRight' /\ s_copies_to_host_in_flight' \in Nat BY <2>1, CountRemoves
  <2>3. Shape' BY <2>2
  <2>4. Places' OBVIOUS
  <2>5. Copying' OBVIOUS
  <2> QED BY <2>2, <2>3, <2>4, <2>5
<1>14. CASE UNCHANGED vars
  BY <1>14 DEF vars, CountIsRight, Counted
<1> HIDE DEF HostIInv
<1> QED BY <1>1, <1>2, <1>3, <1>4, <1>5, <1>6, <1>7, <1>8, <1>9, <1>10, <1>11, <1>12, <1>13, <1>14
        DEF Next, ExecuteStep, CopyStep

\* Where data, host copies and reads are: the invariant the rest follows from.
THEOREM HostInvariant == Spec => []HostIInv
<1>1. Init => HostIInv
  BY HostStarts
<1>2. HostIInv /\ [Next]_vars => HostIInv'
  BY HostSteps
<1> QED BY <1>1, <1>2, PTL DEF Spec

\* The state has its type.
THEOREM HostTypeCorrect == Spec => []TypeOK
<1>1. HostIInv => TypeOK
  BY DEF HostIInv
<1> QED BY <1>1, HostInvariant, PTL

\* No tensor, and none of its host copies, is left behind on a mesh that was closed.
THEOREM NothingLeft == Spec => []NothingLeftOnClosedMesh
<1>1. HostIInv => NothingLeftOnClosedMesh
  BY DEF HostIInv
<1> QED BY <1>1, HostInvariant, PTL

\* No copy under way reads host memory that the framework has back.
THEOREM HostBuffersOutlive == Spec => []HostBufferOutlivesReads
<1>1. HostIInv => HostBufferOutlivesReads
  BY DEF HostIInv, NoneBorrowed, HostBufferOutlivesReads
<1> QED BY <1>1, HostInvariant, PTL

\* A framework of one thread closes a mesh when no copy waits for it.
THEOREM OneThreadIsSafe == Spec => []OneThreadClosesAfterCopies
<1>1. HostIInv => OneThreadClosesAfterCopies
  BY DEF HostIInv
<1> QED BY <1>1, HostInvariant, PTL

-----------------------------------------------------------------------------
(* Arithmetic.                                                             *)

LEMMA Division ==
  ASSUME NEW m \in Nat \ {0}, NEW a \in Nat
  PROVE  a \div m \in Nat /\ a % m \in 0 .. m - 1 /\ a = (a \div m) * m + (a % m)
BY Z3

LEMMA NoMultipleBetween ==
  ASSUME NEW m \in Nat \ {0}, NEW d \in Int, -m < d * m, d * m < m
  PROVE  d = 0
<1>1. CASE d >= 1
  <2>1. d * m >= m
    BY <1>1, Z3
  <2> QED BY <2>1
<1>2. CASE d <= -1
  <2>1. d * m <= -m
    BY <1>2, Z3
  <2> QED BY <2>1
<1> QED BY <1>1, <1>2

LEMMA OneQuotient ==
  ASSUME NEW m \in Nat \ {0}, NEW a \in Nat, NEW r \in 0 .. m - 1
  PROVE  (a * m + r) \div m = a /\ (a * m + r) % m = r
<1> DEFINE x == a * m + r
           b == x \div m
           s == x % m
<1>1. x \in Nat
  BY Z3
<1>2. b \in Nat /\ s \in 0 .. m - 1 /\ x = b * m + s
  BY <1>1, Division
<1>3. a * m \in Int /\ b * m \in Int
  BY <1>2, Z3
<1>4. (a - b) * m = a * m - b * m
  BY <1>2, Z3
<1> HIDE DEF b, s
<1>5. (a - b) * m = s - r
  BY <1>2, <1>3, <1>4
<1>6. a - b = 0
  BY <1>2, <1>5, NoMultipleBetween
<1>7. a = b
  BY <1>2, <1>6
<1> QED BY <1>2, <1>3, <1>7 DEF b, s

\* Of the numbers that one worker gets, the next is a round further.
LEMMA NextOfResidue ==
  ASSUME NEW m \in Nat \ {0}, NEW a \in Nat, NEW b \in Nat, a % m = b % m, a <= b, b < a + m
  PROVE  a = b
<1>1. /\ a = (a \div m) * m + (a % m) /\ b = (b \div m) * m + (b % m)
      /\ a \div m \in Nat /\ b \div m \in Nat /\ a % m \in Nat
  <2>1. a \div m \in Nat /\ a % m \in 0 .. m - 1 /\ a = (a \div m) * m + (a % m)
    BY Division
  <2>2. b \div m \in Nat /\ b = (b \div m) * m + (b % m)
    BY Division
  <2> QED BY <2>1, <2>2
<1>2. ((b \div m) - (a \div m)) * m = (b \div m) * m - (a \div m) * m
  BY <1>1, Z3
<1>3. (b \div m) - (a \div m) = 0
  <2> DEFINE x == b \div m
             y == a \div m
  <2>1. x * m \in Int /\ y * m \in Int
    BY <1>1, Z3
  <2>2. (x - y) * m = b - a
    BY <1>1, <1>2, <2>1
  <2> HIDE DEF x, y
  <2>3. x - y = 0
    BY <1>1, <2>2, NoMultipleBetween DEF x, y
  <2> QED BY <2>3 DEF x, y
<1>4. b \div m = a \div m
  BY <1>1, <1>3
<1> QED BY <1>1, <1>4

LEMMA SameResidue ==
  ASSUME NEW m \in Nat \ {0}, NEW a \in Nat
  PROVE  (a + m) % m = a % m
<1>1. a \div m \in Nat /\ a % m \in 0 .. m - 1 /\ a = (a \div m) * m + (a % m)
  BY Division
<1>2. ((a \div m) + 1) * m = (a \div m) * m + m /\ (a \div m) * m \in Int
  BY <1>1, Z3
<1> DEFINE q == a \div m
           r == a % m
<1> HIDE DEF q, r
<1>3. a + m = (q + 1) * m + r
  BY <1>1, <1>2 DEF q, r
<1>4. q + 1 \in Nat /\ r \in 0 .. m - 1
  BY <1>1 DEF q, r
<1>5. ((q + 1) * m + r) % m = r
  BY <1>4, OneQuotient
<1> QED BY <1>3, <1>5 DEF r

\* A number below n * m has a quotient below n, and the numbers below n quotients in order.
LEMMA QuotientBelow ==
  ASSUME NEW m \in Nat \ {0}, NEW n \in Nat, NEW a \in Nat, a < n * m
  PROVE  a \div m < n
<1>1. a \div m \in Nat /\ a % m \in 0 .. m - 1 /\ a = (a \div m) * m + (a % m)
  BY Division
<1> DEFINE q == a \div m
<1> HIDE DEF q
<1>2. q * m < n * m /\ q \in Nat
  <2>1. q * m \in Int /\ n * m \in Int
    BY <1>1, Z3 DEF q
  <2> QED BY <1>1, <2>1 DEF q
<1>3. q < n
  <2> SUFFICES ASSUME q >= n PROVE FALSE
    BY <1>2
  <2>1. q * m >= n * m
    BY <1>2, Z3
  <2>2. q * m \in Int /\ n * m \in Int
    BY <1>2, Z3
  <2> QED BY <1>2, <2>1, <2>2
<1> QED BY <1>3 DEF q

LEMMA PlaceBelow ==
  ASSUME NEW m \in Nat \ {0}, NEW n \in Nat, NEW a \in Nat, a < n, NEW r \in 0 .. m - 1
  PROVE  a * m + r \in 0 .. n * m - 1
<1>1. (a + 1) * m <= n * m
  BY Z3
<1>2. (a + 1) * m = a * m + m /\ a * m \in Nat /\ n * m \in Nat
  BY Z3
<1> QED BY <1>1, <1>2

-----------------------------------------------------------------------------
(* StatePoolCopy: the pages of a call.                                     *)

\* A vector read from its tile is the vector: its elements are in the top rows of the two
\* upper faces.
LEMMA ReadSlotReads ==
  ASSUME NEW slots \in Seq(Nat), Len(slots) <= MaxPairs, NEW i \in 0 .. Len(slots) - 1
  PROVE  ReadSlot(Tiled(slots), i) = slots[i + 1]
<1> DEFINE F == FaceWidth
           place == (i \div F) * F * F + (i % F)
           face == place \div (F * F)
           height == F * (face \div 2) + ((place \div F) % F)
           column == F * (face % 2) + (place % F)
<1>1. F \in Nat \ {0} /\ Len(slots) \in Nat /\ i \in Nat /\ i < 2 * F
  BY PoolCopyAssumption DEF MaxPairs
<1>2. F * F \in Nat \ {0} /\ F <= F * F /\ 4 * F * F = 4 * (F * F)
  BY <1>1, Z3
<1>3. /\ place \in 0 .. 4 * F * F - 1
      /\ height = 0 /\ column = i
  <2>1. CASE i < F
    <3>1. i \div F = 0 /\ i % F = i
      BY <1>1, <2>1, OneQuotient, 0 * F + i = i
    <3>2. place = i
      BY <1>1, <3>1, 0 * F * F = 0
    <3>3. face = 0
      <4>1. 0 * (F * F) + i = i /\ i \in 0 .. F * F - 1
        BY <1>1, <1>2, <2>1
      <4>2. i \div (F * F) = 0
        BY <4>1, <1>2, OneQuotient
      <4> QED BY <4>2, <3>2
    <3>4. 0 \div 2 = 0 /\ 0 % 2 = 0 /\ 0 % F = 0 /\ F * 0 = 0
      BY <1>1, OneQuotient, 0 * F + 0 = 0
    <3> QED BY <1>1, <1>2, <2>1, <3>1, <3>2, <3>3, <3>4
  <2>2. CASE i >= F
    <3> DEFINE r == i - F
    <3>1. r \in 0 .. F - 1 /\ i = 1 * F + r
      BY <1>1, <2>2
    <3>2. i \div F = 1 /\ i % F = r
      <4> HIDE DEF F, r
      <4>1. (1 * F + r) \div F = 1 /\ (1 * F + r) % F = r
        BY <1>1, <3>1, OneQuotient
      <4> QED BY <3>1, <4>1
    <3>3. place = F * F + r
      BY <1>1, <3>2, 1 * F * F = F * F
    <3>4. face = 1
      <4>1. 1 * (F * F) + r = F * F + r /\ r \in 0 .. F * F - 1
        BY <1>1, <1>2, <3>1
      <4>2. (F * F + r) \div (F * F) = 1
        BY <4>1, <1>2, OneQuotient
      <4> QED BY <4>2, <3>3
    <3>5. (F * F + r) \div F = F /\ (F * F + r) % F = r
      BY <1>1, <3>1, OneQuotient
    <3>6. F % F = 0
      BY <1>1, OneQuotient, 1 * F + 0 = F
    <3>7. 1 \div 2 = 0 /\ 1 % 2 = 1 /\ F * 0 = 0 /\ F * 1 = F
      BY <1>1
    <3>8. height = 0
      BY <3>3, <3>4, <3>5, <3>6, <3>7
    <3>9. column = F + r
      BY <3>3, <3>4, <3>5, <3>7
    <3> HIDE DEF height, column, place, F
    <3> QED BY <1>1, <1>2, <3>1, <3>3, <3>8, <3>9
  <2> QED BY <1>1, <2>1, <2>2
<1>4. ReadSlot(Tiled(slots), i) = Tiled(slots)[place]
  BY DEF ReadSlot
<1> HIDE DEF F
<1>5. Tiled(slots)[place] = IF height = 0 /\ column < Len(slots) THEN slots[column + 1] ELSE 0
  BY <1>3 DEF Tiled, F
<1> QED BY <1>1, <1>3, <1>4, <1>5

PagesPerSlot == poolCall.pages_per_slot
PagesOfPool == 0 .. poolCall.slots * PagesPerSlot - 1

\* The slot whose pages a slot holds at the end.
Origin(slot) ==
  LET pairs == Into(poolCall, slot)
  IN IF pairs = {} THEN slot ELSE poolCall.sources[CHOOSE i \in pairs : TRUE]

\* The page of the pool before the call that a page holds at the end.
Final(page) == Origin(page \div PagesPerSlot) * PagesPerSlot + (page % PagesPerSlot)

\* The pair that a piece of work is of, and where it reads and writes.
PairOf(work) == (work \div PagesPerSlot) + 1
SourcePage(work) == poolCall.sources[PairOf(work)] * PagesPerSlot + (work % PagesPerSlot)
TargetPage(work) == poolCall.targets[PairOf(work)] * PagesPerSlot + (work % PagesPerSlot)
ToCopy(work) == PairOf(work) \in Pairs(poolCall)

LEMMA CallFacts ==
  ASSUME poolCall \in PoolCalls, ValidCopy(poolCall)
  PROVE  /\ FaceWidth \in Nat \ {0} /\ PagesPerSlot \in Nat \ {0}
         /\ poolCall.slots \in Nat /\ poolCall.cores \in Nat \ {0}
         /\ poolCall.sources \in Seq(Nat) /\ poolCall.targets \in Seq(Nat)
         /\ Len(poolCall.sources) \in Nat \ {0} /\ Len(poolCall.sources) <= MaxPairs
         /\ Len(poolCall.targets) = Len(poolCall.sources)
         /\ \A i, j \in Pairs(poolCall) :
              /\ poolCall.sources[i] < poolCall.slots /\ poolCall.targets[i] < poolCall.slots
              /\ poolCall.sources[i] # poolCall.targets[j]
              /\ poolCall.targets[i] = poolCall.targets[j] => poolCall.sources[i] = poolCall.sources[j]
BY PoolCopyAssumption DEF ValidCopy, PagesPerSlot, MaxPairs

LEMMA OriginOfTarget ==
  ASSUME poolCall \in PoolCalls, ValidCopy(poolCall), NEW i \in Pairs(poolCall)
  PROVE  Origin(poolCall.targets[i]) = poolCall.sources[i]
<1> DEFINE pairs == Into(poolCall, poolCall.targets[i])
           j == CHOOSE k \in pairs : TRUE
<1>1. i \in pairs /\ pairs \subseteq Pairs(poolCall)
  BY DEF Into
<1>2. j \in pairs
  BY <1>1
<1>3. j \in Pairs(poolCall) /\ poolCall.targets[j] = poolCall.targets[i]
  BY <1>2 DEF Into
<1>4. poolCall.sources[j] = poolCall.sources[i]
  BY <1>3, CallFacts
<1> HIDE DEF j
<1> QED BY <1>1, <1>4 DEF Origin, j

LEMMA OriginOfSource ==
  ASSUME poolCall \in PoolCalls, ValidCopy(poolCall), NEW i \in Pairs(poolCall)
  PROVE  Origin(poolCall.sources[i]) = poolCall.sources[i]
<1>1. Into(poolCall, poolCall.sources[i]) = {}
  BY CallFacts DEF Into
<1> QED BY <1>1 DEF Origin

\* Work that there is belongs to a pair, and its pages are in the pool.
LEMMA WorkFacts ==
  ASSUME poolCall \in PoolCalls, ValidCopy(poolCall), NEW work \in Nat, work < TotalPages
  PROVE  /\ PairOf(work) \in DOMAIN poolCall.sources /\ PairOf(work) \in DOMAIN poolCall.targets
         /\ work \div PagesPerSlot \in 0 .. Len(poolCall.sources) - 1
         /\ work % PagesPerSlot \in 0 .. PagesPerSlot - 1
<1>1. work \div PagesPerSlot \in Nat /\ work % PagesPerSlot \in 0 .. PagesPerSlot - 1
  BY Division, CallFacts
<1>2. work \div PagesPerSlot < Len(poolCall.sources)
  <2> DEFINE m == PagesPerSlot
             n == Len(poolCall.sources)
  <2>1. m \in Nat \ {0} /\ n \in Nat /\ work < n * m
    BY CallFacts DEF TotalPages, PagesPerSlot
  <2> HIDE DEF m, n
  <2>2. work \div m < n
    BY <2>1, QuotientBelow
  <2> QED BY <2>2 DEF m, n
<1>3. work \div PagesPerSlot \in 0 .. Len(poolCall.sources) - 1
  BY <1>1, <1>2, CallFacts
<1>4. PairOf(work) \in 1 .. Len(poolCall.sources)
  BY <1>3, CallFacts DEF PairOf
<1>5. DOMAIN poolCall.sources = 1 .. Len(poolCall.sources) /\ DOMAIN poolCall.targets = 1 .. Len(poolCall.sources)
  BY CallFacts
<1> QED BY <1>1, <1>3, <1>4, <1>5

LEMMA PageFacts ==
  ASSUME poolCall \in PoolCalls, ValidCopy(poolCall), NEW work \in Nat, work < TotalPages, ToCopy(work)
  PROVE  /\ SourcePage(work) \in PagesOfPool /\ Final(SourcePage(work)) = SourcePage(work)
         /\ TargetPage(work) \in PagesOfPool /\ Final(TargetPage(work)) = SourcePage(work)
<1> DEFINE s == poolCall.sources[PairOf(work)]
           t == poolCall.targets[PairOf(work)]
           r == work % PagesPerSlot
<1>1. /\ s \in Nat /\ s < poolCall.slots /\ t \in Nat /\ t < poolCall.slots
      /\ Origin(s) = s /\ Origin(t) = s
  <2>1. PairOf(work) \in DOMAIN poolCall.sources /\ PairOf(work) \in DOMAIN poolCall.targets
    BY WorkFacts
  <2>2. s \in Nat /\ t \in Nat
    <3>1. \A slots \in Seq(Nat) : \A i \in DOMAIN slots : slots[i] \in Nat
      BY ElementOfSeq
    <3>2. poolCall.sources \in Seq(Nat) /\ poolCall.targets \in Seq(Nat)
      BY CallFacts
    <3> QED BY <2>1, <3>1, <3>2
  <2>3. s < poolCall.slots /\ t < poolCall.slots
    BY CallFacts DEF ToCopy
  <2>4. Origin(s) = s
    BY OriginOfSource DEF ToCopy
  <2>5. Origin(t) = s
    BY OriginOfTarget DEF ToCopy
  <2> QED BY <2>2, <2>3, <2>4, <2>5
<1>2. r \in 0 .. PagesPerSlot - 1
  BY WorkFacts
<1> HIDE DEF s, t, r
<1>3. s * PagesPerSlot + r \in PagesOfPool /\ t * PagesPerSlot + r \in PagesOfPool
  BY <1>1, <1>2, CallFacts, PlaceBelow DEF PagesOfPool
<1>4. (s * PagesPerSlot + r) \div PagesPerSlot = s /\ (s * PagesPerSlot + r) % PagesPerSlot = r
  BY <1>1, <1>2, CallFacts, OneQuotient
<1>5. (t * PagesPerSlot + r) \div PagesPerSlot = t /\ (t * PagesPerSlot + r) % PagesPerSlot = r
  BY <1>1, <1>2, CallFacts, OneQuotient
<1>6. Final(s * PagesPerSlot + r) = s * PagesPerSlot + r /\ Final(t * PagesPerSlot + r) = s * PagesPerSlot + r
  BY <1>1, <1>4, <1>5 DEF Final
<1>7. SourcePage(work) = s * PagesPerSlot + r /\ TargetPage(work) = t * PagesPerSlot + r
  BY DEF s, t, r, SourcePage, TargetPage
<1> QED BY <1>3, <1>6, <1>7

\* What the kernel reads from the vectors, and whether it skips.
LEMMA KernelReads ==
  ASSUME poolCall \in PoolCalls, ValidCopy(poolCall), NEW w, worker[w].work \in Nat, More(w)
  PROVE  /\ Source(w) = poolCall.sources[PairOf(worker[w].work)]
         /\ Target(w) = poolCall.targets[PairOf(worker[w].work)]
         /\ Page(w, Source(w)) = SourcePage(worker[w].work)
         /\ Page(w, Target(w)) = TargetPage(worker[w].work)
         /\ Skipped(w) <=> ~ToCopy(worker[w].work)
<1> DEFINE work == worker[w].work
<1>1. work \in Nat /\ work < TotalPages
  BY DEF More
<1>2. Pair(w) = work \div PagesPerSlot /\ Pair(w) \in 0 .. Len(poolCall.sources) - 1
      /\ PairOf(work) \in DOMAIN poolCall.sources
  BY <1>1, WorkFacts DEF Pair, PagesPerSlot
<1>3. Source(w) = poolCall.sources[PairOf(work)]
  BY <1>2, CallFacts, ReadSlotReads DEF Source, PairOf
<1>4. Target(w) = poolCall.targets[PairOf(work)]
  BY <1>2, CallFacts, ReadSlotReads DEF Target, PairOf
<1>5. Skipped(w) <=> ~ToCopy(work)
  BY <1>2, <1>3, <1>4 DEF Skipped, ToCopy, Pairs
<1> QED BY <1>3, <1>4, <1>5 DEF Page, SourcePage, TargetPage, PagesPerSlot

-----------------------------------------------------------------------------
(* The invariant. *)

Team == IF TotalPages < poolCall.cores THEN TotalPages ELSE poolCall.cores
Crew == 0 .. Team - 1
Launched == poolStage \in {"running", "done"}

PoolTypes ==
  /\ worker \in [Crew -> [work : Nat, buffer : {0, 1}, reading : BOOLEAN]]
  /\ pool \in [PagesOfPool -> Nat]
  /\ buffers \in [Crew -> [{0, 1} -> Nat]]
  /\ writes \in [Crew -> SUBSET [buffer : {0, 1}, page : PagesOfPool]]

\* A worker gets every Team-th page.
Dealt == \A w \in Crew : worker[w].work % Team = w

\* A page holds what it held or what it has to.
OldOrNew == \A p \in PagesOfPool : pool[p] = p \/ pool[p] = Final(p)

\* What leaves a buffer is what its page has to hold.
WritesCarry == \A w \in Crew : \A x \in writes[w] : buffers[w][x.buffer] = Final(x.page)

\* No write leaves the buffer that is used next, once it may be read into.
BuffersApart ==
  \A w \in Crew :
    /\ worker[w].buffer = 1 => \A x \in writes[w] : x.buffer = 0
    /\ worker[w].buffer = 0 /\ worker[w].reading => writes[w] = {}

\* The page that was read is the source of the work in hand, as it was before the call.
HasRead ==
  \A w \in Crew : worker[w].reading =>
    /\ worker[w].work < TotalPages /\ ToCopy(worker[w].work)
    /\ buffers[w][worker[w].buffer] = SourcePage(worker[w].work)

\* What a worker has passed is copied, or on its way.
PassedIsCopied ==
  \A q \in 0 .. TotalPages - 1 :
    ToCopy(q) /\ q < worker[q % Team].work =>
      \/ pool[TargetPage(q)] = Final(TargetPage(q))
      \/ \E x \in writes[q % Team] : x.page = TargetPage(q)

AllPassed == \A w \in Crew : worker[w].work >= TotalPages /\ writes[w] = {}

CopyInvariant ==
  /\ poolCall \in PoolCalls
  /\ poolStage \in {"validating", "rejected", "running", "done"}
  /\ Launched =>
       /\ ValidCopy(poolCall) /\ PoolTypes /\ Dealt /\ OldOrNew /\ WritesCarry /\ BuffersApart
       /\ HasRead /\ PassedIsCopied
  /\ poolStage = "done" => AllPassed

LEMMA TotalIsNat ==
  ASSUME poolCall \in PoolCalls, ValidCopy(poolCall)
  PROVE  TotalPages \in Nat \ {0} /\ Team \in Nat \ {0}
<1>1. Len(poolCall.sources) \in Nat \ {0} /\ poolCall.pages_per_slot \in Nat \ {0} /\ poolCall.cores \in Nat \ {0}
  BY CallFacts DEF PagesPerSlot
<1>2. Len(poolCall.sources) * poolCall.pages_per_slot \in Nat \ {0}
  BY <1>1, Z3
<1> QED BY <1>1, <1>2 DEF TotalPages, Team

LEMMA RoundIsCount ==
  ASSUME poolCall \in PoolCalls, ValidCopy(poolCall), PoolTypes
  PROVE  Workers = Crew /\ Cardinality(Workers) = Team
<1>1. Workers = Crew
  BY DEF Workers, PoolTypes
<1>2. Cardinality(Crew) = Team
  BY TotalIsNat, FS_Interval DEF Crew
<1> QED BY <1>1, <1>2

LEMMA CopyStarts == PoolInit => CopyInvariant
BY DEF PoolInit, CopyInvariant, Launched

LEMMA LaunchKeeps ==
  ASSUME CopyInvariant, LaunchCopy
  PROVE  CopyInvariant'
<1>1. poolCall' = poolCall /\ poolStage' = "running" /\ ValidCopy(poolCall) /\ poolCall \in PoolCalls
  BY DEF LaunchCopy, CopyInvariant
<1>2. TotalPages' = TotalPages /\ Team' = Team /\ Crew' = Crew /\ PagesOfPool' = PagesOfPool
  BY <1>1 DEF TotalPages, Team, Crew, PagesOfPool, PagesPerSlot
<1>3. Team \in Nat \ {0} /\ TotalPages \in Nat /\ PagesPerSlot \in Nat \ {0} /\ poolCall.slots \in Nat
  BY <1>1, TotalIsNat, CallFacts
<1>4. /\ worker' = [w \in Crew |-> [work |-> w, buffer |-> 0, reading |-> FALSE]]
      /\ pool' = [page \in PagesOfPool |-> page]
      /\ buffers' = [w \in Crew |-> [b \in {0, 1} |-> 0]]
      /\ writes' = [w \in Crew |-> {}]
  <2>1. 0 .. BufferedPages - 1 = {0, 1}
    BY DEF BufferedPages
  <2> QED BY <2>1 DEF LaunchCopy, Crew, Team, PagesOfPool, PagesPerSlot
<1>5. PagesOfPool \subseteq Nat
  <2>1. poolCall.slots * PagesPerSlot \in Nat
    BY <1>3, Z3
  <2> QED BY <2>1 DEF PagesOfPool
<1>6. Crew \subseteq Nat
  BY <1>3 DEF Crew
<1>7. PoolTypes'
  BY <1>2, <1>4, <1>5, <1>6 DEF PoolTypes
<1>8. Dealt'
  <2> SUFFICES ASSUME NEW w \in Crew PROVE w % Team = w
    BY <1>2, <1>4 DEF Dealt
  <2>1. w \in 0 .. Team - 1 /\ 0 * Team + w = w
    BY <1>3, <1>6 DEF Crew
  <2> QED BY <1>3, <2>1, OneQuotient
<1>9. OldOrNew' /\ WritesCarry' /\ BuffersApart' /\ HasRead'
  BY <1>2, <1>4 DEF OldOrNew, WritesCarry, BuffersApart, HasRead
<1>10. PassedIsCopied'
  <2> SUFFICES ASSUME NEW q \in 0 .. TotalPages - 1, q < q % Team PROVE FALSE
    <3>1. \A q \in 0 .. TotalPages - 1 : q % Team \in Crew
      BY <1>3, Division DEF Crew
    <3> QED BY <1>2, <1>4, <3>1 DEF PassedIsCopied
  <2>1. q \div Team \in Nat /\ q % Team \in 0 .. Team - 1 /\ q = (q \div Team) * Team + (q % Team)
    <3>1. q \in Nat
      BY <1>3
    <3> QED BY <1>3, <3>1, Division
  <2>2. (q \div Team) * Team \in Nat
    BY <1>3, <2>1, Z3
  <2> QED BY <1>3, <2>1, <2>2
<1> QED BY <1>1, <1>7, <1>8, <1>9, <1>10 DEF CopyInvariant, Launched, ValidCopy

\* What a step of a worker has in common.
Kept == poolCall' = poolCall /\ poolStage' = poolStage

LEMMA KeptFacts ==
  ASSUME Kept
  PROVE  /\ TotalPages' = TotalPages /\ Team' = Team /\ Crew' = Crew /\ PagesOfPool' = PagesOfPool
         /\ \A q : TargetPage(q)' = TargetPage(q) /\ SourcePage(q)' = SourcePage(q)
         /\ \A q : ToCopy(q)' = ToCopy(q)
         /\ \A p : Final(p)' = Final(p)
BY DEF Kept, TotalPages, Team, Crew, PagesOfPool, PagesPerSlot, TargetPage, SourcePage, PairOf,
       ToCopy, Final, Origin

\* The state of a call that runs.
Going == /\ poolCall \in PoolCalls /\ poolStage = "running" /\ ValidCopy(poolCall)
         /\ PoolTypes /\ Dealt /\ OldOrNew /\ WritesCarry /\ BuffersApart /\ HasRead /\ PassedIsCopied

LEMMA GoingIs ==
  ASSUME CopyInvariant, poolStage = "running"
  PROVE  Going
BY DEF CopyInvariant, Launched, Going

LEMMA GoesOn ==
  ASSUME Going, Kept, PoolTypes', Dealt', OldOrNew', WritesCarry', BuffersApart', HasRead', PassedIsCopied'
  PROVE  CopyInvariant'
BY DEF Going, Kept, CopyInvariant, Launched, ValidCopy

\* The next work of a worker is its own, and the only one of its own up to there.
LEMMA AdvancedIsOwn ==
  ASSUME Going, NEW w \in Crew
  PROVE  /\ Advanced(w) = worker[w].work + Team /\ Advanced(w) \in Nat /\ Advanced(w) % Team = w
         /\ \A q \in 0 .. TotalPages - 1 :
              q % Team = w /\ q < Advanced(w) => q < worker[w].work \/ q = worker[w].work
<1>1. Team \in Nat \ {0} /\ TotalPages \in Nat
  BY TotalIsNat DEF Going
<1>2. worker[w].work \in Nat /\ worker[w].work % Team = w
  BY DEF Going, PoolTypes, Dealt
<1>3. Advanced(w) = worker[w].work + Team
  BY RoundIsCount DEF Advanced, Going
<1>4. Advanced(w) % Team = w
  BY <1>1, <1>2, <1>3, SameResidue
<1>5. ASSUME NEW q \in 0 .. TotalPages - 1, q % Team = w, q < Advanced(w), ~(q < worker[w].work)
      PROVE  q = worker[w].work
  <2>1. q \in Nat /\ worker[w].work <= q /\ q < worker[w].work + Team
    BY <1>1, <1>2, <1>3, <1>5
  <2> QED BY <1>1, <1>2, <1>5, <2>1, NextOfResidue
<1>6. Advanced(w) \in Nat
  BY <1>1, <1>2, <1>3
<1>7. \A q \in 0 .. TotalPages - 1 :
        q % Team = w /\ q < Advanced(w) => q < worker[w].work \/ q = worker[w].work
  BY <1>5
<1> QED BY <1>3, <1>4, <1>6, <1>7

LEMMA CrewOf ==
  ASSUME Going, NEW q \in 0 .. TotalPages - 1
  PROVE  q % Team \in Crew /\ q \in Nat /\ q < TotalPages
<1>1. Team \in Nat \ {0} /\ TotalPages \in Nat
  BY TotalIsNat DEF Going
<1>2. q % Team \in 0 .. Team - 1
  BY <1>1, Division
<1> QED BY <1>1, <1>2 DEF Crew

LEMMA SkipKeeps ==
  ASSUME Going, NEW w \in Workers, SkipPage(w)
  PROVE  CopyInvariant'
<1>1. Kept /\ pool' = pool /\ buffers' = buffers /\ writes' = writes
  BY DEF SkipPage, Kept
<1>2. w \in Crew /\ worker' = [worker EXCEPT ![w].work = Advanced(w)]
  BY RoundIsCount DEF SkipPage, Going
<1>3. /\ TotalPages' = TotalPages /\ Team' = Team /\ Crew' = Crew /\ PagesOfPool' = PagesOfPool
      /\ \A q : TargetPage(q)' = TargetPage(q) /\ SourcePage(q)' = SourcePage(q)
      /\ \A q : ToCopy(q)' = ToCopy(q)
      /\ \A p : Final(p)' = Final(p)
  BY <1>1, KeptFacts
<1>4. worker[w].work \in Nat /\ ~ToCopy(worker[w].work)
  BY <1>2, KernelReads DEF SkipPage, Going, PoolTypes
<1>5. Advanced(w) \in Nat /\ Advanced(w) % Team = w
  BY <1>2, AdvancedIsOwn
<1>6. worker \in [Crew -> [work : Nat, buffer : {0, 1}, reading : BOOLEAN]]
  BY DEF Going, PoolTypes
<1>7. /\ worker'[w] = [worker[w] EXCEPT !.work = Advanced(w)]
      /\ \A v \in Crew \ {w} : worker'[v] = worker[v]
      /\ \A v \in Crew : worker'[v].buffer = worker[v].buffer /\ worker'[v].reading = worker[v].reading
      /\ worker'[w].work = Advanced(w)
  BY <1>2, <1>6
<1>8. PoolTypes'
  BY <1>1, <1>2, <1>3, <1>5 DEF PoolTypes, Going
<1>9. Dealt'
  BY <1>2, <1>3, <1>5, <1>7 DEF Dealt, Going
<1>10. OldOrNew' /\ WritesCarry' /\ BuffersApart'
  BY <1>1, <1>3, <1>7 DEF Going, OldOrNew, WritesCarry, BuffersApart
<1>11. HasRead'
  BY <1>1, <1>2, <1>3, <1>4, <1>7 DEF HasRead, Going
<1>12. PassedIsCopied'
  <2> SUFFICES ASSUME NEW q \in 0 .. TotalPages - 1, ToCopy(q), q < worker'[q % Team].work
               PROVE  \/ pool[TargetPage(q)] = Final(TargetPage(q))
                      \/ \E x \in writes[q % Team] : x.page = TargetPage(q)
    BY <1>1, <1>3 DEF PassedIsCopied
  <2>1. q < worker[q % Team].work
    BY <1>2, <1>4, <1>7, AdvancedIsOwn, CrewOf
  <2> QED BY <2>1 DEF Going, PassedIsCopied
<1> QED BY <1>1, <1>8, <1>9, <1>10, <1>11, <1>12, GoesOn

LEMMA ReadKeeps ==
  ASSUME Going, NEW w \in Workers, ReadPage(w)
  PROVE  CopyInvariant'
<1>1. Kept /\ pool' = pool /\ writes' = writes
  BY DEF ReadPage, Kept
<1> DEFINE b == worker[w].buffer
           page == SourcePage(worker[w].work)
<1>2. /\ w \in Crew /\ worker' = [worker EXCEPT ![w].reading = TRUE]
      /\ More(w) /\ ~Skipped(w) /\ (b = 0 => writes[w] = {})
  BY RoundIsCount DEF ReadPage, Going, BufferLeft
<1>3. /\ TotalPages' = TotalPages /\ Team' = Team /\ Crew' = Crew /\ PagesOfPool' = PagesOfPool
      /\ \A q : TargetPage(q)' = TargetPage(q) /\ SourcePage(q)' = SourcePage(q)
      /\ \A q : ToCopy(q)' = ToCopy(q)
      /\ \A p : Final(p)' = Final(p)
  BY <1>1, KeptFacts
<1>4. /\ worker[w].work \in Nat /\ worker[w].work < TotalPages /\ ToCopy(worker[w].work)
      /\ Page(w, Source(w)) = page
  BY <1>2, KernelReads DEF More, Going, PoolTypes
<1>5. page \in PagesOfPool /\ Final(page) = page
  BY <1>4, PageFacts DEF Going
<1>6. pool[page] = page /\ page \in Nat
  BY <1>5 DEF Going, OldOrNew, PoolTypes
<1>7. buffers' = [buffers EXCEPT ![w][b] = page]
  BY <1>4, <1>6 DEF ReadPage
<1>8. /\ worker \in [Crew -> [work : Nat, buffer : {0, 1}, reading : BOOLEAN]]
      /\ buffers \in [Crew -> [{0, 1} -> Nat]] /\ b \in {0, 1}
  BY <1>2 DEF Going, PoolTypes
<1>9. /\ \A v \in Crew : worker'[v].buffer = worker[v].buffer /\ worker'[v].work = worker[v].work
      /\ \A v \in Crew \ {w} : worker'[v] = worker[v] /\ buffers'[v] = buffers[v]
      /\ buffers'[w][b] = page
      /\ \A a \in {0, 1} : a # b => buffers'[w][a] = buffers[w][a]
  BY <1>2, <1>7, <1>8
<1>10. \A x \in writes[w] : x.buffer \in {0, 1} /\ x.buffer # b
  BY <1>2, <1>8 DEF Going, PoolTypes, BuffersApart
<1>11. PoolTypes'
  <2>1. worker' \in [Crew -> [work : Nat, buffer : {0, 1}, reading : BOOLEAN]]
    BY <1>2, <1>8
  <2>2. buffers' \in [Crew -> [{0, 1} -> Nat]]
    BY <1>6, <1>7, <1>8
  <2> QED BY <1>1, <1>3, <2>1, <2>2 DEF PoolTypes, Going
<1>12. Dealt' /\ OldOrNew'
  BY <1>1, <1>3, <1>9 DEF Dealt, OldOrNew, Going
<1>13. WritesCarry'
  BY <1>1, <1>2, <1>3, <1>9, <1>10 DEF WritesCarry, Going
<1>14. BuffersApart'
  BY <1>1, <1>2, <1>3, <1>9 DEF BuffersApart, Going
<1>15. HasRead'
  BY <1>1, <1>2, <1>3, <1>4, <1>9 DEF HasRead, Going
<1>16. PassedIsCopied'
  BY <1>1, <1>3, <1>9, CrewOf DEF PassedIsCopied, Going
<1> QED BY <1>1, <1>11, <1>12, <1>13, <1>14, <1>15, <1>16, GoesOn

LEMMA StartKeeps ==
  ASSUME Going, NEW w \in Workers, StartWrite(w)
  PROVE  CopyInvariant'
<1> DEFINE b == worker[w].buffer
           page == TargetPage(worker[w].work)
           write == [buffer |-> b, page |-> page]
<1>1. Kept /\ pool' = pool /\ buffers' = buffers /\ worker[w].reading
  BY DEF StartWrite, Kept
<1>2. w \in Crew
  BY RoundIsCount DEF Going
<1>3. /\ TotalPages' = TotalPages /\ Team' = Team /\ Crew' = Crew /\ PagesOfPool' = PagesOfPool
      /\ \A q : TargetPage(q)' = TargetPage(q) /\ SourcePage(q)' = SourcePage(q)
      /\ \A q : ToCopy(q)' = ToCopy(q)
      /\ \A p : Final(p)' = Final(p)
  BY <1>1, KeptFacts
<1>4. /\ worker[w].work \in Nat /\ worker[w].work < TotalPages /\ ToCopy(worker[w].work)
      /\ buffers[w][b] = SourcePage(worker[w].work)
  BY <1>1, <1>2 DEF HasRead, Going, PoolTypes
<1>5. Page(w, Target(w)) = page
  BY <1>4, KernelReads DEF More, Going
<1>6. page \in PagesOfPool /\ Final(page) = buffers[w][b]
  BY <1>4, PageFacts DEF Going
<1>7. /\ worker \in [Crew -> [work : Nat, buffer : {0, 1}, reading : BOOLEAN]]
      /\ writes \in [Crew -> SUBSET [buffer : {0, 1}, page : PagesOfPool]] /\ b \in {0, 1}
  BY <1>2 DEF Going, PoolTypes
<1>8. (b + 1) % BufferedPages = 1 - b
  BY <1>7 DEF BufferedPages
<1>9. /\ worker' = [worker EXCEPT ![w] = [work |-> Advanced(w), buffer |-> 1 - b, reading |-> FALSE]]
      /\ writes' = [writes EXCEPT ![w] = @ \cup {write}]
  BY <1>5, <1>8 DEF StartWrite
<1>10. Advanced(w) \in Nat /\ Advanced(w) % Team = w
  BY <1>2, AdvancedIsOwn
<1>11. /\ worker'[w] = [work |-> Advanced(w), buffer |-> 1 - b, reading |-> FALSE]
       /\ writes'[w] = writes[w] \cup {write}
       /\ \A v \in Crew \ {w} : worker'[v] = worker[v] /\ writes'[v] = writes[v]
  BY <1>2, <1>7, <1>9
<1>12. PoolTypes'
  <2>1. worker' \in [Crew -> [work : Nat, buffer : {0, 1}, reading : BOOLEAN]]
    <3>1. 1 - b \in {0, 1}
      BY <1>7
    <3> HIDE DEF b
    <3> QED BY <1>2, <1>7, <1>9, <1>10, <3>1
  <2>2. writes' \in [Crew -> SUBSET [buffer : {0, 1}, page : PagesOfPool]]
    <3>1. write \in [buffer : {0, 1}, page : PagesOfPool]
      BY <1>6, <1>7
    <3> HIDE DEF write
    <3> QED BY <1>2, <1>7, <1>9, <3>1
  <2> QED BY <1>1, <1>3, <2>1, <2>2 DEF PoolTypes, Going
<1>13. Dealt' /\ OldOrNew'
  BY <1>1, <1>2, <1>3, <1>10, <1>11 DEF Dealt, OldOrNew, Going
<1>14. WritesCarry'
  BY <1>1, <1>2, <1>3, <1>6, <1>11 DEF WritesCarry, Going
<1>15. BuffersApart'
  <2>1. b = 0 => writes[w] = {}
    BY <1>1, <1>2 DEF BuffersApart, Going
  <2>2. 1 - b = 1 => \A x \in writes'[w] : x.buffer = 0
    BY <1>7, <1>11, <2>1
  <2> QED BY <1>2, <1>3, <1>11, <2>2 DEF BuffersApart, Going
<1>16. HasRead'
  BY <1>1, <1>2, <1>3, <1>11 DEF HasRead, Going
<1>17. PassedIsCopied'
  <2> SUFFICES ASSUME NEW q \in 0 .. TotalPages - 1, ToCopy(q), q < worker'[q % Team].work
               PROVE  \/ pool[TargetPage(q)] = Final(TargetPage(q))
                      \/ \E x \in writes'[q % Team] : x.page = TargetPage(q)
    BY <1>1, <1>3 DEF PassedIsCopied
  <2>1. q % Team \in Crew
    BY CrewOf
  <2>2. CASE q < worker[q % Team].work
    <3>1. writes[q % Team] \subseteq writes'[q % Team]
      BY <1>11, <2>1
    <3> QED BY <2>2, <3>1 DEF Going, PassedIsCopied
  <2>3. CASE ~(q < worker[q % Team].work)
    <3>1. q % Team = w
      BY <1>11, <2>1, <2>3
    <3>2. q < Advanced(w)
      BY <1>11, <3>1
    <3>3. q = worker[w].work
      BY <1>2, <2>3, <3>1, <3>2, AdvancedIsOwn
    <3>4. write \in writes'[q % Team] /\ write.page = TargetPage(q)
      BY <1>11, <3>1, <3>3
    <3> QED BY <3>4
  <2> QED BY <2>2, <2>3
<1> QED BY <1>1, <1>12, <1>13, <1>14, <1>15, <1>16, <1>17, GoesOn

LEMMA LandKeeps ==
  ASSUME Going, NEW w \in Workers, WriteLands(w)
  PROVE  CopyInvariant'
<1>1. Kept /\ worker' = worker /\ buffers' = buffers /\ w \in Crew
  BY RoundIsCount DEF WriteLands, Kept, Going
<1>2. PICK write \in writes[w] :
        /\ pool' = [pool EXCEPT ![write.page] = buffers[w][write.buffer]]
        /\ writes' = [writes EXCEPT ![w] = @ \ {write}]
  BY DEF WriteLands
<1>3. /\ TotalPages' = TotalPages /\ Team' = Team /\ Crew' = Crew /\ PagesOfPool' = PagesOfPool
      /\ \A q : TargetPage(q)' = TargetPage(q) /\ SourcePage(q)' = SourcePage(q)
      /\ \A q : ToCopy(q)' = ToCopy(q)
      /\ \A p : Final(p)' = Final(p)
  BY <1>1, KeptFacts
<1>4. /\ pool \in [PagesOfPool -> Nat] /\ buffers \in [Crew -> [{0, 1} -> Nat]]
      /\ writes \in [Crew -> SUBSET [buffer : {0, 1}, page : PagesOfPool]]
      /\ write.page \in PagesOfPool /\ write.buffer \in {0, 1}
      /\ buffers[w][write.buffer] \in Nat /\ buffers[w][write.buffer] = Final(write.page)
  BY <1>1, <1>2 DEF Going, PoolTypes, WritesCarry
<1>5. /\ pool'[write.page] = Final(write.page)
      /\ \A p \in PagesOfPool : p # write.page => pool'[p] = pool[p]
      /\ writes'[w] = writes[w] \ {write}
      /\ \A v \in Crew : v # w => writes'[v] = writes[v]
  BY <1>1, <1>2, <1>4
<1>6. \A v \in Crew : writes'[v] \subseteq writes[v]
  BY <1>5
<1>7. PoolTypes'
  <2>1. pool' \in [PagesOfPool -> Nat]
    BY <1>2, <1>4
  <2>2. writes' \in [Crew -> SUBSET [buffer : {0, 1}, page : PagesOfPool]]
    BY <1>1, <1>2, <1>4
  <2> QED BY <1>1, <1>3, <2>1, <2>2 DEF PoolTypes, Going
<1>8. Dealt' /\ OldOrNew' /\ HasRead'
  BY <1>1, <1>3, <1>5 DEF Dealt, OldOrNew, HasRead, Going
<1>9. WritesCarry' /\ BuffersApart'
  BY <1>1, <1>3, <1>6 DEF WritesCarry, BuffersApart, Going
<1>10. PassedIsCopied'
  <2> SUFFICES ASSUME NEW q \in 0 .. TotalPages - 1, ToCopy(q), q < worker[q % Team].work
               PROVE  \/ pool'[TargetPage(q)] = Final(TargetPage(q))
                      \/ \E x \in writes'[q % Team] : x.page = TargetPage(q)
    BY <1>1, <1>3 DEF PassedIsCopied
  <2>1. q % Team \in Crew /\ TargetPage(q) \in PagesOfPool
    BY CrewOf, PageFacts DEF Going
  <2>2. \/ pool[TargetPage(q)] = Final(TargetPage(q))
        \/ \E x \in writes[q % Team] : x.page = TargetPage(q)
    BY DEF Going, PassedIsCopied
  <2>3. CASE TargetPage(q) = write.page
    BY <1>5, <2>3
  <2>4. CASE TargetPage(q) # write.page
    BY <1>5, <2>1, <2>2, <2>4
  <2> QED BY <2>3, <2>4
<1> QED BY <1>1, <1>7, <1>8, <1>9, <1>10, GoesOn

LEMMA CompleteKeeps ==
  ASSUME CopyInvariant, CompleteCopy
  PROVE  CopyInvariant'
<1>1. Going /\ poolStage' = "done" /\ UNCHANGED <<poolCall, pool, worker, buffers, writes>>
  BY GoingIs DEF CompleteCopy
<1>2. Workers = Crew /\ \A w \in Crew : worker[w].work \in Nat
  BY <1>1, RoundIsCount DEF Going, PoolTypes
<1>3. TotalPages \in Nat
  BY <1>1, TotalIsNat DEF Going
<1>4. AllPassed
  BY <1>2, <1>3 DEF AllPassed, CompleteCopy, More
<1>5. /\ TotalPages' = TotalPages /\ Team' = Team /\ Crew' = Crew /\ PagesOfPool' = PagesOfPool
      /\ \A q : TargetPage(q)' = TargetPage(q) /\ SourcePage(q)' = SourcePage(q)
      /\ \A q : ToCopy(q)' = ToCopy(q)
      /\ \A p : Final(p)' = Final(p)
  BY <1>1 DEF TotalPages, Team, Crew, PagesOfPool, PagesPerSlot, TargetPage, SourcePage, PairOf,
              ToCopy, Final, Origin
<1>6. AllPassed' /\ PoolTypes' /\ Dealt' /\ OldOrNew' /\ WritesCarry'
  BY <1>1, <1>4, <1>5 DEF AllPassed, Going, PoolTypes, Dealt, OldOrNew, WritesCarry
<1>7. BuffersApart' /\ HasRead' /\ PassedIsCopied'
  BY <1>1, <1>5 DEF Going, BuffersApart, HasRead, PassedIsCopied
<1> QED BY <1>1, <1>6, <1>7 DEF CopyInvariant, Launched, Going, ValidCopy

LEMMA NothingHappens ==
  ASSUME CopyInvariant, UNCHANGED poolVars
  PROVE  CopyInvariant'
<1>1. /\ poolCall' = poolCall /\ poolStage' = poolStage /\ pool' = pool /\ worker' = worker
      /\ buffers' = buffers /\ writes' = writes
  BY DEF poolVars
<1>2. CASE ~Launched
  BY <1>1, <1>2 DEF CopyInvariant, Launched
<1>3. CASE Launched
  <2>1. /\ TotalPages' = TotalPages /\ Team' = Team /\ Crew' = Crew /\ PagesOfPool' = PagesOfPool
        /\ \A q : TargetPage(q)' = TargetPage(q) /\ SourcePage(q)' = SourcePage(q)
        /\ \A q : ToCopy(q)' = ToCopy(q)
        /\ \A p : Final(p)' = Final(p)
    BY <1>1, KeptFacts DEF Kept
  <2>2. PoolTypes' /\ Dealt' /\ OldOrNew' /\ WritesCarry'
    BY <1>1, <1>3, <2>1 DEF CopyInvariant, PoolTypes, Dealt, OldOrNew, WritesCarry
  <2>3. BuffersApart' /\ HasRead' /\ PassedIsCopied' /\ (poolStage = "done" => AllPassed')
    BY <1>1, <1>3, <2>1 DEF CopyInvariant, BuffersApart, HasRead, PassedIsCopied, AllPassed
  <2> QED BY <1>1, <1>3, <2>2, <2>3 DEF CopyInvariant, Launched, ValidCopy
<1> QED BY <1>2, <1>3

LEMMA CopyKeeps ==
  ASSUME CopyInvariant, [PoolNext]_poolVars
  PROVE  CopyInvariant'
<1>1. CASE RejectCopy
  BY <1>1 DEF RejectCopy, CopyInvariant, Launched
<1>2. CASE LaunchCopy
  BY <1>2, LaunchKeeps
<1>3. CASE CompleteCopy
  BY <1>3, CompleteKeeps
<1>4. CASE CopyStopped \/ UNCHANGED poolVars
  BY <1>4, NothingHappens DEF CopyStopped
<1>5. ASSUME poolStage = "running", NEW w \in Workers, SkipPage(w) \/ ReadPage(w) \/ StartWrite(w) \/ WriteLands(w)
      PROVE  CopyInvariant'
  <2>1. Going
    BY <1>5, GoingIs
  <2> QED BY <1>5, <2>1, SkipKeeps, ReadKeeps, StartKeeps, LandKeeps
<1> QED BY <1>1, <1>2, <1>3, <1>4, <1>5 DEF PoolNext

\* What the workers have passed is copied, what they are at is as it was before the call,
\* and no buffer is read into that a write has not left.
THEOREM PoolCopyInvariant == PoolSpec => []CopyInvariant
<1> QED BY CopyStarts, CopyKeeps, PTL DEF PoolSpec

LEMMA EndsCopied ==
  ASSUME CopyInvariant, poolStage = "done"
  PROVE  CopiesThePairs
<1>1. /\ poolCall \in PoolCalls /\ ValidCopy(poolCall) /\ PoolTypes /\ OldOrNew /\ PassedIsCopied /\ AllPassed
  BY DEF CopyInvariant, Launched
<1>2. PagesPerSlot \in Nat \ {0} /\ poolCall.slots \in Nat /\ Len(poolCall.sources) \in Nat
  BY <1>1, CallFacts
<1> SUFFICES ASSUME NEW slot \in 0 .. poolCall.slots - 1, NEW page \in 0 .. PagesPerSlot - 1
             PROVE  pool[slot * PagesPerSlot + page] = Origin(slot) * PagesPerSlot + page
  BY DEF CopiesThePairs, Origin, PagesPerSlot
<1> DEFINE p == slot * PagesPerSlot + page
<1>3. slot \in Nat /\ slot < poolCall.slots
  BY <1>2
<1>4. p \in PagesOfPool /\ p \div PagesPerSlot = slot /\ p % PagesPerSlot = page
  <2>1. p \in 0 .. poolCall.slots * PagesPerSlot - 1
    BY <1>2, <1>3, PlaceBelow
  <2>2. p \div PagesPerSlot = slot /\ p % PagesPerSlot = page
    BY <1>2, <1>3, OneQuotient
  <2> QED BY <2>1, <2>2 DEF PagesOfPool
<1>5. Final(p) = Origin(slot) * PagesPerSlot + page
  BY <1>4 DEF Final
<1>6. CASE Into(poolCall, slot) = {}
  <2>1. Origin(slot) = slot
    BY <1>6 DEF Origin
  <2> QED BY <1>1, <1>4, <1>5, <2>1 DEF OldOrNew
<1>7. CASE Into(poolCall, slot) # {}
  <2>1. PICK i \in Pairs(poolCall) : poolCall.targets[i] = slot
    BY <1>7 DEF Into
  <2>2. i \in 1 .. Len(poolCall.sources)
    <3>1. i \in DOMAIN poolCall.sources
      BY <2>1 DEF Pairs
    <3>2. poolCall.sources \in Seq(Nat)
      BY <1>1, CallFacts
    <3> QED BY <3>1, <3>2
  <2> DEFINE q == (i - 1) * PagesPerSlot + page
  <2>3. i - 1 \in Nat /\ i - 1 < Len(poolCall.sources)
    BY <1>2, <2>2
  <2>4. q \in 0 .. TotalPages - 1 /\ q \div PagesPerSlot = i - 1 /\ q % PagesPerSlot = page
    <3>1. q \in 0 .. Len(poolCall.sources) * PagesPerSlot - 1
      BY <1>2, <2>3, PlaceBelow
    <3>2. q \div PagesPerSlot = i - 1 /\ q % PagesPerSlot = page
      BY <1>2, <2>3, OneQuotient
    <3> QED BY <3>1, <3>2 DEF TotalPages, PagesPerSlot
  <2> HIDE DEF q
  <2>5. PairOf(q) = i
    BY <2>2, <2>4 DEF PairOf
  <2>6. ToCopy(q) /\ TargetPage(q) = p
    BY <2>1, <2>4, <2>5 DEF ToCopy, TargetPage
  <2>7. Team \in Nat \ {0} /\ TotalPages \in Nat
    BY <1>1, TotalIsNat
  <2>8. q % Team \in Crew
    <3>1. q \in Nat
      BY <2>4, <2>7
    <3>2. q % Team \in 0 .. Team - 1
      BY <2>7, <3>1, Division
    <3> QED BY <3>2 DEF Crew
  <2>9. q < worker[q % Team].work /\ writes[q % Team] = {}
    BY <1>1, <2>4, <2>7, <2>8 DEF AllPassed, PoolTypes
  <2>10. pool[p] = Final(p)
    BY <1>1, <2>4, <2>6, <2>9 DEF PassedIsCopied
  <2> QED BY <1>5, <2>10
<1> QED BY <1>6, <1>7

\* When the kernels end, every page of a target holds what its source held before the call,
\* and every other page of the pool what it held: for any pool, any pairs that may be
\* copied in place, any number of cores, and whenever the writes land.
THEOREM PairsAreCopied == PoolSpec => []CopiesThePairs
<1>1. CopyInvariant => CopiesThePairs
  BY EndsCopied DEF CopiesThePairs
<1> QED BY <1>1, PoolCopyInvariant, PTL

-----------------------------------------------------------------------------
(* IndexedRows: whole groups.                                              *)

LEMMA SmallerOfTwo ==
  ASSUME NEW a \in Int, NEW b \in Int
  PROVE  Min({a, b}) = IF a <= b THEN a ELSE b
<1>1. \A x \in {a, b} : (\A y \in {a, b} : x <= y) <=> x = (IF a <= b THEN a ELSE b)
  OBVIOUS
<1> QED BY <1>1 DEF Min

LEMMA LargerOfTwo ==
  ASSUME NEW a \in Int, NEW b \in Int
  PROVE  Max({a, b}) = IF a >= b THEN a ELSE b
<1>1. \A x \in {a, b} : (\A y \in {a, b} : x >= y) <=> x = (IF a >= b THEN a ELSE b)
  OBVIOUS
<1> QED BY <1>1 DEF Max

\* Whole groups of entries.
Whole(n) == \E k \in Nat : n = k * program.group

LEMMA WholeSum ==
  ASSUME program.group \in Nat \ {0}, NEW a, NEW b, Whole(a), Whole(b)
  PROVE  Whole(a + b)
<1>1. PICK j \in Nat : a = j * program.group
  BY DEF Whole
<1>2. PICK k \in Nat : b = k * program.group
  BY DEF Whole
<1>3. j * program.group + k * program.group = (j + k) * program.group
  BY Z3
<1> QED BY <1>1, <1>2, <1>3 DEF Whole

LEMMA OneGroup ==
  ASSUME program.group \in Nat \ {0}
  PROVE  Whole(program.group) /\ Whole(0)
<1>1. program.group = 1 * program.group /\ 0 = 0 * program.group
  OBVIOUS
<1> QED BY <1>1 DEF Whole

\* Two numbers of whole groups differ by a group at least.
LEMMA WholeGap ==
  ASSUME program.group \in Nat \ {0}, NEW a, NEW b, Whole(a), Whole(b), a < b
  PROVE  a + program.group <= b /\ a \in Nat /\ b \in Nat
<1> DEFINE g == program.group
<1>1. PICK j \in Nat : a = j * g
  BY DEF Whole
<1>2. PICK k \in Nat : b = k * g
  BY DEF Whole
<1> HIDE DEF g
<1>3. g \in Nat \ {0}
  BY DEF g
<1>4. j < k
  <2> SUFFICES ASSUME j >= k PROVE FALSE
    BY <1>1, <1>2
  <2>1. j * g >= k * g
    BY <1>3, Z3
  <2>2. j * g \in Int /\ k * g \in Int
    BY <1>3, Z3
  <2> QED BY <1>1, <1>2, <2>1, <2>2
<1>5. (j + 1) * g <= k * g
  BY <1>3, <1>4, Z3
<1>6. (j + 1) * g = j * g + g /\ j * g \in Nat /\ k * g \in Nat
  BY <1>3, Z3
<1> QED BY <1>1, <1>2, <1>3, <1>5, <1>6 DEF g

-----------------------------------------------------------------------------
(* The program: a ring of whole groups. *)

Step == IF Scatters THEN program.batch ELSE program.group

ProgramFits ==
  /\ program.group \in Nat \ {0}
  /\ program.entries \in Nat \ {0} /\ Whole(program.entries)
  /\ Step \in Nat \ {0} /\ Whole(Step) /\ Step <= program.entries

\* A group's end: of whole groups, or of all entries.
Aligned(c, n) == n \in Nat /\ n <= Total(c) /\ (n = Total(c) \/ Whole(n))

\* Reader and writer of a core: the ring holds what the one has pushed and the other has
\* not popped, all of it in whole groups but the last.
InStep(c) ==
  /\ Total(c) \in Nat
  /\ Aligned(c, reader[c].base) /\ Aligned(c, reader[c].end) /\ Aligned(c, writer[c].q)
  /\ reader[c].q \in reader[c].base .. reader[c].end
  /\ ring[c].filled \in Nat /\ ring[c].filled = reader[c].base - writer[c].q
  /\ ring[c].filled + (reader[c].end - reader[c].base) <= program.entries
  /\ writer[c].at \notin {"waiting", "done"} => ring[c].filled >= Pushed(c)

Fields ==
  /\ DOMAIN reader = Cores /\ DOMAIN writer = Cores /\ DOMAIN ring = Cores
  /\ \A c \in Cores :
       /\ DOMAIN reader[c] = {"q", "base", "end", "moves", "chunk"}
       /\ DOMAIN writer[c] = {"q", "at", "position", "piece"}
       /\ DOMAIN ring[c] = {"data", "back", "front", "filled"}

RowsInvariant ==
  /\ call \in Calls
  /\ stage = "running" => ProgramFits /\ Fields /\ \A c \in Cores : InStep(c)

LEMMA PushedIs ==
  ASSUME NEW c, Total(c) \in Nat, writer[c].q \in Nat, ProgramFits
  PROVE  Pushed(c) = IF Total(c) - writer[c].q <= Step THEN Total(c) - writer[c].q ELSE Step
BY SmallerOfTwo DEF Pushed, Step, ProgramFits

LEMMA NoneWaits == RowsInvariant => NeverWaitForEachOther
<1> SUFFICES ASSUME RowsInvariant, stage = "running", NEW c \in Cores, WaitsForSpace(c), WaitsForEntries(c)
             PROVE  FALSE
  BY DEF NeverWaitForEachOther
<1> DEFINE T == Total(c)
           g == program.group
           E == program.entries
           base == reader[c].base
           w == writer[c].q
           filled == ring[c].filled
<1>1. ProgramFits /\ InStep(c)
  BY DEF RowsInvariant
<1>2. /\ T \in Nat /\ base \in Nat /\ w \in Nat /\ base <= T /\ filled = base - w /\ filled \in Nat
      /\ g \in Nat \ {0} /\ E \in Nat /\ Step \in Nat /\ Step <= E
      /\ reader[c].q = base
  BY <1>1 DEF InStep, Aligned, ProgramFits, WaitsForSpace
<1>3. E - filled < T - base /\ E - filled < g
  BY <1>2, SmallerOfTwo DEF WaitsForSpace
<1>4. filled < Step
  BY <1>1, <1>2, PushedIs DEF WaitsForEntries
<1>5. base < T /\ w < T
  BY <1>2, <1>3, <1>4
<1>6. Whole(base) /\ Whole(w) /\ Whole(E)
  BY <1>1, <1>2, <1>5 DEF InStep, Aligned, ProgramFits
<1>7. Whole(E + w)
  BY <1>1, <1>2, <1>6, WholeSum DEF ProgramFits
<1>8. base < E + w
  BY <1>2, <1>4
<1>9. base + g <= E + w
  BY <1>1, <1>2, <1>6, <1>7, <1>8, WholeGap DEF ProgramFits
<1> QED BY <1>2, <1>3, <1>9

-----------------------------------------------------------------------------
(* The steps of a core. *)

\* What every step of a core leaves.
CoreKeeps == UNCHANGED <<call, stage, program, cores>>
Elsewhere(c) ==
  /\ Fields'
  /\ \A d \in Cores \ {c} : reader'[d] = reader[d] /\ writer'[d] = writer[d] /\ ring'[d] = ring[d]

LEMMA SameNumbers ==
  ASSUME CoreKeeps
  PROVE  /\ Cores' = Cores /\ (Scatters <=> Scatters') /\ Step' = Step
         /\ \A c : Total(c)' = Total(c)
         /\ \A n : Whole(n)' <=> Whole(n)
         /\ ProgramFits <=> ProgramFits'
BY DEF CoreKeeps, Cores, Scatters, Step, Total, Count, C, Whole, ProgramFits

LEMMA StillInStep ==
  ASSUME CoreKeeps, NEW c, InStep(c),
         reader'[c].q \in reader[c].base .. reader[c].end,
         reader'[c].base = reader[c].base, reader'[c].end = reader[c].end,
         writer'[c].q = writer[c].q, ring'[c].filled = ring[c].filled,
         writer'[c].at \notin {"waiting", "done"} => ring[c].filled >= Pushed(c)
  PROVE  InStep(c)'
<1>1. Pushed(c)' = Pushed(c)
  BY SameNumbers DEF Pushed, CoreKeeps
<1>2. program'.entries = program.entries
  BY DEF CoreKeeps
<1> QED BY <1>1, <1>2, SameNumbers DEF InStep, Aligned

LEMMA CoreSteps ==
  ASSUME RowsInvariant, stage = "running", NEW c \in Cores, CoreKeeps, Elsewhere(c), InStep(c)'
  PROVE  RowsInvariant'
<1>1. \A d \in Cores \ {c} : InStep(d)'
  <2> SUFFICES ASSUME NEW d \in Cores \ {c} PROVE InStep(d)'
    OBVIOUS
  <2>1. InStep(d)
    BY DEF RowsInvariant
  <2> QED BY <2>1, StillInStep DEF Elsewhere, InStep
<1>2. Cores' = Cores /\ ProgramFits'
  BY SameNumbers DEF RowsInvariant
<1>3. Fields'
  BY DEF Elsewhere
<1>4. call' \in Calls
  BY DEF RowsInvariant, CoreKeeps
<1> QED BY <1>1, <1>2, <1>3, <1>4 DEF RowsInvariant

LEMMA CoreFields ==
  ASSUME RowsInvariant, stage = "running", NEW c \in Cores
  PROVE  /\ ProgramFits /\ Fields /\ InStep(c)
         /\ c \in DOMAIN reader /\ c \in DOMAIN writer /\ c \in DOMAIN ring
         /\ DOMAIN reader[c] = {"q", "base", "end", "moves", "chunk"}
         /\ DOMAIN writer[c] = {"q", "at", "position", "piece"}
         /\ DOMAIN ring[c] = {"data", "back", "front", "filled"}
BY DEF RowsInvariant, Fields

\* Steps that change nothing of it but how far the reader is.
LEMMA ReaderGoesOn ==
  ASSUME RowsInvariant, stage = "running", NEW c \in Cores, StreamIndex(c) \/ IssueRead(c)
  PROVE  RowsInvariant'
<1>0. ProgramFits /\ Fields /\ InStep(c)
  BY CoreFields
<1>1. CoreKeeps
  BY DEF CoreKeeps, StreamIndex, IssueRead
<1>2. CASE StreamIndex(c)
  <2>1. writer' = writer /\ ring' = ring
    BY <1>2 DEF StreamIndex
  <2>2. PICK chunk : reader' = [reader EXCEPT ![c].chunk = chunk]
    BY <1>2 DEF StreamIndex
  <2>3. Elsewhere(c)
    BY <1>0, <1>1, <2>1, <2>2 DEF Elsewhere, Fields, CoreKeeps, Cores
  <2>4. reader'[c].q = reader[c].q /\ reader'[c].base = reader[c].base /\ reader'[c].end = reader[c].end
    BY <2>2, CoreFields
  <2>5. InStep(c)'
    BY <1>0, <1>1, <2>1, <2>4, StillInStep DEF InStep
  <2> QED BY <1>1, <2>3, <2>5, CoreSteps
<1>3. CASE IssueRead(c)
  <2>1. writer' = writer
    BY <1>3 DEF IssueRead
  <2>2. PICK moves : reader' = [reader EXCEPT ![c].q = @ + 1, ![c].moves = moves]
    BY <1>3 DEF IssueRead
  <2>3. ring' = ring \/ \E slot, memory : ring' = [ring EXCEPT ![c].data[slot] = memory]
    BY <1>3 DEF IssueRead
  <2>4. /\ DOMAIN ring' = DOMAIN ring /\ \A d \in DOMAIN ring \ {c} : ring'[d] = ring[d]
        /\ DOMAIN ring'[c] = DOMAIN ring[c] /\ ring'[c].filled = ring[c].filled
    BY <2>3, CoreFields
  <2>5. Elsewhere(c)
    BY <1>0, <1>1, <2>1, <2>2, <2>4 DEF Elsewhere, Fields, CoreKeeps, Cores
  <2>6. reader'[c].q = reader[c].q + 1 /\ reader'[c].base = reader[c].base /\ reader'[c].end = reader[c].end
    BY <2>2, CoreFields
  <2>7. reader[c].q < reader[c].end
    BY <1>3 DEF IssueRead
  <2>8. InStep(c)'
    BY <1>0, <1>1, <2>1, <2>4, <2>6, <2>7, StillInStep DEF InStep, Aligned
  <2> QED BY <1>1, <2>5, <2>8, CoreSteps
<1> QED BY <1>2, <1>3

\* The group reserved is whole, or the last.
LEMMA Reserves ==
  ASSUME RowsInvariant, stage = "running", NEW c \in Cores, ReserveGroup(c)
  PROVE  RowsInvariant'
<1> DEFINE r == reader[c]
           T == Total(c)
           g == program.group
           count == Min({T - r.q, g})
<1>0. ProgramFits /\ Fields /\ InStep(c)
  BY CoreFields
<1>1. CoreKeeps /\ writer' = writer /\ ring' = ring
  BY DEF CoreKeeps, ReserveGroup
<1>2. /\ r.q = r.end /\ r.base = r.end /\ count > 0 /\ program.entries - ring[c].filled >= count
      /\ reader' = [reader EXCEPT ![c].end = r.q + count]
  BY DEF ReserveGroup
<1>3. Elsewhere(c)
  BY <1>0, <1>1, <1>2 DEF Elsewhere, Fields, CoreKeeps, Cores
<1>4. reader'[c].q = r.q /\ reader'[c].base = r.base /\ reader'[c].end = r.end + count
  BY <1>2, CoreFields
<1>5. T \in Nat /\ r.q \in Nat /\ r.q <= T /\ g \in Nat \ {0} /\ program.entries \in Nat /\ ring[c].filled \in Nat
  BY <1>0 DEF InStep, Aligned, ProgramFits
<1>6. count = IF T - r.q <= g THEN T - r.q ELSE g
  BY <1>5, SmallerOfTwo
<1>7. r.q < T /\ Whole(r.q)
  BY <1>0, <1>2, <1>5, <1>6 DEF InStep, Aligned
<1>8. Whole(r.q + g)
  BY <1>5, <1>7, OneGroup, WholeSum
<1> HIDE DEF count
<1>9. Aligned(c, r.end + count)
  BY <1>2, <1>5, <1>6, <1>8 DEF Aligned
<1>10. Aligned(c, reader[c].end)'
  BY <1>1, <1>9, <1>4, SameNumbers DEF Aligned
<1>11. Pushed(c)' = Pushed(c)
  BY <1>1, SameNumbers DEF Pushed, CoreKeeps
<1>12. InStep(c)'
  BY <1>0, <1>1, <1>2, <1>4, <1>5, <1>6, <1>10, <1>11, SameNumbers DEF InStep, Aligned, CoreKeeps
<1> QED BY <1>1, <1>3, <1>12, CoreSteps

LEMMA Pushes ==
  ASSUME RowsInvariant, stage = "running", NEW c \in Cores, PushGroup(c)
  PROVE  RowsInvariant'
<1> DEFINE r == reader[c]
           count == r.end - r.base
<1>0. ProgramFits /\ Fields /\ InStep(c)
  BY CoreFields
<1>1. CoreKeeps /\ writer' = writer
  BY DEF CoreKeeps, PushGroup
<1>2. r.q = r.end /\ reader' = [reader EXCEPT ![c].base = r.end, ![c].moves = {}]
  BY DEF PushGroup
<1>3. PICK data, back :
        ring' = [ring EXCEPT ![c] = [data |-> data, back |-> back, front |-> @.front, filled |-> @.filled + count]]
  BY DEF PushGroup
<1>4. Elsewhere(c)
  BY <1>0, <1>1, <1>2, <1>3 DEF Elsewhere, Fields, CoreKeeps, Cores
<1>5. reader'[c].q = r.q /\ reader'[c].base = r.end /\ reader'[c].end = r.end
  BY <1>2, CoreFields
<1>6. ring'[c].filled = ring[c].filled + count
  BY <1>3, CoreFields
<1>7. Pushed(c)' = Pushed(c)
  BY <1>1, SameNumbers DEF Pushed, CoreKeeps
<1>8. InStep(c)'
  <2>1. /\ r.base \in Nat /\ r.end \in Nat /\ r.base <= r.end /\ ring[c].filled \in Nat
        /\ writer[c].q \in Nat /\ Total(c) \in Nat
    BY <1>0 DEF InStep, Aligned
  <2>2. writer'[c].at \notin {"waiting", "done"} => ring[c].filled >= Pushed(c) /\ Pushed(c) \in Int
    BY <1>0, <1>1, <2>1, PushedIs DEF InStep, ProgramFits
  <2> QED BY <1>0, <1>1, <1>2, <1>5, <1>6, <1>7, <2>1, <2>2, SameNumbers DEF InStep, Aligned, CoreKeeps
<1> QED BY <1>1, <1>4, <1>8, CoreSteps

\* Entries that are popped are whole groups, or the last.
LEMMA Pops ==
  ASSUME RowsInvariant, stage = "running", NEW c \in Cores, PopEntries(c)
  PROVE  RowsInvariant'
<1> DEFINE T == Total(c)
           w == writer[c]
           n == Pushed(c)
<1>0. ProgramFits /\ Fields /\ InStep(c)
  BY CoreFields
<1>1. CoreKeeps /\ reader' = reader
  BY DEF CoreKeeps, PopEntries
<1>2. w.at = "storing" /\ writer' = [writer EXCEPT ![c].at = "waiting", ![c].q = @ + n]
  BY DEF PopEntries
<1>3. PICK front : ring' = [ring EXCEPT ![c].front = front, ![c].filled = @ - n]
  BY DEF PopEntries
<1>4. Elsewhere(c)
  BY <1>0, <1>1, <1>2, <1>3 DEF Elsewhere, Fields, CoreKeeps, Cores
<1>5. writer'[c].q = w.q + n /\ writer'[c].at = "waiting" /\ ring'[c].filled = ring[c].filled - n
  BY <1>2, <1>3, CoreFields
<1>6. /\ T \in Nat /\ w.q \in Nat /\ w.q <= T /\ Step \in Nat \ {0} /\ ring[c].filled \in Nat
      /\ program.group \in Nat \ {0} /\ ring[c].filled >= n
      /\ reader[c].base \in Nat /\ reader[c].end \in Nat /\ program.entries \in Nat
  BY <1>0, <1>2 DEF InStep, Aligned, ProgramFits
<1>7. n = IF T - w.q <= Step THEN T - w.q ELSE Step
  BY <1>0, <1>6, PushedIs
<1> HIDE DEF n
<1>8. Aligned(c, w.q + n)
  <2>1. CASE T - w.q <= Step
    BY <1>6, <1>7, <2>1 DEF Aligned
  <2>2. CASE T - w.q > Step
    <3>1. Whole(w.q)
      BY <1>0, <1>6, <2>2 DEF InStep, Aligned
    <3>2. Whole(w.q + Step)
      BY <1>0, <1>6, <3>1, WholeSum DEF ProgramFits
    <3> QED BY <1>6, <1>7, <2>2, <3>2 DEF Aligned
  <2> QED BY <1>6, <2>1, <2>2
<1>9. Aligned(c, writer[c].q)'
  BY <1>1, <1>5, <1>8, SameNumbers DEF Aligned
<1>10. n \in Nat /\ ring[c].filled = reader[c].base - w.q
  BY <1>0, <1>6, <1>7 DEF InStep
<1>11. Aligned(c, reader[c].base)' /\ Aligned(c, reader[c].end)' /\ Total(c)' \in Nat
  BY <1>0, <1>1, SameNumbers DEF InStep, Aligned
<1>12. ring'[c].filled \in Nat /\ ring'[c].filled = reader'[c].base - writer'[c].q
  BY <1>1, <1>5, <1>6, <1>10
<1>13. ring'[c].filled + (reader'[c].end - reader'[c].base) <= program'.entries
  BY <1>0, <1>1, <1>5, <1>6, <1>10 DEF InStep, CoreKeeps
<1>14. InStep(c)'
  BY <1>0, <1>1, <1>5, <1>9, <1>11, <1>12, <1>13 DEF InStep
<1> QED BY <1>1, <1>4, <1>14, CoreSteps

\* Of a ring only what its entries hold changes.
OnlyData(c) ==
  /\ DOMAIN ring' = DOMAIN ring /\ \A d \in DOMAIN ring \ {c} : ring'[d] = ring[d]
  /\ DOMAIN ring'[c] = DOMAIN ring[c] /\ ring'[c].filled = ring[c].filled

LEMMA OneSlot ==
  ASSUME RowsInvariant, stage = "running", NEW c \in Cores, NEW slot, NEW memory,
         ring' = [ring EXCEPT ![c].data[slot] = memory]
  PROVE  OnlyData(c)
BY CoreFields DEF OnlyData

\* The steps of a writer between taking entries and popping them, and those of the NoC.
LEMMA WriterGoesOn ==
  ASSUME RowsInvariant, stage = "running", NEW c \in Cores, CoreKeeps, reader' = reader, OnlyData(c),
         NEW new, DOMAIN new = DOMAIN writer[c], new.q = writer[c].q,
         writer' = [writer EXCEPT ![c] = new],
         new.at \notin {"waiting", "done"} => ring[c].filled >= Pushed(c)
  PROVE  RowsInvariant'
<1>0. ProgramFits /\ Fields /\ InStep(c)
  BY CoreFields
<1>1. writer'[c] = new
  BY CoreFields
<1>2. Elsewhere(c)
  BY <1>0, <1>1, CoreFields DEF Elsewhere, Fields, CoreKeeps, Cores, OnlyData
<1>3. InStep(c)'
  BY <1>0, <1>1, StillInStep DEF InStep, OnlyData
<1> QED BY <1>2, <1>3, CoreSteps

LEMMA Writes ==
  ASSUME RowsInvariant, stage = "running", NEW c \in Cores,
         StoreGroup(c) \/ TakeBatch(c) \/ StoreBatch(c) \/ FinishWriter(c)
         \/ ReadOverwrite(c) \/ FinishOverwrite(c) \/ ReadReduction(c) \/ FinishReduction(c)
  PROVE  RowsInvariant'
<1> DEFINE w == writer[c]
<1>0. InStep(c)
  BY CoreFields
<1>1. CoreKeeps /\ reader' = reader /\ ring' = ring
  BY DEF CoreKeeps, StoreGroup, TakeBatch, StoreBatch, StoreAll, FinishWriter, ReadOverwrite, FinishOverwrite,
         ReadReduction, FinishReduction
<1>2. OnlyData(c)
  BY <1>1 DEF OnlyData
<1>3. CASE StoreGroup(c) \/ StoreBatch(c)
  <2>1. writer' = [writer EXCEPT ![c] = [w EXCEPT !.at = "storing"]]
    BY <1>3 DEF StoreGroup, StoreBatch, StoreAll
  <2>2. ring[c].filled >= Pushed(c)
    BY <1>0, <1>3 DEF StoreGroup, StoreBatch, InStep
  <2> QED BY <1>1, <1>2, <2>1, <2>2, CoreFields, WriterGoesOn
<1>4. CASE TakeBatch(c)
  <2>1. /\ writer' = [writer EXCEPT ![c] = [w EXCEPT !.at = "updating", !.position = FirstPosition(c)]]
        /\ ring[c].filled >= Pushed(c)
    BY <1>4 DEF TakeBatch
  <2> QED BY <1>1, <1>2, <2>1, CoreFields, WriterGoesOn
<1>5. CASE FinishWriter(c)
  <2>1. writer' = [writer EXCEPT ![c] = [w EXCEPT !.at = "done"]]
    BY <1>5 DEF FinishWriter
  <2> QED BY <1>1, <1>2, <2>1, CoreFields, WriterGoesOn
<1>6. CASE ReadOverwrite(c) \/ ReadReduction(c)
  <2>1. /\ writer' = [writer EXCEPT ![c] = [w EXCEPT !.at = "landing"]]
        /\ w.at = "updating"
    BY <1>6 DEF ReadOverwrite, ReadReduction, UpdatesLeft
  <2>2. ring[c].filled >= Pushed(c)
    BY <1>0, <2>1 DEF InStep
  <2> QED BY <1>1, <1>2, <2>1, <2>2, CoreFields, WriterGoesOn
<1>7. CASE FinishOverwrite(c)
  <2>1. /\ writer' = [writer EXCEPT ![c] = [w EXCEPT !.at = "updating", !.position = @ + 1]]
        /\ w.at = "landing"
    BY <1>7 DEF FinishOverwrite
  <2>2. ring[c].filled >= Pushed(c)
    BY <1>0, <2>1 DEF InStep
  <2> QED BY <1>1, <1>2, <2>1, <2>2, CoreFields, WriterGoesOn
<1>8. CASE FinishReduction(c)
  <2>1. /\ writer' = [writer EXCEPT ![c] = [w EXCEPT !.position = @ + 1, !.piece = 1]]
        /\ w.at = "updating"
    BY <1>8 DEF FinishReduction, UpdatesLeft
  <2>2. ring[c].filled >= Pushed(c)
    BY <1>0, <2>1 DEF InStep
  <2> QED BY <1>1, <1>2, <2>1, <2>2, CoreFields, WriterGoesOn
<1> QED BY <1>3, <1>4, <1>5, <1>6, <1>7, <1>8

LEMMA Combines ==
  ASSUME RowsInvariant, stage = "running", NEW c \in Cores, ApplyWindows(c) \/ ApplyReduction(c)
  PROVE  RowsInvariant'
<1> DEFINE w == writer[c]
<1>0. InStep(c)
  BY CoreFields
<1>1. CoreKeeps /\ reader' = reader
  BY DEF CoreKeeps, ApplyWindows, ApplyReduction
<1>2. \E position, piece :
         writer' = [writer EXCEPT ![c] = [w EXCEPT !.at = "updating", !.position = position, !.piece = piece]]
  <2>1. CASE ApplyWindows(c)
    <3>1. writer' = [writer EXCEPT ![c].position = @ + 1] /\ w.at = "updating"
      BY <2>1 DEF ApplyWindows, UpdatesLeft
    <3>2. [w EXCEPT !.at = "updating", !.position = @ + 1, !.piece = w.piece] = [w EXCEPT !.position = @ + 1]
      BY <3>1, CoreFields
    <3> QED BY <3>1, <3>2
  <2>2. CASE ApplyReduction(c)
    <3>1. writer' = [writer EXCEPT ![c] = [w EXCEPT !.at = "updating", !.piece = @ + 1]]
      BY <2>2 DEF ApplyReduction
    <3>2. [w EXCEPT !.at = "updating", !.position = w.position, !.piece = w.piece + 1]
          = [w EXCEPT !.at = "updating", !.piece = @ + 1]
      BY CoreFields
    <3> QED BY <3>1, <3>2
  <2> QED BY <2>1, <2>2
<1>3. OnlyData(c)
  <2>1. CASE ApplyWindows(c)
    <3>1. PICK data : ring' = [ring EXCEPT ![c].data = data]
      BY <2>1 DEF ApplyWindows
    <3> QED BY <3>1, CoreFields DEF OnlyData
  <2>2. CASE ApplyReduction(c)
    <3>1. PICK slot, memory : ring' = [ring EXCEPT ![c].data[slot] = memory]
      BY <2>2 DEF ApplyReduction
    <3> QED BY <3>1, OneSlot
  <2> QED BY <2>1, <2>2
<1>4. ring[c].filled >= Pushed(c)
  BY <1>0 DEF InStep, ApplyWindows, ApplyReduction, UpdatesLeft
<1> QED BY <1>1, <1>2, <1>3, <1>4, CoreFields, WriterGoesOn

LEMMA Transfers ==
  ASSUME RowsInvariant, stage = "running", NEW c \in Cores, LandRead(c) \/ SendWrite(c) \/ LandWrite(c)
  PROVE  RowsInvariant'
<1>0. InStep(c)
  BY CoreFields
<1>1. CoreKeeps /\ reader' = reader /\ writer' = writer
  BY DEF CoreKeeps, LandRead, SendWrite, LandWrite
<1>2. OnlyData(c)
  <2>1. CASE LandRead(c)
    <3>1. PICK slot, memory : ring' = [ring EXCEPT ![c].data[slot] = memory]
      BY <2>1 DEF LandRead
    <3> QED BY <3>1, OneSlot
  <2>2. CASE SendWrite(c) \/ LandWrite(c)
    <3>1. ring' = ring
      BY <2>2 DEF SendWrite, LandWrite
    <3> QED BY <3>1 DEF OnlyData
  <2> QED BY <2>1, <2>2
<1>3. Elsewhere(c)
  BY <1>1, <1>2, CoreFields DEF Elsewhere, Fields, CoreKeeps, Cores, OnlyData
<1>4. InStep(c)'
  BY <1>0, <1>1, <1>2, StillInStep DEF InStep, OnlyData
<1> QED BY <1>1, <1>3, <1>4, CoreSteps

-----------------------------------------------------------------------------
(* The launch. *)

LEMMA SizesArePositive ==
  /\ MaxChunk \in Nat \ {0} /\ Granule \in Nat \ {0} /\ GroupBudget \in Nat \ {0}
  /\ MaxGroup \in Nat \ {0} /\ BatchBudget \in Nat \ {0}
BY SizesAssumption

LEMMA AlignedUp ==
  ASSUME NEW n \in Nat \ {0}
  PROVE  Align(n) \in Nat \ {0}
<1> DEFINE G == Granule
           a == n + G - 1
           k == a \div G
<1>1. G \in Nat \ {0} /\ a \in Nat
  BY SizesArePositive
<1>2. k \in Nat /\ a % G \in 0 .. G - 1 /\ a = k * G + (a % G)
  BY <1>1, Division
<1> HIDE DEF G, k
<1>3. k * G \in Nat
  BY <1>1, <1>2, Z3
<1>4. k * G > 0
  BY <1>1, <1>2, <1>3
<1> QED BY <1>3, <1>4 DEF Align, CeilDiv, k, G

LEMMA LaunchedCall ==
  ASSUME call \in Calls, Valid, ~NothingToDo
  PROVE  /\ call.grid \in Nat \ {0}
         /\ call.table.shape \in Seq(Nat) /\ Len(call.table.shape) >= 3 /\ Last(call.table.shape) \in Nat \ {0}
         /\ call.table.shape[1] \in Nat /\ call.table.shape[2] \in Nat /\ call.indices.shape[3] \in Nat
         /\ spec.column \in BOOLEAN /\ ColumnWindow \in Nat
         /\ RowSize(call.table) \in Nat /\ Window(spec) \in Nat
<1>1. /\ call.grid \in Nat \ {0} /\ call.table.shape \in Seq(Nat) /\ call.indices.shape \in Seq(Nat)
      /\ spec.column \in BOOLEAN /\ spec.sizes \in Seq(Nat) /\ spec.windows \in Seq(Nat)
      /\ RowSize(call.table) \in Nat /\ Window(spec) \in Nat
      /\ Volume(call.table.shape) # 0 => Last(call.table.shape) # 0
  BY CallsAssumption DEF spec
<1>2. /\ Len(call.table.shape) >= 3 /\ Len(call.indices.shape) = 3
      /\ Len(spec.windows) = Len(spec.sizes) /\ Len(spec.sizes) >= 1
  BY DEF Valid
<1>3. call.table.shape[1] \in Nat /\ call.table.shape[2] \in Nat /\ call.indices.shape[3] \in Nat
      /\ Last(call.table.shape) \in Nat
  <2> DEFINE table == call.table.shape
             indices == call.indices.shape
  <2>1. table \in Seq(Nat) /\ indices \in Seq(Nat) /\ Len(table) \in Nat /\ Len(table) >= 3 /\ Len(indices) = 3
    BY <1>1, <1>2, LenProperties
  <2> HIDE DEF table, indices
  <2>2. \A n \in 1 .. Len(table) : table[n] \in Nat
    BY <2>1, ElementOfSeq
  <2>3. \A n \in 1 .. Len(indices) : indices[n] \in Nat
    BY <2>1, ElementOfSeq
  <2>4. table[1] \in Nat /\ table[2] \in Nat /\ indices[3] \in Nat /\ table[Len(table)] \in Nat
    BY <2>1, <2>2, <2>3
  <2> QED BY <2>4 DEF table, indices, Last
<1>4. ColumnWindow \in Nat
  <2> DEFINE windows == spec.windows
  <2>1. windows \in Seq(Nat) /\ Len(windows) \in Nat /\ Len(windows) >= 1
    BY <1>1, <1>2, LenProperties
  <2> HIDE DEF windows
  <2>2. windows[Len(windows)] \in Nat
    BY <2>1, ElementOfSeq
  <2> QED BY <2>2 DEF ColumnWindow, Last, windows
<1> QED BY <1>1, <1>2, <1>3, <1>4 DEF NothingToDo

LEMMA EntryIsPositive ==
  ASSUME call \in Calls, Valid, ~NothingToDo
  PROVE  Chunk \in Nat \ {0} /\ Entry \in Nat \ {0}
<1>1. Chunk \in Nat \ {0}
  <2> DEFINE top == Last(call.table.shape)
  <2>1. top \in Nat \ {0} /\ MaxChunk \in Nat \ {0}
    BY LaunchedCall, SizesArePositive
  <2>2. Chunk = Min({top, MaxChunk})
    BY DEF Chunk
  <2> HIDE DEF top
  <2> QED BY <2>1, <2>2, SmallerOfTwo
<1> DEFINE other == IF spec.column THEN ColumnWindow + Granule ELSE 0
<1>2. other \in Nat
  <2> DEFINE window == ColumnWindow
  <2>1. window \in Nat
    BY LaunchedCall
  <2> HIDE DEF window
  <2>2. window + Granule \in Nat
    BY <2>1, SizesArePositive
  <2> QED BY <2>2 DEF window
<1>3. Max({Chunk, other}) \in Nat \ {0}
  BY <1>1, <1>2, LargerOfTwo
<1> QED BY <1>1, <1>3, AlignedUp DEF Entry

\* A group is of entries, and a batch is whole groups: one at least.
LEMMA GroupsInBatch ==
  ASSUME call \in Calls, Valid, ~NothingToDo
  PROVE  /\ Group \in Nat \ {0}
         /\ Scatters => /\ Batch \in Nat \ {0}
                        /\ \E k \in Nat \ {0} : Batch = k * Group
<1>1. GroupBudget \div Entry \in Nat /\ BatchBudget \div Entry \in Nat
  BY EntryIsPositive, SizesArePositive, Division
<1>2. MaxGroup \in Nat \ {0}
  BY SizesArePositive
<1>3. FullGroup \in Nat \ {0}
  <2> DEFINE low == Min({GroupBudget \div Entry, MaxGroup})
  <2>1. low \in Nat
    BY <1>1, <1>2, SmallerOfTwo
  <2>2. Max({1, low}) \in Nat \ {0}
    BY <2>1, LargerOfTwo
  <2> QED BY <2>2 DEF FullGroup, Clamp
<1>4. MostOfBatch \in Nat \ {0}
  BY <1>1, LargerOfTwo DEF MostOfBatch
<1>5. Group \in Nat \ {0} /\ (Scatters => Group <= MostOfBatch)
  BY <1>3, <1>4, SmallerOfTwo DEF Group
<1>6. ASSUME Scatters PROVE Batch \in Nat \ {0} /\ \E k \in Nat \ {0} : Batch = k * Group
  <2> DEFINE g == Group
             m == MostOfBatch
             k == m \div g
  <2>1. g \in Nat \ {0} /\ m \in Nat /\ g <= m
    BY <1>4, <1>5, <1>6
  <2>2. k \in Nat /\ m % g \in 0 .. g - 1 /\ m = k * g + (m % g)
    BY <2>1, Division
  <2>3. Batch = m - (m % g)
    BY DEF Batch
  <2> HIDE DEF g, m, k
  <2>4. k * g \in Nat
    BY <2>1, <2>2, Z3
  <2>5. Batch = k * g /\ k * g > 0
    BY <2>1, <2>2, <2>3, <2>4
  <2>6. k # 0
    BY <2>1, <2>5
  <2> QED BY <2>2, <2>4, <2>5, <2>6 DEF g
<1> QED BY <1>5, <1>6

LEMMA LaunchFits ==
  ASSUME RowsInvariant, Launch
  PROVE  ProgramFits'
<1>1. call \in Calls /\ Valid /\ ~NothingToDo /\ program' = Geometry /\ call' = call
  BY DEF Launch, RowsInvariant
<1>2. /\ program'.group = Group /\ program'.batch = Batch
      /\ program'.entries = IF Scatters THEN Batch ELSE 2 * Group
  BY <1>1 DEF Geometry
<1>3. Scatters' <=> Scatters
  BY <1>1 DEF Scatters
<1>4. Group \in Nat \ {0}
  BY <1>1, GroupsInBatch
<1>5. CASE Scatters
  <2>1. PICK k \in Nat \ {0} : Batch = k * Group
    BY <1>1, <1>5, GroupsInBatch
  <2>2. Batch \in Nat \ {0}
    BY <1>1, <1>5, GroupsInBatch
  <2> QED BY <1>2, <1>3, <1>4, <1>5, <2>1, <2>2 DEF ProgramFits, Step, Whole
<1>6. CASE ~Scatters
  <2>1. Group = 1 * Group /\ 2 * Group \in Nat \ {0} /\ Group <= 2 * Group
    BY <1>4
  <2> QED BY <1>2, <1>3, <1>4, <1>6, <2>1 DEF ProgramFits, Step, Whole
<1> QED BY <1>5, <1>6

LEMMA Counts ==
  ASSUME RowsInvariant, Launch
  PROVE  \A c \in Cores' : Total(c)' \in Nat
<1>1. call \in Calls /\ Valid /\ ~NothingToDo /\ program' = Geometry /\ call' = call /\ cores' = Split(Geometry)
  BY DEF Launch, RowsInvariant
<1> DEFINE g == Geometry
           top == Last(call.table.shape)
           columns == CeilDiv(top, Chunk)
           rest == RowSize(call.table) \div top
<1>2. columns \in Nat /\ rest \in Nat
  <2>1. top \in Nat \ {0} /\ Chunk \in Nat \ {0} /\ RowSize(call.table) \in Nat
    BY <1>1, LaunchedCall, EntryIsPositive
  <2> HIDE DEF top
  <2>2. top + Chunk - 1 \in Nat
    BY <2>1
  <2> QED BY <2>1, <2>2, Division DEF CeilDiv
<1>3. /\ g.C = columns /\ g.S = rest /\ g.B = call.table.shape[1] /\ g.N = call.table.shape[2]
      /\ g.M = call.indices.shape[3] /\ g.W = Window(spec)
      /\ g.perItem = IF spec.column THEN g.W ELSE g.W * g.S * g.C
  BY DEF Geometry
<1> HIDE DEF columns, rest, g
<1>4. g.C \in Nat /\ g.S \in Nat /\ g.B \in Nat /\ g.N \in Nat /\ g.M \in Nat /\ g.W \in Nat
  BY <1>1, <1>2, <1>3, LaunchedCall
<1>5. g.perItem \in Nat
  BY <1>3, <1>4, Z3
<1>6. Work(g) \in Nat
  <2>1. g.B * g.N * g.S \in Nat /\ g.B * g.M * g.perItem \in Nat
    BY <1>4, <1>5, Z3
  <2> QED BY <2>1 DEF Work
<1> DEFINE n == Min({call.grid, Work(g)})
<1>7. n \in Nat
  <2> DEFINE grid == call.grid
  <2>1. grid \in Nat
    BY <1>1, LaunchedCall
  <2> HIDE DEF grid
  <2>2. Min({grid, Work(g)}) \in Nat
    BY <1>6, <2>1, SmallerOfTwo
  <2> QED BY <2>2 DEF grid
<1>8. DOMAIN Split(g) = 1 .. n /\ \A c \in 1 .. n : Split(g)[c].count \in Nat
  <2>1. ASSUME NEW c \in 1 .. n PROVE Split(g)[c].count \in Nat
    <3>1. n \in Nat \ {0}
      BY <1>7, <2>1
    <3>2. Work(g) \div n \in Nat
      BY <1>6, <3>1, Division
    <3>3. Split(g)[c].count = (Work(g) \div n) + (IF c <= Work(g) % n THEN 1 ELSE 0)
      BY <2>1 DEF Split
    <3> HIDE DEF n
    <3> QED BY <3>2, <3>3
  <2>2. DOMAIN Split(g) = 1 .. n
    BY DEF Split
  <2> QED BY <2>1, <2>2
<1>9. \A c \in Cores' : Count(c)' \in Nat
  BY <1>1, <1>8 DEF Cores, Count, g
<1>10. C' \in Nat
  BY <1>1, <1>4 DEF C, g
<1> QED BY <1>9, <1>10 DEF Total

LEMMA Launches ==
  ASSUME RowsInvariant, Launch
  PROVE  RowsInvariant'
<1>1. call' \in Calls
  BY DEF RowsInvariant, Launch
<1>2. ProgramFits' /\ \A c \in Cores' : Total(c)' \in Nat
  BY LaunchFits, Counts
<1>3. Fields'
  BY DEF Launch, Fields, Cores
<1>4. ASSUME NEW c \in Cores' PROVE InStep(c)'
  <2>1. /\ reader'[c].q = 0 /\ reader'[c].base = 0 /\ reader'[c].end = 0
        /\ writer'[c].q = 0 /\ writer'[c].at = "waiting" /\ ring'[c].filled = 0
    BY <1>4 DEF Launch, Cores
  <2>2. 0 = 0 * program'.group
    BY <1>2 DEF ProgramFits
  <2>3. Aligned(c, 0)'
    BY <1>2, <1>4, <2>2 DEF Aligned, Whole
  <2>4. Aligned(c, reader[c].base)' /\ Aligned(c, reader[c].end)' /\ Aligned(c, writer[c].q)'
    BY <2>1, <2>3
  <2> QED BY <1>2, <1>4, <2>1, <2>4 DEF InStep, ProgramFits
<1> QED BY <1>1, <1>2, <1>3, <1>4 DEF RowsInvariant

-----------------------------------------------------------------------------
LEMMA RowsStart == RowsInit => RowsInvariant
BY DEF RowsInit, RowsInvariant

LEMMA RowsSteps == RowsInvariant /\ [RowsNext]_rowsVars => RowsInvariant'
<1> SUFFICES ASSUME RowsInvariant, [RowsNext]_rowsVars PROVE RowsInvariant'
  OBVIOUS
<1>1. CASE Reject \/ ReturnEmpty \/ Complete
  BY <1>1 DEF Reject, ReturnEmpty, Complete, RowsInvariant
<1>2. CASE Launch
  BY <1>2, Launches
<1>3. CASE UNCHANGED rowsVars
  <2>1. UNCHANGED <<call, stage, program, cores, reader, writer, ring>>
    BY <1>3 DEF rowsVars
  <2>2. CASE stage = "running"
    <3>1. Fields' /\ CoreKeeps
      BY <2>1, <2>2 DEF RowsInvariant, Fields, Cores, CoreKeeps
    <3>2. \A c \in Cores : InStep(c)'
      BY <2>1, <2>2, <3>1, StillInStep DEF RowsInvariant, InStep
    <3> QED BY <2>1, <2>2, <3>1, <3>2, SameNumbers DEF RowsInvariant
  <2>3. CASE stage # "running"
    BY <2>1, <2>3 DEF RowsInvariant
  <2> QED BY <2>2, <2>3
<1>4. CASE Stopped
  <2>1. stage' # "running" /\ call' = call
    BY <1>4 DEF Stopped, rowsVars
  <2> QED BY <2>1 DEF RowsInvariant
<1>5. CASE stage = "running" /\ \E c \in Cores : Core(c)
  <2>1. PICK c \in Cores : Core(c)
    BY <1>5
  <2> QED BY <1>5, <2>1, ReaderGoesOn, Reserves, Pushes, Pops, Writes, Combines, Transfers DEF Core
<1> QED BY <1>1, <1>2, <1>3, <1>4, <1>5 DEF RowsNext

\* The rows DFB holds what the reader has pushed and the writer not popped, never more than
\* its entries, and reader and writer move whole groups but for the last
\* (indexed_rows_program_factory.cpp, rows_scatter_writer.cpp).
THEOREM RowsInStep == RowsSpec => []RowsInvariant
<1>1. RowsInit => RowsInvariant
  BY RowsStart
<1>2. RowsInvariant /\ [RowsNext]_rowsVars => RowsInvariant'
  BY RowsSteps
<1> QED BY <1>1, <1>2, PTL DEF RowsSpec

\* The reader never waits for free entries while the writer waits for pushed ones, for every
\* size of entries, groups, batches and calls: batches are whole groups
\* (indexed_rows_program_factory.cpp:265).
THEOREM NeverWaiting == RowsSpec => []NeverWaitForEachOther
BY RowsInStep, NoneWaits, PTL

-----------------------------------------------------------------------------
(* IndexedRows: where items go in the output.                              *)

\* The items that go out are a gather's transfers, and a scatter's chunks of pages, numbered
\* over all cores.
ByWindow == spec.column /\ ~Scatters
Items == IF Scatters THEN B * N * S * C ELSE B * M * PerItem
StartOf(c) == IF Scatters THEN First(c) * C ELSE First(c)
Place(x) == IF ByWindow THEN x * ColumnWindow ELSE (x \div C) * R + (x % C) * program.chunk
Extent(x) == IF ByWindow THEN ColumnWindow ELSE Min({R - (x % C) * program.chunk, program.chunk})

\* A page is R elements in C chunks, of which the last may be short.
Numbers ==
  /\ B \in Nat /\ N \in Nat /\ S \in Nat /\ M \in Nat /\ W \in Nat
  /\ C \in Nat \ {0} /\ R \in Nat \ {0} /\ program.chunk \in Nat \ {0}
  /\ (C - 1) * program.chunk < R
  /\ ByWindow => ColumnWindow \in Nat \ {0}
  /\ PerItem = IF spec.column THEN W ELSE W * S * C

LEMMA Products ==
  ASSUME NEW a \in Nat, NEW b \in Nat
  PROVE  a * b \in Nat
BY Z3

LEMMA ProductsInOrder ==
  ASSUME NEW a \in Nat, NEW b \in Nat, NEW m \in Nat, a < b
  PROVE  a * m + m <= b * m /\ a * m \in Nat /\ b * m \in Nat
<1>1. (a + 1) * m <= b * m
  BY Z3
<1>2. (a + 1) * m = a * m + m /\ a * m \in Nat /\ b * m \in Nat
  BY Z3
<1> QED BY <1>1, <1>2

LEMMA ExtentIs ==
  ASSUME Numbers, NEW x \in Nat
  PROVE  /\ Place(x) \in Nat /\ Extent(x) \in Nat \ {0}
         /\ ~ByWindow => /\ x \div C \in Nat /\ x % C \in 0 .. C - 1 /\ x = (x \div C) * C + (x % C)
                         /\ Extent(x) <= R - (x % C) * program.chunk /\ Extent(x) <= program.chunk
                         /\ (x % C) * program.chunk \in Nat /\ (x \div C) * R \in Nat
<1>1. CASE ByWindow
  <2> DEFINE w == ColumnWindow
  <2>1. w \in Nat \ {0}
    BY <1>1 DEF Numbers
  <2> HIDE DEF w
  <2>2. x * w \in Nat
    BY <2>1, Products
  <2> QED BY <1>1, <2>1, <2>2 DEF Place, Extent, w
<1>2. CASE ~ByWindow
  <2> DEFINE c == C
             k == program.chunk
             a == x \div c
             r == x % c
  <2>1. c \in Nat \ {0} /\ k \in Nat \ {0} /\ R \in Nat \ {0} /\ (c - 1) * k < R
    BY DEF Numbers
  <2>2. a \in Nat /\ r \in 0 .. c - 1 /\ x = a * c + r
    BY <2>1, Division
  <2>3. Place(x) = a * R + r * k /\ Extent(x) = Min({R - r * k, k})
    BY <1>2 DEF Place, Extent
  <2> HIDE DEF c, k, a, r
  <2>4. a * R \in Nat /\ r * k \in Nat /\ (c - 1) * k \in Nat
    BY <2>1, <2>2, Z3
  <2>5. r * k < R
    <3>1. r * k <= (c - 1) * k
      BY <2>1, <2>2, Z3
    <3> QED BY <2>1, <2>4, <3>1
  <2>6. Min({R - r * k, k}) \in Nat \ {0} /\ Min({R - r * k, k}) <= R - r * k /\ Min({R - r * k, k}) <= k
    <3> DEFINE left == R - r * k
    <3>1. left \in Nat \ {0}
      BY <2>1, <2>4, <2>5
    <3> HIDE DEF left
    <3>2. Min({left, k}) \in Nat \ {0} /\ Min({left, k}) <= left /\ Min({left, k}) <= k
      BY <2>1, <3>1, SmallerOfTwo
    <3> QED BY <3>2 DEF left
  <2>7. Place(x) \in Nat /\ Extent(x) \in Nat \ {0} /\ Extent(x) <= R - r * k /\ Extent(x) <= k
    BY <2>3, <2>4, <2>6
  <2> QED BY <1>2, <2>2, <2>4, <2>7 DEF c, k, a, r
<1> QED BY <1>1, <1>2

\* Items go out in their order, each to a place of its own.
LEMMA PlacesInOrder ==
  ASSUME Numbers, NEW x \in Nat, NEW y \in Nat, x < y
  PROVE  Place(x) + Extent(x) <= Place(y)
<1>1. CASE ByWindow
  <2> DEFINE w == ColumnWindow
  <2>1. w \in Nat
    BY <1>1 DEF Numbers
  <2> HIDE DEF w
  <2>2. x * w + w <= y * w
    BY <2>1, ProductsInOrder
  <2> QED BY <1>1, <2>2 DEF Place, Extent, w
<1>2. CASE ~ByWindow
  <2> DEFINE c == C
             k == program.chunk
             a == x \div c
             r == x % c
             b == y \div c
             s == y % c
             e == Extent(x)
             p == R
  <2>1. c \in Nat \ {0} /\ k \in Nat \ {0} /\ p \in Nat \ {0}
    BY DEF Numbers
  <2>2. /\ a \in Nat /\ r \in 0 .. c - 1 /\ x = a * c + r /\ e \in Nat /\ e <= p - r * k /\ e <= k
        /\ r * k \in Nat /\ a * p \in Nat
    BY <1>2, ExtentIs
  <2>3. b \in Nat /\ s \in 0 .. c - 1 /\ y = b * c + s /\ s * k \in Nat /\ b * p \in Nat
    BY <1>2, ExtentIs
  <2>4. Place(x) = a * p + r * k /\ Place(y) = b * p + s * k
    BY <1>2 DEF Place
  <2> HIDE DEF a, r, b, s, e, c, k, p
  <2>5. a * c \in Nat /\ b * c \in Nat
    BY <2>1, <2>2, <2>3, Products
  <2>6. CASE a = b
    <3>1. r < s
      BY <2>2, <2>3, <2>5, <2>6
    <3>2. r * k + k <= s * k
      BY <2>1, <2>2, <2>3, <3>1, ProductsInOrder
    <3> QED BY <2>1, <2>2, <2>3, <2>4, <2>6, <3>2 DEF e
  <2>7. CASE a < b
    <3>1. a * p + p <= b * p
      BY <2>1, <2>2, <2>3, <2>7, ProductsInOrder
    <3> QED BY <2>1, <2>2, <2>3, <2>4, <3>1 DEF e
  <2>8. CASE b < a
    <3>1. b * c + c <= a * c
      BY <2>1, <2>2, <2>3, <2>8, ProductsInOrder
    <3> QED BY <2>1, <2>2, <2>3, <2>5, <3>1
  <2> QED BY <2>2, <2>3, <2>6, <2>7, <2>8
<1> QED BY <1>1, <1>2

LEMMA DivideTwice ==
  ASSUME NEW a \in Nat, NEW m \in Nat \ {0}, NEW n \in Nat \ {0}
  PROVE  a \div (n * m) = (a \div m) \div n
<1> DEFINE u == a \div m
           v == a % m
           h == u \div n
           l == u % n
<1>1. u \in Nat /\ v \in 0 .. m - 1 /\ a = u * m + v
  BY Division
<1>2. h \in Nat /\ l \in 0 .. n - 1 /\ u = h * n + l
  BY <1>1, Division
<1> HIDE DEF u, v, h, l
<1>3. n * m \in Nat \ {0}
  BY Z3
<1>4. l * m + v \in 0 .. n * m - 1
  BY <1>1, <1>2, PlaceBelow
<1>5. a = h * (n * m) + (l * m + v)
  <2>1. u * m = (h * n) * m + l * m
    BY <1>2, Z3
  <2>2. (h * n) * m = h * (n * m) /\ l * m \in Int /\ h * (n * m) \in Int
    BY <1>1, <1>2, Z3
  <2> QED BY <1>1, <2>1, <2>2
<1>6. (h * (n * m) + (l * m + v)) \div (n * m) = h
  BY <1>2, <1>3, <1>4, OneQuotient
<1> QED BY <1>5, <1>6 DEF h, u

\* Where a scatter's page chunks go.
LEMMA ScatterPlace ==
  ASSUME Numbers, Scatters, NEW c, First(c) \in Nat, NEW q \in Nat, NEW slot
  PROVE  /\ ScatterStore(c, q, slot).to = Place(StartOf(c) + q)
         /\ ScatterStore(c, q, slot).n = Extent(StartOf(c) + q)
<1> DEFINE f == First(c)
           m == C
           a == q \div m
           r == q % m
           x == f * m + q
<1>1. m \in Nat \ {0} /\ f \in Nat
  BY DEF Numbers
<1>2. a \in Nat /\ r \in 0 .. m - 1 /\ q = a * m + r
  BY <1>1, Division
<1> HIDE DEF f, m, a, r
<1>3. x = (f + a) * m + r
  <2>1. (f + a) * m = f * m + a * m /\ f * m \in Int /\ a * m \in Int
    BY <1>1, <1>2, Z3
  <2> QED BY <1>2, <2>1
<1>4. x \div m = f + a /\ x % m = r
  <2>1. f + a \in Nat
    BY <1>1, <1>2
  <2>2. ((f + a) * m + r) \div m = f + a /\ ((f + a) * m + r) % m = r
    BY <1>1, <1>2, <2>1, OneQuotient
  <2> QED BY <1>3, <2>2
<1> HIDE DEF x
<1>5. StartOf(c) + q = x
  BY DEF StartOf, x, f, m
<1>6. /\ Place(x) = (f + a) * R + r * program.chunk
      /\ Extent(x) = Min({R - r * program.chunk, program.chunk})
  BY <1>4 DEF Place, Extent, ByWindow, m
<1>7. /\ ScatterStore(c, q, slot).to = (f + a) * R + r * program.chunk
      /\ ScatterStore(c, q, slot).n = Min({R - r * program.chunk, program.chunk})
  BY DEF ScatterStore, Store, f, a, r, m
<1> QED BY <1>5, <1>6, <1>7

\* Where a gather's transfers go: positions of a row's windows, windows' rows and rows' chunks
\* in their order.
LEMMA WindowPlace ==
  ASSUME Numbers, ByWindow, PerItem # 0, M # 0, NEW c, First(c) \in Nat, NEW q \in Nat, NEW slot
  PROVE  /\ GatherStore(c, q, slot).to = Place(StartOf(c) + q)
         /\ GatherStore(c, q, slot).n = Extent(StartOf(c) + q)
<1> DEFINE x == First(c) + q
           m == M
           w == W
           k == ColumnWindow
           item == x \div w
           t == x % w
           b == item \div m
           j == item % m
<1>1. x \in Nat /\ m \in Nat \ {0} /\ w \in Nat \ {0} /\ k \in Nat \ {0} /\ PerItem = w
  BY DEF Numbers, ByWindow
<1> HIDE DEF k
<1>2. item \in Nat /\ t \in 0 .. w - 1 /\ x = item * w + t
  <2> HIDE DEF x, w
  <2> QED BY <1>1, Division
<1>3. b \in Nat /\ j \in 0 .. m - 1 /\ item = b * m + j
  <2> HIDE DEF item, m
  <2> QED BY <1>1, <1>2, Division
<1>4. /\ GatherStore(c, q, slot).to = b * (m * w * k) + (j * w + t) * k
      /\ GatherStore(c, q, slot).n = k
  BY <1>1 DEF GatherStore, Store, ByWindow, k
<1>5. StartOf(c) + q = x /\ Place(x) = x * k /\ Extent(x) = k
  BY DEF StartOf, Place, Extent, ByWindow, k
<1> HIDE DEF x, m, w, item, t, b, j
<1>6. b * (m * w * k) + (j * w + t) * k = x * k
  <2>1. x = (b * m + j) * w + t
    BY <1>2, <1>3
  <2>2. ((b * m + j) * w + t) * k = b * (m * w * k) + (j * w + t) * k
    BY <1>1, <1>2, <1>3, Z3
  <2> QED BY <2>1, <2>2
<1> QED BY <1>4, <1>5, <1>6

LEMMA RowPlace ==
  ASSUME Numbers, ~Scatters, ~spec.column, PerItem # 0, NEW c, First(c) \in Nat, NEW q \in Nat, NEW slot
  PROVE  /\ GatherStore(c, q, slot).to = Place(StartOf(c) + q)
         /\ GatherStore(c, q, slot).n = Extent(StartOf(c) + q)
<1> DEFINE x == First(c) + q
           w == W
           s == S
           k == C
           p == PerItem
           item == x \div p
           t == x % p
           u == t \div k
           v == t % k
           h == u \div s
           l == u % s
           page == (item * w + t \div (s * k)) * s + l
<1>1. x \in Nat /\ w \in Nat /\ s \in Nat /\ k \in Nat \ {0} /\ p = w * s * k /\ p # 0
  BY DEF Numbers
<1> HIDE DEF x, w, s, k, p
<1>2. s # 0 /\ p \in Nat \ {0} /\ w * s \in Nat
  <2>1. w * s * k \in Nat /\ w * s \in Nat /\ (s = 0 => w * s * k = 0)
    BY <1>1, Z3
  <2> QED BY <1>1, <2>1
<1>3. item \in Nat /\ t \in 0 .. p - 1 /\ x = item * p + t
  BY <1>1, <1>2, Division
<1> HIDE DEF item, t
<1>4. u \in Nat /\ v \in 0 .. k - 1 /\ t = u * k + v
  <2>1. t \in Nat
    BY <1>2, <1>3
  <2> QED BY <1>1, <2>1, Division
<1>5. t \div (s * k) = h
  <2>1. t \in Nat /\ s \in Nat \ {0}
    BY <1>1, <1>2, <1>3
  <2>2. t \div (s * k) = (t \div k) \div s
    BY <1>1, <2>1, DivideTwice
  <2> QED BY <2>2
<1> HIDE DEF u, v
<1>6. h \in Nat /\ l \in 0 .. s - 1 /\ u = h * s + l
  BY <1>1, <1>2, <1>4, Division
<1> HIDE DEF h, l
<1>7. page = item * (w * s) + u /\ page \in Nat
  <2>1. page = (item * w + h) * s + l
    BY <1>5
  <2>2. (item * w + h) * s = item * (w * s) + h * s /\ item * (w * s) \in Nat /\ h * s \in Nat
    BY <1>1, <1>2, <1>3, <1>6, Z3
  <2> HIDE DEF page
  <2>3. page = item * (w * s) + h * s + l
    BY <1>6, <2>1, <2>2
  <2> QED BY <1>4, <1>6, <2>2, <2>3
<1> HIDE DEF page
<1>8. x = page * k + v
  <2>1. item * p = (item * (w * s)) * k
    BY <1>1, <1>2, <1>3, Z3
  <2>2. (item * (w * s) + u) * k = (item * (w * s)) * k + u * k /\ (item * (w * s)) * k \in Int /\ u * k \in Int
    BY <1>1, <1>2, <1>3, <1>4, Z3
  <2> QED BY <1>3, <1>4, <1>7, <2>1, <2>2
<1>9. x \div k = page /\ x % k = v
  <2>1. (page * k + v) \div k = page /\ (page * k + v) % k = v
    BY <1>1, <1>4, <1>7, OneQuotient
  <2> QED BY <1>8, <2>1
<1>10. StartOf(c) + q = x
  BY DEF StartOf, x
<1>11. Place(x) = page * R + v * program.chunk /\ Extent(x) = Min({R - v * program.chunk, program.chunk})
  BY <1>9 DEF Place, Extent, ByWindow, k
<1>12. /\ GatherStore(c, q, slot).to = page * R + v * program.chunk
       /\ GatherStore(c, q, slot).n = Min({R - v * program.chunk, program.chunk})
  <2>1. /\ GatherStore(c, q, slot).to = ((item * w + t \div (s * k)) * s + ((t \div k) % s)) * R + (t % k) * program.chunk
        /\ GatherStore(c, q, slot).n = Min({R - (t % k) * program.chunk, program.chunk})
    BY DEF GatherStore, Store, x, w, s, k, p, item, t
  <2> QED BY <2>1 DEF page, l, u, v
<1> QED BY <1>10, <1>11, <1>12

-----------------------------------------------------------------------------
(* IndexedRows: what has gone out. *)

\* Cores take ranges of the work, in their order.
CoresInOrder ==
  /\ \A c \in Cores : c \in Nat /\ First(c) \in Nat /\ Count(c) \in Nat /\ First(c) + Count(c) <= Work(program)
  /\ \A c, d \in Cores : c < d => First(c) + Count(c) <= First(d)

\* The items that the writer of a core has begun to store, and an item's part of the output.
Begun(c) == writer[c].q + (IF writer[c].at = "storing" THEN Pushed(c) ELSE 0)
NumbersFrom(start, count) == {start + q : q \in 0 .. count - 1}
ItemsOut(c) == NumbersFrom(StartOf(c), Begun(c))
Part(x) == Place(x) .. Place(x) + Extent(x) - 1

\* A write under way is of an item of its core that nothing else is writing, and what has
\* been written is of items whose writes have landed.
StoresFit(c) ==
  /\ \A store \in stores[c] :
       /\ DOMAIN store = {"slot", "at", "n", "to", "sent", "data"}
       /\ \E x \in ItemsOut(c) : store.to = Place(x) /\ store.n = Extent(x)
  /\ \A store, other \in stores[c] : store.to = other.to => store = other
WrittenHasLanded ==
  \A z \in DOMAIN output : output[z] # Unwritten =>
    \E c \in Cores : \E x \in ItemsOut(c) : z \in Part(x) /\ \A store \in stores[c] : store.to # Place(x)

\* A gather's writer never updates entries.
OnlyScattersUpdate == \A c \in Cores : writer[c].at \in {"updating", "landing"} => Scatters

ItemsInvariant ==
  stage = "running" =>
    /\ Numbers /\ CoresInOrder /\ OnlyScattersUpdate
    /\ DOMAIN output = 0 .. Place(Items) - 1 /\ DOMAIN stores = Cores
    /\ WrittenHasLanded /\ \A c \in Cores : StoresFit(c)

LEMMA ItemsAreOwn ==
  ASSUME Numbers, CoresInOrder
  PROVE  /\ \A c \in Cores : StartOf(c) \in Nat /\ Total(c) \in Nat /\ StartOf(c) + Total(c) <= Items
         /\ \A c, d \in Cores : c < d => StartOf(c) + Total(c) <= StartOf(d)
         /\ Items \in Nat
<1> DEFINE k == IF Scatters THEN C ELSE 1
           n == Work(program)
<1>1. k \in Nat /\ n \in Nat /\ Items = n * k
  <2>1. B * N * S \in Nat /\ B * M * PerItem \in Nat
    <3>1. W * S * C \in Nat /\ PerItem \in Nat
      BY DEF Numbers, Products
    <3> QED BY <3>1, Products DEF Numbers
  <2>2. n = IF Scatters THEN B * N * S ELSE B * M * PerItem
    BY DEF Work, B, N, S, M, PerItem
  <2> QED BY <2>1, <2>2 DEF Items, Numbers
<1>2. ASSUME NEW c \in Cores
      PROVE  /\ First(c) \in Nat /\ Count(c) \in Nat /\ First(c) + Count(c) <= n
             /\ StartOf(c) = First(c) * k /\ Total(c) = Count(c) * k
  BY DEF CoresInOrder, StartOf, Total
<1> HIDE DEF k, n
<1>3. ASSUME NEW c \in Cores, NEW top \in Nat, First(c) + Count(c) <= top
      PROVE  StartOf(c) \in Nat /\ Total(c) \in Nat /\ top * k \in Nat /\ StartOf(c) + Total(c) <= top * k
  <2> DEFINE f == First(c)
             m == Count(c)
  <2>1. f \in Nat /\ m \in Nat /\ StartOf(c) = f * k /\ Total(c) = m * k /\ f + m <= top
    BY <1>2, <1>3
  <2> HIDE DEF f, m
  <2>2. f * k + m * k = (f + m) * k /\ (f + m) * k <= top * k /\ f * k \in Nat /\ m * k \in Nat /\ top * k \in Nat
    BY <1>1, <2>1, Z3
  <2> QED BY <2>1, <2>2
<1>4. \A c \in Cores : StartOf(c) \in Nat /\ Total(c) \in Nat /\ StartOf(c) + Total(c) <= Items
  BY <1>1, <1>2, <1>3
<1>5. ASSUME NEW c \in Cores, NEW d \in Cores, c < d PROVE StartOf(c) + Total(c) <= StartOf(d)
  <2>1. First(c) + Count(c) <= First(d)
    BY <1>5 DEF CoresInOrder
  <2> QED BY <1>2, <1>3, <2>1
<1> QED BY <1>1, <1>4, <1>5, Products

\* A core stores no more than its items, which are no other core's.
LEMMA OutIsOwn ==
  ASSUME RowsInvariant, ItemsInvariant, stage = "running"
  PROVE  /\ \A c \in Cores : Begun(c) \in Nat /\ Begun(c) <= Total(c) /\ writer[c].q \in Nat /\ Pushed(c) \in Nat
         /\ \A c \in Cores : \A x \in ItemsOut(c) : x \in Nat /\ x < Items
         /\ \A c, d \in Cores : \A x \in ItemsOut(c) : x \in ItemsOut(d) => c = d
<1>1. Numbers /\ CoresInOrder
  BY DEF ItemsInvariant
<1>2. ASSUME NEW c \in Cores
      PROVE  Begun(c) \in Nat /\ Begun(c) <= Total(c) /\ writer[c].q \in Nat /\ Pushed(c) \in Nat
  <2>1. ProgramFits /\ InStep(c)
    BY CoreFields
  <2>2. Total(c) \in Nat /\ writer[c].q \in Nat /\ writer[c].q <= Total(c) /\ Step \in Nat
    BY <2>1 DEF InStep, Aligned, ProgramFits
  <2>3. Pushed(c) \in Nat /\ writer[c].q + Pushed(c) <= Total(c)
    BY <2>1, <2>2, PushedIs
  <2> QED BY <2>2, <2>3 DEF Begun
<1>3. ASSUME NEW c \in Cores, NEW x \in ItemsOut(c)
      PROVE  x \in Nat /\ x < Items /\ StartOf(c) <= x /\ x < StartOf(c) + Total(c)
  <2>1. PICK q \in 0 .. Begun(c) - 1 : x = StartOf(c) + q
    BY DEF ItemsOut, NumbersFrom
  <2> QED BY <1>1, <1>2, <2>1, ItemsAreOwn
<1>4. ASSUME NEW c \in Cores, NEW d \in Cores, NEW x \in ItemsOut(c), x \in ItemsOut(d) PROVE c = d
  <2>1. /\ x \in Nat /\ StartOf(c) <= x /\ x < StartOf(c) + Total(c) /\ StartOf(d) <= x /\ x < StartOf(d) + Total(d)
    BY <1>3, <1>4
  <2>2. c \in Nat /\ d \in Nat /\ StartOf(c) \in Nat /\ StartOf(d) \in Nat /\ Total(c) \in Nat /\ Total(d) \in Nat
    BY <1>1, ItemsAreOwn DEF CoresInOrder
  <2>3. /\ c < d => StartOf(c) + Total(c) <= StartOf(d)
        /\ d < c => StartOf(d) + Total(d) <= StartOf(c)
    BY <1>1, ItemsAreOwn
  <2> QED BY <2>1, <2>2, <2>3
<1> QED BY <1>2, <1>3, <1>4

\* Parts of two items are apart.
LEMMA PartsApart ==
  ASSUME Numbers, NEW x \in Nat, NEW y \in Nat, x # y
  PROVE  /\ Place(x) # Place(y)
         /\ Place(x) + Extent(x) <= Place(y) \/ Place(y) + Extent(y) <= Place(x)
         /\ \A z : ~(z \in Part(x) /\ z \in Part(y))
<1>1. /\ Place(x) \in Nat /\ Extent(x) \in Nat \ {0} /\ Place(y) \in Nat /\ Extent(y) \in Nat \ {0}
  BY ExtentIs
<1>2. Place(x) + Extent(x) <= Place(y) \/ Place(y) + Extent(y) <= Place(x)
  BY PlacesInOrder
<1> QED BY <1>1, <1>2 DEF Part

LEMMA OutOnce == RowsInvariant /\ ItemsInvariant => ElementsGoOutOnce
<1> SUFFICES ASSUME RowsInvariant, ItemsInvariant, stage = "running", NEW c \in Cores, NEW store \in stores[c]
             PROVE  GoesOutOnce(c, store)
  BY DEF ElementsGoOutOnce
<1>1. /\ Numbers /\ CoresInOrder /\ DOMAIN output = 0 .. Place(Items) - 1
      /\ WrittenHasLanded /\ \A d \in Cores : StoresFit(d)
  BY DEF ItemsInvariant
<1>2. PICK x \in ItemsOut(c) : store.to = Place(x) /\ store.n = Extent(x)
  BY <1>1 DEF StoresFit
<1>3. x \in Nat /\ x < Items /\ Items \in Nat
  BY <1>1, OutIsOwn, ItemsAreOwn
<1>4. Place(x) \in Nat /\ Extent(x) \in Nat \ {0} /\ Place(Items) \in Nat /\ Place(x) + Extent(x) <= Place(Items)
  BY <1>1, <1>3, ExtentIs, PlacesInOrder
<1>5. ASSUME NEW z \in store.to .. store.to + store.n - 1 PROVE z \in DOMAIN output /\ output[z] = Unwritten
  <2>1. z \in DOMAIN output /\ z \in Part(x)
    BY <1>1, <1>2, <1>4, <1>5 DEF Part
  <2>2. ASSUME output[z] # Unwritten PROVE FALSE
    <3>0. PICK d \in Cores : \E y \in ItemsOut(d) : z \in Part(y) /\ \A other \in stores[d] : other.to # Place(y)
      BY <1>1, <2>1, <2>2 DEF WrittenHasLanded
    <3>1. PICK y \in ItemsOut(d) : z \in Part(y) /\ \A other \in stores[d] : other.to # Place(y)
      BY <3>0
    <3>2. y \in Nat
      BY OutIsOwn
    <3>3. x = y
      BY <1>1, <1>3, <2>1, <3>1, <3>2, PartsApart
    <3>4. c = d
      BY <3>1, <3>3, OutIsOwn
    <3> QED BY <1>2, <3>1, <3>3, <3>4
  <2> QED BY <2>1, <2>2
<1>6. ASSUME NEW d \in Cores, NEW other \in stores[d], <<d, other>> # <<c, store>>
      PROVE  other.to + other.n <= store.to \/ store.to + store.n <= other.to
  <2>1. PICK y \in ItemsOut(d) : other.to = Place(y) /\ other.n = Extent(y)
    BY <1>1 DEF StoresFit
  <2>2. y \in Nat
    BY OutIsOwn
  <2>3. CASE x = y
    <3>1. c = d
      BY <2>3, OutIsOwn
    <3>2. other = store
      BY <1>1, <1>2, <2>1, <2>3, <3>1 DEF StoresFit
    <3> QED BY <1>6, <3>1, <3>2
  <2>4. CASE x # y
    BY <1>1, <1>2, <1>3, <2>1, <2>2, <2>4, PartsApart
  <2> QED BY <2>3, <2>4
<1> QED BY <1>5, <1>6 DEF GoesOutOnce

-----------------------------------------------------------------------------
(* IndexedRows: the steps of what goes out. *)

LEMMA SameItems ==
  ASSUME CoreKeeps
  PROVE  /\ (Numbers <=> Numbers') /\ (CoresInOrder <=> CoresInOrder') /\ Items' = Items /\ Cores' = Cores
         /\ \A x : Place(x)' = Place(x) /\ Extent(x)' = Extent(x) /\ Part(x)' = Part(x)
         /\ \A c : StartOf(c)' = StartOf(c)
<1>1. /\ call' = call /\ program' = program /\ cores' = cores /\ (Scatters' <=> Scatters) /\ Cores' = Cores
      /\ spec' = spec /\ ColumnWindow' = ColumnWindow
  BY DEF CoreKeeps, Scatters, Cores, spec, ColumnWindow
<1>2. B' = B /\ N' = N /\ S' = S /\ R' = R /\ M' = M /\ W' = W /\ C' = C /\ PerItem' = PerItem
  BY <1>1 DEF B, N, S, R, M, W, C, PerItem
<1>3. ByWindow' <=> ByWindow
  BY <1>1 DEF ByWindow
<1>4. \A x : Place(x)' = Place(x) /\ Extent(x)' = Extent(x)
  BY <1>1, <1>2, <1>3 DEF Place, Extent
<1>5. \A x : Part(x)' = Part(x)
  BY <1>4 DEF Part
<1>6. \A c : StartOf(c)' = StartOf(c)
  BY <1>1, <1>2 DEF StartOf, First
<1>7. (Numbers <=> Numbers') /\ Items' = Items
  BY <1>1, <1>2, <1>3 DEF Numbers, Items
<1>8. CoresInOrder <=> CoresInOrder'
  BY <1>1 DEF CoresInOrder, First, Count, Work
<1> QED BY <1>1, <1>4, <1>5, <1>6, <1>7, <1>8

\* A step that stores nothing new, of which nothing lands.
LEMMA NothingGoesOut ==
  ASSUME ItemsInvariant, stage = "running", CoreKeeps, \A c \in Cores : Begun(c)' = Begun(c),
         stores' = stores, output' = output, OnlyScattersUpdate'
  PROVE  ItemsInvariant'
<1>1. \A c \in Cores : ItemsOut(c)' = ItemsOut(c)
  BY SameItems DEF ItemsOut
<1>2. \A c \in Cores : StoresFit(c)'
  BY <1>1, SameItems DEF ItemsInvariant, StoresFit
<1>3. WrittenHasLanded'
  BY <1>1, SameItems DEF ItemsInvariant, WrittenHasLanded
<1> QED BY <1>2, <1>3, SameItems DEF ItemsInvariant

LEMMA SamePushed ==
  ASSUME CoreKeeps, NEW d, writer'[d] = writer[d]
  PROVE  Begun(d)' = Begun(d) /\ Pushed(d)' = Pushed(d)
<1>1. Pushed(d)' = Pushed(d)
  BY SameNumbers DEF Pushed, CoreKeeps
<1> QED BY <1>1 DEF Begun

LEMMA UpdatesOfScatters ==
  ASSUME RowsInvariant, ItemsInvariant, stage = "running", NEW c \in Cores, Core(c)
  PROVE  OnlyScattersUpdate'
<1>1. CoreKeeps
  BY DEF CoreKeeps, Core, ReserveGroup, StreamIndex, IssueRead, PushGroup, StoreGroup, PopEntries, FinishWriter,
         TakeBatch, ApplyWindows, ReadOverwrite, FinishOverwrite, ReadReduction, ApplyReduction, FinishReduction,
         StoreBatch, StoreAll, LandRead, SendWrite, LandWrite
<1>2. DOMAIN writer = Cores /\ DOMAIN writer[c] = {"q", "at", "position", "piece"}
  BY DEF RowsInvariant, Fields
<1>3. Cores' = Cores /\ (Scatters <=> Scatters')
  BY <1>1, SameNumbers
<1>4. CASE \/ ReserveGroup(c) \/ StreamIndex(c) \/ IssueRead(c) \/ PushGroup(c)
           \/ LandRead(c) \/ SendWrite(c) \/ LandWrite(c)
  <2>1. writer' = writer
    BY <1>4 DEF ReserveGroup, StreamIndex, IssueRead, PushGroup, LandRead, SendWrite, LandWrite
  <2> QED BY <1>3, <2>1 DEF ItemsInvariant, OnlyScattersUpdate
<1>5. CASE \/ StoreGroup(c) \/ PopEntries(c) \/ FinishWriter(c) \/ TakeBatch(c) \/ ApplyWindows(c)
           \/ ReadOverwrite(c) \/ FinishOverwrite(c) \/ ReadReduction(c) \/ ApplyReduction(c)
           \/ FinishReduction(c) \/ StoreBatch(c)
  <2>1. \E w : writer' = [writer EXCEPT ![c] = w]
    BY <1>5 DEF StoreGroup, PopEntries, FinishWriter, TakeBatch, ApplyWindows, ReadOverwrite, FinishOverwrite,
                ReadReduction, ApplyReduction, FinishReduction, StoreBatch, StoreAll
  <2>2. \A d \in Cores \ {c} : writer'[d] = writer[d]
    BY <1>2, <2>1
  <2>3. writer'[c].at \in {"updating", "landing"} => Scatters \/ writer[c].at \in {"updating", "landing"}
    <3>1. CASE StoreGroup(c) \/ PopEntries(c) \/ FinishWriter(c) \/ StoreBatch(c)
      <4>1. writer'[c].at \in {"storing", "waiting", "done"}
        BY <1>2, <3>1 DEF StoreGroup, PopEntries, FinishWriter, StoreBatch, StoreAll
      <4> QED BY <4>1
    <3>2. CASE TakeBatch(c)
      BY <3>2 DEF TakeBatch
    <3>3. CASE \/ ApplyWindows(c) \/ ReadOverwrite(c) \/ FinishOverwrite(c) \/ ReadReduction(c)
               \/ ApplyReduction(c) \/ FinishReduction(c)
      <4>1. writer[c].at \in {"updating", "landing"}
        BY <3>3 DEF ApplyWindows, ReadOverwrite, FinishOverwrite, ReadReduction, ApplyReduction,
                    FinishReduction, UpdatesLeft
      <4> QED BY <4>1
    <3> QED BY <1>5, <3>1, <3>2, <3>3
  <2> QED BY <1>3, <2>2, <2>3 DEF ItemsInvariant, OnlyScattersUpdate
<1> QED BY <1>4, <1>5 DEF Core

LEMMA OthersSteps ==
  ASSUME RowsInvariant, ItemsInvariant, stage = "running", NEW c \in Cores,
         \/ ReserveGroup(c) \/ StreamIndex(c) \/ IssueRead(c) \/ PushGroup(c)
         \/ PopEntries(c) \/ FinishWriter(c)
         \/ TakeBatch(c) \/ ApplyWindows(c) \/ ReadOverwrite(c) \/ FinishOverwrite(c)
         \/ ReadReduction(c) \/ ApplyReduction(c) \/ FinishReduction(c) \/ LandRead(c)
  PROVE  ItemsInvariant'
<1>1. CoreKeeps /\ stores' = stores /\ output' = output
  BY DEF CoreKeeps, ReserveGroup, StreamIndex, IssueRead, PushGroup, PopEntries, FinishWriter, TakeBatch,
         ApplyWindows, ReadOverwrite, FinishOverwrite, ReadReduction, ApplyReduction, FinishReduction, LandRead
<1>2. c \in DOMAIN writer /\ DOMAIN writer[c] = {"q", "at", "position", "piece"}
  BY CoreFields
<1>3. ASSUME NEW d \in Cores, d # c PROVE Begun(d)' = Begun(d)
  <2>1. CASE ReserveGroup(c) \/ StreamIndex(c) \/ IssueRead(c) \/ PushGroup(c) \/ LandRead(c)
    <3>1. writer'[d] = writer[d]
      BY <2>1 DEF ReserveGroup, StreamIndex, IssueRead, PushGroup, LandRead
    <3> QED BY <1>1, <3>1, SamePushed
  <2>2. CASE \/ PopEntries(c) \/ FinishWriter(c) \/ TakeBatch(c) \/ ApplyWindows(c) \/ ReadOverwrite(c)
             \/ FinishOverwrite(c) \/ ReadReduction(c) \/ ApplyReduction(c) \/ FinishReduction(c)
    <3>1. \E w : writer' = [writer EXCEPT ![c] = w]
      BY <2>2 DEF PopEntries, FinishWriter, TakeBatch, ApplyWindows, ReadOverwrite, FinishOverwrite,
                  ReadReduction, ApplyReduction, FinishReduction
    <3>2. d \in DOMAIN writer
      BY <1>3, CoreFields
    <3>3. writer'[d] = writer[d]
      BY <1>3, <3>1, <3>2
    <3> QED BY <1>1, <3>3, SamePushed
  <2> QED BY <2>1, <2>2
<1>4. Begun(c)' = Begun(c)
  <2>1. CASE ReserveGroup(c) \/ StreamIndex(c) \/ IssueRead(c) \/ PushGroup(c) \/ LandRead(c)
    <3>1. writer'[c] = writer[c]
      BY <2>1 DEF ReserveGroup, StreamIndex, IssueRead, PushGroup, LandRead
    <3> QED BY <1>1, <3>1, SamePushed
  <2>2. CASE PopEntries(c)
    <3>1. /\ writer[c].at = "storing" /\ writer'[c].at = "waiting"
          /\ writer'[c].q = writer[c].q + Pushed(c)
      BY <1>2, <2>2 DEF PopEntries
    <3>2. writer[c].q \in Nat /\ Pushed(c) \in Nat
      BY OutIsOwn
    <3> QED BY <3>1, <3>2 DEF Begun
  <2>3. CASE \/ FinishWriter(c) \/ TakeBatch(c) \/ ApplyWindows(c) \/ ReadOverwrite(c) \/ FinishOverwrite(c)
             \/ ReadReduction(c) \/ ApplyReduction(c) \/ FinishReduction(c)
    <3>1. /\ writer'[c].q = writer[c].q /\ writer[c].at # "storing" /\ writer'[c].at # "storing"
      BY <1>2, <2>3 DEF FinishWriter, TakeBatch, ApplyWindows, ReadOverwrite, FinishOverwrite, ReadReduction,
                        ApplyReduction, FinishReduction, UpdatesLeft
    <3> QED BY <3>1 DEF Begun
  <2> QED BY <2>1, <2>2, <2>3
<1>5. \A d \in Cores : Begun(d)' = Begun(d)
  BY <1>3, <1>4
<1>6. OnlyScattersUpdate'
  BY UpdatesOfScatters DEF Core
<1> QED BY <1>1, <1>5, <1>6, NothingGoesOut

\* A write's data leaves: to where it was going.
LEMMA Sends ==
  ASSUME RowsInvariant, ItemsInvariant, stage = "running", NEW c \in Cores, SendWrite(c)
  PROVE  ItemsInvariant'
<1>1. CoreKeeps /\ output' = output /\ writer' = writer
  BY DEF CoreKeeps, SendWrite
<1>2. PICK store \in stores[c] :
        stores' = [stores EXCEPT ![c] = (@ \ {store}) \cup
          {[store EXCEPT !.sent = TRUE,
              !.data = [i \in 0 .. store.n - 1 |-> ring[c].data[store.slot][store.at + i]]]}]
  BY DEF SendWrite
<1> DEFINE gone == [store EXCEPT !.sent = TRUE,
                      !.data = [i \in 0 .. store.n - 1 |-> ring[c].data[store.slot][store.at + i]]]
<1>3. /\ DOMAIN stores = Cores /\ StoresFit(c) /\ \A d \in Cores : StoresFit(d)
  BY DEF ItemsInvariant
<1>4. /\ DOMAIN gone = {"slot", "at", "n", "to", "sent", "data"} /\ gone.to = store.to /\ gone.n = store.n
  BY <1>2, <1>3 DEF StoresFit
<1> HIDE DEF gone
<1>5. /\ stores'[c] = (stores[c] \ {store}) \cup {gone} /\ DOMAIN stores' = Cores
      /\ \A d \in Cores \ {c} : stores'[d] = stores[d]
  BY <1>2, <1>3 DEF gone
<1>6. \A d \in Cores : ItemsOut(d)' = ItemsOut(d)
  BY <1>1, SamePushed, SameItems DEF ItemsOut
<1>7. ASSUME NEW d \in Cores PROVE StoresFit(d)'
  <2>1. CASE d = c
    BY <1>3, <1>4, <1>5, <1>6, <1>1, <2>1, SameItems DEF StoresFit
  <2>2. CASE d # c
    BY <1>3, <1>5, <1>6, <1>1, <2>2, SameItems DEF StoresFit
  <2> QED BY <2>1, <2>2
<1>8. \A d \in Cores : \A x : (\A s \in stores[d] : s.to # Place(x)) => \A s \in stores'[d] : s.to # Place(x)
  BY <1>4, <1>5
<1>9. WrittenHasLanded'
  BY <1>1, <1>6, <1>8, SameItems DEF ItemsInvariant, WrittenHasLanded
<1>10. OnlyScattersUpdate'
  BY UpdatesOfScatters DEF Core
<1> QED BY <1>1, <1>5, <1>7, <1>9, <1>10, SameItems DEF ItemsInvariant

\* A write lands: what it wrote is of an item that has no write under way any more.
LEMMA Lands ==
  ASSUME RowsInvariant, ItemsInvariant, stage = "running", NEW c \in Cores, LandWrite(c)
  PROVE  ItemsInvariant'
<1>1. CoreKeeps /\ writer' = writer
  BY DEF CoreKeeps, LandWrite
<1>2. PICK store \in stores[c] :
        /\ stores' = [stores EXCEPT ![c] = @ \ {store}]
        /\ output' = Copied(output, store.to, store.data, 0, store.n)
  BY DEF LandWrite
<1>3. DOMAIN stores = Cores /\ \A d \in Cores : StoresFit(d)
  BY DEF ItemsInvariant
<1>4. PICK x \in ItemsOut(c) : store.to = Place(x) /\ store.n = Extent(x)
  BY <1>3 DEF StoresFit
<1>5. /\ stores'[c] = stores[c] \ {store} /\ DOMAIN stores' = Cores
      /\ \A d \in Cores \ {c} : stores'[d] = stores[d]
  BY <1>2, <1>3
<1>6. \A d \in Cores : ItemsOut(d)' = ItemsOut(d)
  BY <1>1, SamePushed, SameItems DEF ItemsOut
<1>7. ASSUME NEW d \in Cores PROVE StoresFit(d)'
  <2>1. stores'[d] \subseteq stores[d]
    BY <1>5
  <2> QED BY <1>1, <1>3, <1>6, <2>1, SameItems DEF StoresFit
<1>8. DOMAIN output' = DOMAIN output /\ \A z \in DOMAIN output : z \notin Part(x) => output'[z] = output[z]
  BY <1>2, <1>4 DEF Copied, Part
<1>9. ASSUME NEW z \in DOMAIN output', output'[z] # Unwritten
      PROVE  \E d \in Cores : \E y \in ItemsOut(d) : z \in Part(y) /\ \A s \in stores'[d] : s.to # Place(y)
  <2>1. CASE z \in Part(x)
    <3>1. \A s \in stores'[c] : s.to # Place(x)
      BY <1>3, <1>4, <1>5 DEF StoresFit
    <3> QED BY <2>1, <3>1
  <2>2. CASE z \notin Part(x)
    <3>1. z \in DOMAIN output /\ output[z] # Unwritten
      BY <1>8, <1>9, <2>2
    <3>2. \E d \in Cores : \E y \in ItemsOut(d) : z \in Part(y) /\ \A s \in stores[d] : s.to # Place(y)
      BY <3>1 DEF ItemsInvariant, WrittenHasLanded
    <3>3. \A d \in Cores : stores'[d] \subseteq stores[d]
      BY <1>5
    <3> QED BY <3>2, <3>3
  <2> QED BY <2>1, <2>2
<1>10. WrittenHasLanded'
  BY <1>1, <1>6, <1>9, SameItems DEF WrittenHasLanded
<1>11. OnlyScattersUpdate'
  BY UpdatesOfScatters DEF Core
<1> QED BY <1>1, <1>5, <1>7, <1>8, <1>10, <1>11, SameItems DEF ItemsInvariant

\* What a writer sends of entry i of its group or batch.
SentOf(c, i) ==
  IF Scatters THEN ScatterStore(c, writer[c].q + i, ring[c].front + i)
              ELSE GatherStore(c, writer[c].q + i, ring[c].front + i)

LEMMA SentOfItem ==
  ASSUME RowsInvariant, ItemsInvariant, stage = "running", NEW c \in Cores, NEW i \in 0 .. Pushed(c) - 1
  PROVE  /\ DOMAIN SentOf(c, i) = {"slot", "at", "n", "to", "sent", "data"}
         /\ SentOf(c, i).to = Place(StartOf(c) + writer[c].q + i)
         /\ SentOf(c, i).n = Extent(StartOf(c) + writer[c].q + i)
<1> DEFINE q == writer[c].q + i
           slot == ring[c].front + i
<1>1. Numbers /\ CoresInOrder /\ First(c) \in Nat
  BY DEF ItemsInvariant, CoresInOrder
<1>2. /\ writer[c].q \in Nat /\ Pushed(c) \in Nat /\ writer[c].q + Pushed(c) <= Total(c)
      /\ StartOf(c) \in Nat /\ Total(c) \in Nat /\ StartOf(c) + Total(c) <= Items /\ Items \in Nat
  <2>1. ProgramFits /\ InStep(c)
    BY CoreFields
  <2>2. Total(c) \in Nat /\ writer[c].q \in Nat /\ writer[c].q <= Total(c) /\ Step \in Nat
    BY <2>1 DEF InStep, Aligned, ProgramFits
  <2>3. Pushed(c) \in Nat /\ writer[c].q + Pushed(c) <= Total(c)
    BY <2>1, <2>2, PushedIs
  <2> QED BY <1>1, <2>2, <2>3, ItemsAreOwn
<1>3. q \in Nat /\ StartOf(c) + q = StartOf(c) + writer[c].q + i
  BY <1>2
<1>4. Items > 0
  BY <1>2
<1>5. DOMAIN SentOf(c, i) = {"slot", "at", "n", "to", "sent", "data"}
  BY DEF SentOf, ScatterStore, GatherStore, Store
<1>6. CASE Scatters
  <2>1. SentOf(c, i) = ScatterStore(c, q, slot)
    BY <1>6 DEF SentOf
  <2> HIDE DEF q, slot
  <2>2. /\ ScatterStore(c, q, slot).to = Place(StartOf(c) + q)
        /\ ScatterStore(c, q, slot).n = Extent(StartOf(c) + q)
    BY <1>1, <1>3, <1>6, ScatterPlace
  <2> QED BY <1>3, <1>5, <2>1, <2>2 DEF q
<1>7. CASE ~Scatters
  <2>1. SentOf(c, i) = GatherStore(c, q, slot)
    BY <1>7 DEF SentOf
  <2>2. M # 0 /\ PerItem # 0
    <3> DEFINE b == B
               m == M
               p == PerItem
    <3>1. b * m * p > 0 /\ b \in Nat /\ m \in Nat
      BY <1>1, <1>4, <1>7 DEF Items, Numbers
    <3>2. p \in Nat
      <4>1. W * S * C \in Nat
        BY <1>1, Products DEF Numbers
      <4> QED BY <1>1, <4>1 DEF Numbers
    <3> HIDE DEF b, m, p
    <3>3. m # 0 /\ p # 0
      BY <3>1, <3>2, Z3
    <3> QED BY <3>3 DEF m, p
  <2> HIDE DEF q, slot
  <2>3. /\ GatherStore(c, q, slot).to = Place(StartOf(c) + q)
        /\ GatherStore(c, q, slot).n = Extent(StartOf(c) + q)
    <3>1. CASE spec.column
      BY <1>1, <1>3, <1>7, <2>2, <3>1, WindowPlace DEF ByWindow
    <3>2. CASE ~spec.column
      BY <1>1, <1>3, <1>7, <2>2, <3>2, RowPlace
    <3> QED BY <3>1, <3>2
  <2> QED BY <1>3, <1>5, <2>1, <2>3 DEF q
<1> QED BY <1>6, <1>7

\* A group or a batch starts on its way: of items that no write was of.
LEMMA Stores ==
  ASSUME RowsInvariant, ItemsInvariant, stage = "running", NEW c \in Cores, StoreGroup(c) \/ StoreBatch(c)
  PROVE  ItemsInvariant'
<1> DEFINE begun == writer[c].q
           n == Pushed(c)
           Own(i) == StartOf(c) + begun + i
           sent == {SentOf(c, i) : i \in 0 .. n - 1}
<1>1. CoreKeeps /\ output' = output
  BY DEF CoreKeeps, StoreGroup, StoreBatch, StoreAll
<1>2. Numbers /\ DOMAIN stores = Cores /\ (\A d \in Cores : StoresFit(d)) /\ StartOf(c) \in Nat
  BY ItemsAreOwn DEF ItemsInvariant
<1>3. begun \in Nat /\ n \in Nat
  BY OutIsOwn
<1>4. c \in DOMAIN writer /\ DOMAIN writer = Cores /\ DOMAIN writer[c] = {"q", "at", "position", "piece"}
  BY CoreFields DEF Fields
<1>5. writer[c].at # "storing" /\ writer' = [writer EXCEPT ![c].at = "storing"]
  BY DEF StoreGroup, StoreBatch, StoreAll
<1>6. stores' = [stores EXCEPT ![c] = @ \cup sent]
  <2>1. CASE StoreGroup(c)
    BY <2>1 DEF StoreGroup, StoreAll, SentOf
  <2>2. CASE StoreBatch(c)
    <3>1. Scatters
      BY <2>2 DEF StoreBatch, ItemsInvariant, OnlyScattersUpdate
    <3> QED BY <2>2, <3>1 DEF StoreBatch, StoreAll, SentOf
  <2> QED BY <2>1, <2>2
<1>7. /\ DOMAIN stores' = Cores /\ stores'[c] = stores[c] \cup sent
      /\ \A d \in Cores \ {c} : stores'[d] = stores[d]
  BY <1>2, <1>6
<1>8. \A d \in Cores \ {c} : ItemsOut(d)' = ItemsOut(d)
  <2> SUFFICES ASSUME NEW d \in Cores \ {c} PROVE ItemsOut(d)' = ItemsOut(d)
    OBVIOUS
  <2>1. writer'[d] = writer[d]
    BY <1>4, <1>5
  <2> QED BY <1>1, <2>1, SamePushed, SameItems DEF ItemsOut
<1>9. ItemsOut(c) = NumbersFrom(StartOf(c), begun) /\ ItemsOut(c)' = NumbersFrom(StartOf(c), begun + n)
  <2>1. Begun(c) = begun
    BY <1>3, <1>5 DEF Begun
  <2>2. writer'[c].q = begun /\ writer'[c].at = "storing"
    BY <1>4, <1>5
  <2>3. Pushed(c)' = n
    BY <1>1, <2>2, SameNumbers DEF Pushed, CoreKeeps
  <2>4. Begun(c)' = begun + n
    BY <2>2, <2>3 DEF Begun
  <2>5. StartOf(c)' = StartOf(c)
    BY <1>1, SameItems
  <2>6. ItemsOut(c)' = NumbersFrom(StartOf(c)', Begun(c)')
    BY DEF ItemsOut
  <2> QED BY <2>1, <2>4, <2>5, <2>6 DEF ItemsOut
<1>10. ASSUME NEW i \in 0 .. n - 1
       PROVE  /\ DOMAIN SentOf(c, i) = {"slot", "at", "n", "to", "sent", "data"}
              /\ SentOf(c, i).to = Place(Own(i)) /\ SentOf(c, i).n = Extent(Own(i))
              /\ Own(i) \in Nat /\ Own(i) \in ItemsOut(c)' /\ Own(i) \notin ItemsOut(c)
  <2>1. /\ DOMAIN SentOf(c, i) = {"slot", "at", "n", "to", "sent", "data"}
        /\ SentOf(c, i).to = Place(Own(i)) /\ SentOf(c, i).n = Extent(Own(i))
    BY SentOfItem
  <2>2. begun + i \in 0 .. begun + n - 1 /\ Own(i) = StartOf(c) + (begun + i) /\ Own(i) \in Nat
    BY <1>2, <1>3
  <2>3. Own(i) \in ItemsOut(c)' /\ Own(i) \notin ItemsOut(c)
    BY <1>2, <1>3, <1>9, <2>2 DEF NumbersFrom
  <2> QED BY <2>1, <2>2, <2>3
<1>11. \A x \in ItemsOut(c) : x \in ItemsOut(c)' /\ x \in Nat
  <2> SUFFICES ASSUME NEW x \in ItemsOut(c) PROVE x \in ItemsOut(c)' /\ x \in Nat
    OBVIOUS
  <2>1. PICK i \in 0 .. begun - 1 : x = StartOf(c) + i
    BY <1>9 DEF NumbersFrom
  <2>2. i \in 0 .. begun + n - 1 /\ x \in Nat
    BY <1>2, <1>3, <2>1
  <2>3. x \in NumbersFrom(StartOf(c), begun + n)
    BY <1>2, <1>3, <2>1, <2>2 DEF NumbersFrom
  <2> QED BY <1>9, <2>2, <2>3
<1>12. \A i, j \in 0 .. n - 1 : Own(i) = Own(j) => i = j
  BY <1>2, <1>3
<1> HIDE DEF Item, sent
<1>13. \A x \in Nat, y \in Nat : Place(x) = Place(y) => x = y
  BY <1>2, PartsApart
<1>14. StoresFit(c)'
  <2>1. ASSUME NEW store \in stores'[c]
        PROVE  /\ DOMAIN store = {"slot", "at", "n", "to", "sent", "data"}
               /\ \E x \in ItemsOut(c)' : store.to = Place(x) /\ store.n = Extent(x)
    <3>1. CASE store \in stores[c]
      BY <1>2, <1>11, <3>1 DEF StoresFit
    <3>2. CASE store \in sent
      BY <1>10, <3>2 DEF sent
    <3> QED BY <1>7, <2>1, <3>1, <3>2
  <2>2. ASSUME NEW store \in stores[c], NEW i \in 0 .. n - 1 PROVE store.to # SentOf(c, i).to
    <3>1. PICK x \in ItemsOut(c) : store.to = Place(x)
      BY <1>2 DEF StoresFit
    <3> QED BY <1>10, <1>11, <1>13, <3>1
  <2>3. ASSUME NEW i \in 0 .. n - 1, NEW j \in 0 .. n - 1, SentOf(c, i).to = SentOf(c, j).to
        PROVE  SentOf(c, i) = SentOf(c, j)
    BY <1>10, <1>12, <1>13, <2>3
  <2>4. \A store, other \in stores'[c] : store.to = other.to => store = other
    BY <1>2, <1>7, <2>2, <2>3 DEF sent, StoresFit
  <2> QED BY <1>1, <2>1, <2>4, SameItems DEF StoresFit
<1>15. \A d \in Cores \ {c} : StoresFit(d)'
  BY <1>1, <1>2, <1>7, <1>8, SameItems DEF StoresFit
<1>16. ASSUME NEW z \in DOMAIN output, output[z] # Unwritten
       PROVE  \E d \in Cores : \E x \in ItemsOut(d)' : z \in Part(x) /\ \A s \in stores'[d] : s.to # Place(x)
  <2>1. PICK d \in Cores : \E x \in ItemsOut(d) : z \in Part(x) /\ \A s \in stores[d] : s.to # Place(x)
    BY <1>16 DEF ItemsInvariant, WrittenHasLanded
  <2>2. PICK x \in ItemsOut(d) : z \in Part(x) /\ \A s \in stores[d] : s.to # Place(x)
    BY <2>1
  <2>3. CASE d # c
    BY <1>7, <1>8, <2>2, <2>3
  <2>4. CASE d = c
    <3>1. \A i \in 0 .. n - 1 : SentOf(c, i).to # Place(x)
      BY <1>10, <1>11, <1>13, <2>2, <2>4
    <3>2. \A s \in stores'[c] : s.to # Place(x)
      BY <1>7, <2>2, <2>4, <3>1 DEF sent
    <3> QED BY <1>11, <2>2, <2>4, <3>2
  <2> QED BY <2>3, <2>4
<1>17. WrittenHasLanded'
  BY <1>1, <1>16, SameItems DEF WrittenHasLanded
<1>18. OnlyScattersUpdate'
  BY UpdatesOfScatters DEF Core
<1> QED BY <1>1, <1>2, <1>7, <1>14, <1>15, <1>17, <1>18, SameItems DEF ItemsInvariant
-----------------------------------------------------------------------------
(* IndexedRows: the program's numbers when it is launched. *)

LEMMA CeilIs ==
  ASSUME NEW a \in Nat \ {0}, NEW b \in Nat \ {0}
  PROVE  CeilDiv(a, b) \in Nat \ {0} /\ (CeilDiv(a, b) - 1) * b < a
<1> DEFINE n == a + b - 1
           q == n \div b
           r == n % b
<1>1. n \in Nat
  OBVIOUS
<1>2. CeilDiv(a, b) = q
  BY DEF CeilDiv
<1> HIDE DEF n
<1>3. q \in Nat /\ r \in 0 .. b - 1 /\ n = q * b + r
  BY <1>1, Division
<1> HIDE DEF q, r
<1>4. q * b \in Nat /\ (q - 1) * b = q * b - b
  BY <1>3, Z3
<1>5. q * b + r = a + b - 1
  BY <1>3 DEF n
<1>6. q # 0
  <2> SUFFICES ASSUME q = 0 PROVE FALSE
    OBVIOUS
  <2>1. q * b = 0
    BY Z3
  <2> QED BY <1>3, <1>5, <2>1
<1> QED BY <1>2, <1>3, <1>4, <1>5, <1>6

\* Shares of the work, the first ones one more: c of them end before c shares and as many more.
LEMMA SharesInOrder ==
  ASSUME NEW each \in Nat, NEW more \in Nat, NEW c \in Nat \ {0}, NEW d \in Nat, c <= d
  PROVE  /\ (c - 1) * each + Min({c - 1, more}) \in Nat
         /\ each + (IF c <= more THEN 1 ELSE 0) \in Nat
         /\ (c - 1) * each + Min({c - 1, more}) + (each + (IF c <= more THEN 1 ELSE 0)) <= d * each + Min({d, more})
<1> DEFINE first == (c - 1) * each + Min({c - 1, more})
           count == each + (IF c <= more THEN 1 ELSE 0)
<1>1. /\ Min({c - 1, more}) = (IF c - 1 <= more THEN c - 1 ELSE more)
      /\ Min({d, more}) = (IF d <= more THEN d ELSE more)
  BY SmallerOfTwo
<1>2. /\ (c - 1) * each + each = c * each /\ c * each <= d * each
      /\ (c - 1) * each \in Nat /\ c * each \in Nat /\ d * each \in Nat
  BY Z3
<1>3. first \in Nat /\ count \in Nat
  BY <1>1, <1>2
<1>4. first + count <= d * each + Min({d, more})
  BY <1>1, <1>2
<1> QED BY <1>3, <1>4

LEMMA LaunchedProgram ==
  ASSUME RowsInvariant, Launch
  PROVE  /\ call \in Calls /\ Valid /\ ~NothingToDo
         /\ call' = call /\ spec' = spec /\ ColumnWindow' = ColumnWindow
         /\ (Scatters' <=> Scatters) /\ (ByWindow' <=> ByWindow)
         /\ B' = call.table.shape[1] /\ N' = call.table.shape[2] /\ M' = call.indices.shape[3]
         /\ R' = Last(call.table.shape) /\ S' = RowSize(call.table) \div Last(call.table.shape)
         /\ W' = Window(spec) /\ C' = CeilDiv(Last(call.table.shape), Chunk) /\ program'.chunk = Chunk
         /\ PerItem' = IF spec.column THEN W' ELSE W' * S' * C'
<1>1. call \in Calls /\ Valid /\ ~NothingToDo /\ call' = call /\ program' = Geometry
  BY DEF Launch, RowsInvariant
<1>2. spec' = spec /\ ColumnWindow' = ColumnWindow /\ (Scatters' <=> Scatters) /\ (ByWindow' <=> ByWindow)
  BY <1>1 DEF spec, ColumnWindow, Scatters, ByWindow
<1>3. /\ B' = call.table.shape[1] /\ N' = call.table.shape[2] /\ M' = call.indices.shape[3]
      /\ R' = Last(call.table.shape) /\ S' = RowSize(call.table) \div Last(call.table.shape)
      /\ W' = Window(spec) /\ C' = CeilDiv(Last(call.table.shape), Chunk) /\ program'.chunk = Chunk
      /\ PerItem' = IF spec.column THEN W' ELSE W' * S' * C'
  BY <1>1 DEF Geometry, B, N, M, R, S, W, C, PerItem
<1> QED BY <1>1, <1>2, <1>3

LEMMA LaunchedNumbers ==
  ASSUME RowsInvariant, Launch
  PROVE  Numbers'
<1> DEFINE top == Last(call.table.shape)
           size == RowSize(call.table)
<1>1. /\ top \in Nat \ {0} /\ size \in Nat /\ Chunk \in Nat \ {0}
      /\ call.table.shape[1] \in Nat /\ call.table.shape[2] \in Nat /\ call.indices.shape[3] \in Nat
      /\ Window(spec) \in Nat /\ ColumnWindow \in Nat
  BY LaunchedProgram, LaunchedCall, EntryIsPositive
<1>2. ByWindow' => ColumnWindow' # 0
  <2> DEFINE windows == spec.windows
             k == Len(windows)
  <2>1. k \in Nat \ {0} /\ \A n \in 1 .. Len(spec.sizes) : windows[n] \in 1 .. spec.sizes[n]
    <3>1. windows \in Seq(Nat)
      BY LaunchedProgram, CallsAssumption DEF spec
    <3>2. k \in Nat
      BY <3>1, LenProperties
    <3> QED BY <3>2, LaunchedProgram DEF Valid
  <2>2. windows[k] \in 1 .. spec.sizes[k]
    BY <2>1, LaunchedProgram DEF Valid
  <2> QED BY <2>2, LaunchedProgram DEF ColumnWindow, Last
<1> HIDE DEF top, size
<1>3. size \div top \in Nat
  BY <1>1, Division
<1>4. CeilDiv(top, Chunk) \in Nat \ {0} /\ (CeilDiv(top, Chunk) - 1) * Chunk < top
  BY <1>1, CeilIs
<1>5. /\ B' \in Nat /\ N' \in Nat /\ S' \in Nat /\ M' \in Nat /\ W' \in Nat
      /\ C' \in Nat \ {0} /\ R' \in Nat \ {0} /\ program'.chunk \in Nat \ {0}
      /\ (C' - 1) * program'.chunk < R'
  BY <1>1, <1>3, <1>4, LaunchedProgram DEF top, size
<1> QED BY <1>1, <1>2, <1>5, LaunchedProgram DEF Numbers

LEMMA LaunchedInOrder ==
  ASSUME RowsInvariant, Launch
  PROVE  CoresInOrder'
<1> DEFINE w == Work(Geometry)
           n == Min({call.grid, w})
           each == w \div n
           more == w % n
           first(c) == (c - 1) * each + Min({c - 1, more})
           count(c) == each + (IF c <= more THEN 1 ELSE 0)
<1>1. call.grid \in Nat \ {0} /\ w \in Nat /\ Work(program)' = w
  <2>1. /\ B' \in Nat /\ N' \in Nat /\ S' \in Nat /\ M' \in Nat
        /\ PerItem' \in Nat
    <3>1. /\ B' \in Nat /\ N' \in Nat /\ S' \in Nat /\ M' \in Nat /\ W' \in Nat /\ C' \in Nat
          /\ PerItem' = IF spec'.column THEN W' ELSE W' * S' * C'
      BY LaunchedNumbers DEF Numbers
    <3>2. W' * S' * C' \in Nat
      BY <3>1, Products
    <3> QED BY <3>1, <3>2
  <2>2. B' * N' * S' \in Nat /\ B' * M' * PerItem' \in Nat
    BY <2>1, Products
  <2>3. Work(program)' = IF Scatters' THEN B' * N' * S' ELSE B' * M' * PerItem'
    BY DEF Work, B, N, S, M, PerItem
  <2>4. Work(program)' = w
    BY LaunchedProgram DEF Launch, Work, Scatters
  <2> QED BY <2>2, <2>3, <2>4, LaunchedProgram, LaunchedCall
<1>2. /\ Cores' = 1 .. n
      /\ \A c \in 1 .. n : First(c)' = first(c) /\ Count(c)' = count(c)
  <2>1. cores' = Split(Geometry)
    BY DEF Launch
  <2> QED BY <2>1 DEF Split, Cores, First, Count
<1> HIDE DEF w
<1>3. n \in Nat
  <2> DEFINE grid == call.grid
  <2>1. grid \in Nat \ {0}
    BY <1>1
  <2> HIDE DEF grid
  <2>2. Min({grid, w}) \in Nat
    BY <1>1, <2>1, SmallerOfTwo
  <2> QED BY <2>2 DEF grid
<1> HIDE DEF n
<1>4. n # 0 => each \in Nat /\ more \in 0 .. n - 1 /\ w = n * each + more
  <2> SUFFICES ASSUME n # 0 PROVE each \in Nat /\ more \in 0 .. n - 1 /\ w = n * each + more
    OBVIOUS
  <2>1. each \in Nat /\ more \in 0 .. n - 1 /\ w = each * n + more
    BY <1>1, <1>3, Division
  <2> HIDE DEF each, more
  <2>2. each * n = n * each
    BY <1>3, <2>1, Z3
  <2> QED BY <2>1, <2>2
<1> HIDE DEF each, more
<1>5. ASSUME NEW c \in 1 .. n
      PROVE  first(c) \in Nat /\ count(c) \in Nat /\ first(c) + count(c) <= w
  <2>1. c \in Nat \ {0} /\ n \in Nat /\ n # 0 /\ c <= n
    BY <1>3
  <2>2. first(c) \in Nat /\ count(c) \in Nat /\ first(c) + count(c) <= n * each + Min({n, more})
    <3>1. each \in Nat /\ more \in Nat
      BY <1>4, <2>1
    <3> QED BY <2>1, <3>1, SharesInOrder
  <2>3. Min({n, more}) = more
    BY <1>4, <2>1, SmallerOfTwo
  <2> QED BY <1>4, <2>1, <2>2, <2>3
<1>6. ASSUME NEW c \in 1 .. n, NEW d \in 1 .. n, c < d
      PROVE  first(c) + count(c) <= first(d)
  <2> DEFINE e == d - 1
  <2>1. c \in Nat \ {0} /\ e \in Nat /\ c <= e /\ n # 0
    BY <1>3, <1>6
  <2>2. first(d) = e * each + Min({e, more})
    OBVIOUS
  <2> HIDE DEF e
  <2>3. first(c) + count(c) <= e * each + Min({e, more})
    <3>1. each \in Nat /\ more \in Nat
      BY <1>4, <2>1
    <3> QED BY <2>1, <3>1, SharesInOrder
  <2> QED BY <2>2, <2>3
<1> HIDE DEF first, count
<1>7. \A c \in Cores' : c \in Nat /\ First(c)' \in Nat /\ Count(c)' \in Nat /\ First(c)' + Count(c)' <= Work(program)'
  BY <1>1, <1>2, <1>3, <1>5
<1>8. \A c, d \in Cores' : c < d => First(c)' + Count(c)' <= First(d)'
  BY <1>2, <1>6
<1> QED BY <1>7, <1>8 DEF CoresInOrder

\* The output is as long as the items are, one after another.
LEMMA LaunchedOutput ==
  ASSUME RowsInvariant, Launch
  PROVE  Place(Items)' = OutputVolume
<1> DEFINE b == B'
           n == N'
           s == S'
           r == R'
           m == M'
           w == W'
           c == C'
           k == ColumnWindow
           size == RowSize(call.table)
           chunk == program'.chunk
<1>1. /\ b \in Nat /\ n \in Nat /\ s \in Nat /\ m \in Nat /\ w \in Nat /\ c \in Nat \ {0} /\ r \in Nat \ {0}
      /\ chunk \in Nat
  BY LaunchedNumbers DEF Numbers
<1>2. /\ size \in Nat /\ k \in Nat
      /\ Last(call.table.shape) # 0 => size % r = 0 /\ s = size \div r
      /\ Volume(call.table.shape) = b * n * size
      /\ Volume(GatheredShape(spec, call.table, call.indices)) = b * (m * w) * Moved(spec, call.table)
      /\ Last(call.table.shape) # 0
  <2>1. call \in Calls /\ Valid
    BY LaunchedProgram
  <2>2. Len(call.table.shape) >= 3 /\ Len(call.indices.shape) = 3 /\ Len(call.spec.windows) >= 1
    BY <2>1 DEF Valid, spec
  <2>3. /\ Last(call.table.shape) # 0 => size % Last(call.table.shape) = 0
        /\ Volume(call.table.shape) = call.table.shape[1] * call.table.shape[2] * size
        /\ Volume(GatheredShape(spec, call.table, call.indices))
             = call.table.shape[1] * (call.indices.shape[3] * Window(spec)) * Moved(spec, call.table)
    BY <2>1, <2>2, CallsAssumption DEF spec
  <2> QED BY <2>3, LaunchedProgram, LaunchedCall
<1>3. Moved(spec, call.table) = IF spec.column THEN k ELSE size
  BY DEF Moved, ColumnWindow, Last
<1>4. size = s * r
  <2> HIDE DEF size, s, r
  <2>1. size = (size \div r) * r + (size % r) /\ size \div r \in Nat
    BY <1>1, <1>2, Division
  <2>2. (size \div r) * r \in Nat
    BY <1>1, <2>1, Z3
  <2> QED BY <1>1, <1>2, <2>1, <2>2
<1>5. ASSUME NEW pages \in Nat, ~ByWindow, Items' = pages * c
      PROVE  Place(Items)' = pages * r
  <2>1. Place(Items)' = (Items' \div c) * r + (Items' % c) * chunk
    BY <1>5, LaunchedProgram DEF Place
  <2> HIDE DEF c, r, chunk
  <2>2. (pages * c + 0) \div c = pages /\ (pages * c + 0) % c = 0
    <3>1. 0 \in 0 .. c - 1
      BY <1>1
    <3> QED BY <1>1, <1>5, <3>1, OneQuotient
  <2>3. pages * c + 0 = pages * c
    BY <1>1, Products
  <2>4. Place(Items)' = pages * r + 0 * chunk
    BY <1>5, <2>1, <2>2, <2>3
  <2>5. pages * r \in Nat /\ 0 * chunk = 0
    BY <1>1, Products
  <2> QED BY <2>4, <2>5
<1>6. PerItem' = IF spec.column THEN w ELSE w * s * c
  BY LaunchedProgram
<1>7. CASE Scatters
  <2>1. Items' = b * n * s * c
    BY <1>7, LaunchedProgram DEF Items
  <2>2. OutputVolume = b * n * (s * r)
    BY <1>2, <1>4, <1>7 DEF OutputVolume
  <2> HIDE DEF b, n, s, r, c
  <2>3. b * n * s \in Nat
    BY <1>1, Products
  <2>4. Place(Items)' = (b * n * s) * r
    BY <1>5, <1>7, <2>1, <2>3 DEF ByWindow
  <2>5. (b * n * s) * r = b * n * (s * r)
    BY <1>1, Z3
  <2> QED BY <2>2, <2>4, <2>5
<1>8. CASE ~Scatters /\ ~spec.column
  <2>1. Items' = b * m * (w * s * c)
    BY <1>6, <1>8, LaunchedProgram DEF Items
  <2>2. OutputVolume = b * (m * w) * (s * r)
    BY <1>2, <1>3, <1>4, <1>8 DEF OutputVolume
  <2> HIDE DEF b, m, w, s, r, c
  <2>3. b * m * w * s \in Nat
    BY <1>1, Products
  <2>4. b * m * (w * s * c) = (b * m * w * s) * c
    BY <1>1, Z3
  <2>5. Place(Items)' = (b * m * w * s) * r
    BY <1>5, <1>8, <2>1, <2>3, <2>4 DEF ByWindow
  <2>6. (b * m * w * s) * r = b * (m * w) * (s * r)
    BY <1>1, Z3
  <2> QED BY <2>2, <2>5, <2>6
<1>9. CASE ~Scatters /\ spec.column
  <2>1. Items' = b * m * w
    BY <1>6, <1>9, LaunchedProgram DEF Items
  <2>2. OutputVolume = b * (m * w) * k
    BY <1>2, <1>3, <1>9 DEF OutputVolume
  <2>3. Place(Items)' = Items' * k
    BY <1>9, LaunchedProgram DEF Place, ByWindow
  <2> HIDE DEF b, m, w, k
  <2>4. b * m * w * k = b * (m * w) * k
    BY <1>1, <1>2, Z3
  <2> QED BY <2>1, <2>2, <2>3, <2>4
<1> QED BY <1>7, <1>8, <1>9

LEMMA LaunchesItems ==
  ASSUME RowsInvariant, Launch
  PROVE  ItemsInvariant'
<1>1. Numbers' /\ CoresInOrder' /\ Place(Items)' = OutputVolume
  BY LaunchedNumbers, LaunchedInOrder, LaunchedOutput
<1>2. /\ output' = [x \in 0 .. OutputVolume - 1 |-> Unwritten]
      /\ stores' = [c \in Cores' |-> {}]
      /\ \A c \in Cores' : writer'[c].at = "waiting"
  BY DEF Launch, Cores
<1>3. OnlyScattersUpdate'
  BY <1>2 DEF OnlyScattersUpdate
<1>4. WrittenHasLanded' /\ \A c \in Cores' : StoresFit(c)'
  BY <1>2 DEF WrittenHasLanded, StoresFit
<1> QED BY <1>1, <1>2, <1>3, <1>4 DEF ItemsInvariant

LEMMA ItemsSteps ==
  ASSUME RowsInvariant, ItemsInvariant, [RowsNext]_rowsVars
  PROVE  ItemsInvariant'
<1>1. CASE Reject \/ ReturnEmpty \/ Complete \/ Stopped
  <2>1. stage' # "running"
    BY <1>1 DEF Reject, ReturnEmpty, Complete, Stopped, rowsVars
  <2> QED BY <2>1 DEF ItemsInvariant
<1>2. CASE Launch
  BY <1>2, LaunchesItems
<1>3. CASE UNCHANGED rowsVars
  <2>1. CASE stage = "running"
    <3>1. CoreKeeps /\ writer' = writer /\ stores' = stores /\ output' = output
      BY <1>3 DEF rowsVars, CoreKeeps
    <3>2. \A c \in Cores : Begun(c)' = Begun(c)
      BY <3>1, SamePushed
    <3>3. OnlyScattersUpdate'
      BY <2>1, <3>1, SameNumbers DEF ItemsInvariant, OnlyScattersUpdate
    <3> QED BY <2>1, <3>1, <3>2, <3>3, NothingGoesOut
  <2>2. CASE stage # "running"
    BY <1>3, <2>2 DEF rowsVars, ItemsInvariant
  <2> QED BY <2>1, <2>2
<1>4. CASE stage = "running" /\ \E c \in Cores : Core(c)
  <2>1. PICK c \in Cores : Core(c)
    BY <1>4
  <2> QED BY <1>4, <2>1, OthersSteps, Stores, Sends, Lands DEF Core
<1> QED BY <1>1, <1>2, <1>3, <1>4 DEF RowsNext

\* Every write under way is of an item of its core, which no other write is of, and what the
\* output holds has been written by items whose writes have landed: the writers number a gather's
\* transfers and a scatter's chunks over all cores, and every one has a place of its own
\* (rows_gather_writer.cpp, rows_scatter_writer.cpp, indexed_rows_program_factory.cpp).
THEOREM ItemsFit == RowsSpec => [](RowsInvariant /\ ItemsInvariant)
<1>1. RowsInit => RowsInvariant /\ ItemsInvariant
  BY RowsStart DEF RowsInit, ItemsInvariant
<1>2. RowsInvariant /\ ItemsInvariant /\ [RowsNext]_rowsVars => (RowsInvariant /\ ItemsInvariant)'
  BY RowsSteps, ItemsSteps
<1> QED BY <1>1, <1>2, PTL DEF RowsSpec

\* Elements go out once and to the output, whatever cores, chunks, groups and batches there are:
\* no write under way is of an element that is written or that another write is of
\* (indexed_rows_program_factory.cpp:220 splits the work, the writers place it).
THEOREM GoingOutOnce == RowsSpec => []ElementsGoOutOnce
BY ItemsFit, OutOnce, PTL

-----------------------------------------------------------------------------
(* TopKSelect: cores, mergers and owners.                                  *)

PlanFits ==
  /\ plan.segments \in Nat \ {0} /\ plan.row_groups \in Nat \ {0}
  /\ \E n \in Nat : plan.cores = n * PerTileRow

LEMMA RoundedUp ==
  ASSUME NEW a \in Nat \ {0}, NEW b \in Nat \ {0}
  PROVE  DivUp(a, b) \in Nat \ {0} /\ DivUp(a, b) <= a
<1>1. a + b - 1 \in Nat /\ (a + b - 1) \div b \in Nat
      /\ a + b - 1 = ((a + b - 1) \div b) * b + ((a + b - 1) % b) /\ (a + b - 1) % b \in 0 .. b - 1
  <2>1. a + b - 1 \in Nat
    OBVIOUS
  <2> DEFINE x == a + b - 1
  <2> HIDE DEF x
  <2>2. x \in Nat
    BY <2>1 DEF x
  <2>3. x \div b \in Nat /\ x % b \in 0 .. b - 1 /\ x = (x \div b) * b + (x % b)
    BY <2>2, Division
  <2> QED BY <2>2, <2>3 DEF x
<1> DEFINE q == (a + b - 1) \div b
           r == (a + b - 1) % b
<1> HIDE DEF q, r
<1>2. q \in Nat /\ r \in 0 .. b - 1 /\ a + b - 1 = q * b + r
  BY <1>1 DEF q, r
<1>3. q # 0
  <2> SUFFICES ASSUME q = 0 PROVE FALSE
    OBVIOUS
  <2>1. 0 * b = 0
    OBVIOUS
  <2> QED BY <1>2, <2>1
<1>4. q <= a
  <2> SUFFICES ASSUME q >= a + 1 PROVE FALSE
    BY <1>2
  <2>1. q * b >= (a + 1) * b
    BY <1>2, Z3
  <2>2. (a + 1) * b = a * b + b /\ a * b >= a /\ a * b \in Nat /\ q * b \in Nat
    BY <1>2, Z3
  <2> QED BY <1>2, <2>1, <2>2
<1> QED BY <1>2, <1>3, <1>4 DEF q, DivUp

\* Rounded up, a quotient covers, and is the least number that does.
LEMMA RoundedCovers ==
  ASSUME NEW a \in Nat, NEW b \in Nat \ {0}
  PROVE  DivUp(a, b) \in Nat /\ a <= DivUp(a, b) * b
<1> DEFINE x == a + b - 1
<1>1. x \in Nat
  OBVIOUS
<1> HIDE DEF x
<1> DEFINE q == x \div b
           r == x % b
<1>2. q \in Nat /\ r \in 0 .. b - 1 /\ x = q * b + r
  BY <1>1, Division
<1> HIDE DEF q, r
<1>3. q * b \in Nat
  BY <1>2, Z3
<1>4. a <= q * b
  BY <1>2, <1>3 DEF x
<1> QED BY <1>2, <1>4 DEF q, x, DivUp

LEMMA RoundedLeast ==
  ASSUME NEW a \in Nat, NEW b \in Nat \ {0}, NEW n \in Nat, a <= b * n
  PROVE  DivUp(a, b) <= n
<1> DEFINE x == a + b - 1
<1>1. x \in Nat /\ x < b * n + b
  <2>1. b * n \in Nat
    BY Z3
  <2> QED BY <2>1
<1> HIDE DEF x
<1>2. b * n + b = (n + 1) * b
  BY Z3
<1>3. x \div b < n + 1
  BY <1>1, <1>2, QuotientBelow
<1>4. x \div b \in Nat
  BY <1>1, Division
<1> QED BY <1>3, <1>4 DEF x, DivUp

\* A merger is its tile row's and group's core of the first segment, an owner its tile
\* row's of the first group: cores of the program, told apart by segment and group.
LEMMA CoreFacts ==
  ASSUME PlanFits, NEW i \in SelectCores
  PROVE  /\ MergerOf(i) \in SelectCores /\ OwnerOf(i) \in SelectCores
         /\ SegmentOf(i) \in 0 .. plan.segments - 1 /\ GroupOf(i) \in 0 .. plan.row_groups - 1
         /\ SegmentOf(MergerOf(i)) = 0 /\ SegmentOf(OwnerOf(i)) = 0 /\ GroupOf(OwnerOf(i)) = 0
         /\ i = MergerOf(i) + SegmentOf(i) * plan.row_groups /\ MergerOf(i) = OwnerOf(i) + GroupOf(i)
<1> DEFINE many == plan.segments
           groups == plan.row_groups
           P == PerTileRow
           t == i \div P
           p == i % P
           s == p \div groups
           g == p % groups
<1>1. many \in Nat \ {0} /\ groups \in Nat \ {0} /\ P \in Nat \ {0} /\ P = many * groups
  <2>1. many \in Nat \ {0} /\ groups \in Nat \ {0} /\ P = many * groups
    BY DEF PlanFits, PerTileRow
  <2> HIDE DEF many, groups
  <2>2. many * groups \in Nat \ {0}
    BY <2>1, Z3
  <2> QED BY <2>1, <2>2
<1>2. PICK n \in Nat : plan.cores = n * P
  BY DEF PlanFits
<1> HIDE DEF P, many, groups
<1>3. i \in Nat /\ i < n * P /\ n * P \in Nat
  <2>1. n * P \in Nat
    BY <1>1, Z3
  <2> QED BY <1>2, <2>1 DEF SelectCores
<1>4. t \in Nat /\ t < n /\ p \in 0 .. P - 1 /\ i = t * P + p
  BY <1>1, <1>3, Division, QuotientBelow
<1> HIDE DEF t, p
<1>5. s \in Nat /\ s < many /\ g \in 0 .. groups - 1 /\ p = s * groups + g
  <2>1. p \in Nat /\ p < many * groups
    BY <1>1, <1>4
  <2>2. s \in Nat /\ g \in 0 .. groups - 1 /\ p = s * groups + g
    BY <1>1, <2>1, Division
  <2>3. s < many
    BY <1>1, <2>1, QuotientBelow
  <2> QED BY <2>2, <2>3
<1> HIDE DEF s, g
<1>6. /\ OwnerOf(i) = t * P /\ GroupOf(i) = g /\ SegmentOf(i) = s /\ MergerOf(i) = t * P + g
  BY DEF OwnerOf, GroupOf, SegmentOf, MergerOf, TileRow, t, p, s, g, P, groups
<1>7. g \in 0 .. P - 1 /\ 0 \in 0 .. P - 1
  <2>1. groups <= many * groups
    BY <1>1, Z3
  <2> QED BY <1>1, <1>5, <2>1
<1>8. t * P + g \in SelectCores /\ t * P \in SelectCores
  <2>1. t * P + g \in 0 .. n * P - 1 /\ t * P + 0 \in 0 .. n * P - 1
    BY <1>1, <1>4, <1>7, PlaceBelow
  <2>2. t * P \in Int
    BY <1>1, <1>4, Z3
  <2> QED BY <1>2, <2>1, <2>2 DEF SelectCores
<1>9. (t * P + g) % P = g /\ (t * P) % P = 0
  <2>1. (t * P + g) % P = g /\ (t * P + 0) % P = 0
    BY <1>1, <1>4, <1>7, OneQuotient
  <2>2. t * P \in Int
    BY <1>1, <1>4, Z3
  <2> QED BY <2>1, <2>2
<1>10. g \div groups = 0 /\ 0 \div groups = 0 /\ 0 % groups = 0
  <2>1. 0 * groups + g = g /\ 0 * groups + 0 = 0 /\ 0 \in 0 .. groups - 1
    BY <1>1, <1>5
  <2> QED BY <1>1, <1>5, <2>1, OneQuotient
<1>11. SegmentOf(t * P + g) = 0 /\ SegmentOf(t * P) = 0 /\ GroupOf(t * P) = 0
  BY <1>9, <1>10 DEF SegmentOf, GroupOf, P, groups
<1>12. i = t * P + g + s * groups
  <2>1. t * P \in Int /\ s * groups \in Int
    BY <1>1, <1>4, <1>5, Z3
  <2> QED BY <1>4, <1>5, <2>1
<1> QED BY <1>1, <1>5, <1>6, <1>8, <1>11, <1>12 DEF many, groups

\* Those that tell core x of their lists, and of their rows.
SendersTo(x) == {i \in SelectCores : MergerOf(i) = x /\ ~Merger(i)}
MergersOf(x) == {i \in SelectCores : OwnerOf(i) = x /\ Merger(i) /\ ~Owner(i)}
SendersDone(x) == {i \in SendersTo(x) : doing[i] = "done"}
MergersDone(x) == {i \in MergersOf(x) : doing[i] = "done"}

LEMMA FewSenders ==
  ASSUME PlanFits, NEW x \in SelectCores
  PROVE  IsFiniteSet(SendersTo(x)) /\ Cardinality(SendersTo(x)) <= plan.segments - 1
<1> DEFINE F == [i \in SendersTo(x) |-> SegmentOf(i)]
           T == 1 .. plan.segments - 1
<1>1. plan.segments \in Nat \ {0}
  BY DEF PlanFits
<1>2. IsFiniteSet(T) /\ Cardinality(T) = plan.segments - 1
  <2> DEFINE n == plan.segments - 1
  <2>1. n \in Int /\ 1 \in Int
    BY <1>1
  <2> HIDE DEF n
  <2>2. IsFiniteSet(1 .. n) /\ Cardinality(1 .. n) = IF 1 > n THEN 0 ELSE n - 1 + 1
    BY <2>1, FS_Interval
  <2> QED BY <1>1, <2>2 DEF n
<1>3. F \in Injection(SendersTo(x), T)
  <2>1. ASSUME NEW i \in SendersTo(x) PROVE SegmentOf(i) \in T
    BY <2>1, <1>1, CoreFacts DEF SendersTo, Merger
  <2>2. ASSUME NEW i \in SendersTo(x), NEW j \in SendersTo(x), SegmentOf(i) = SegmentOf(j)
        PROVE  i = j
    <3>1. i \in SelectCores /\ j \in SelectCores /\ MergerOf(i) = x /\ MergerOf(j) = x
      BY DEF SendersTo
    <3>2. i = MergerOf(i) + SegmentOf(i) * plan.row_groups
      BY <3>1, CoreFacts
    <3>3. j = MergerOf(j) + SegmentOf(j) * plan.row_groups
      BY <3>1, CoreFacts
    <3> QED BY <2>2, <3>1, <3>2, <3>3
  <2> QED BY <2>1, <2>2 DEF Injection, IsInjective
<1>4. IsFiniteSet(SendersTo(x)) /\ Cardinality(SendersTo(x)) <= Cardinality(T)
  BY <1>2, <1>3, FS_Injection
<1> QED BY <1>2, <1>4

LEMMA FewMergers ==
  ASSUME PlanFits, NEW x \in SelectCores
  PROVE  IsFiniteSet(MergersOf(x)) /\ Cardinality(MergersOf(x)) <= plan.row_groups - 1
<1> DEFINE F == [i \in MergersOf(x) |-> GroupOf(i)]
           T == 1 .. plan.row_groups - 1
<1>1. plan.row_groups \in Nat \ {0}
  BY DEF PlanFits
<1>2. IsFiniteSet(T) /\ Cardinality(T) = plan.row_groups - 1
  <2> DEFINE n == plan.row_groups - 1
  <2>1. n \in Int /\ 1 \in Int
    BY <1>1
  <2> HIDE DEF n
  <2>2. IsFiniteSet(1 .. n) /\ Cardinality(1 .. n) = IF 1 > n THEN 0 ELSE n - 1 + 1
    BY <2>1, FS_Interval
  <2> QED BY <1>1, <2>2 DEF n
<1>3. F \in Injection(MergersOf(x), T)
  <2>1. ASSUME NEW i \in MergersOf(x) PROVE GroupOf(i) \in T
    BY <2>1, <1>1, CoreFacts DEF MergersOf, Merger, Owner
  <2>2. ASSUME NEW i \in MergersOf(x), NEW j \in MergersOf(x), GroupOf(i) = GroupOf(j)
        PROVE  i = j
    <3>1. /\ i \in SelectCores /\ OwnerOf(i) = x /\ SegmentOf(i) = 0
          /\ j \in SelectCores /\ OwnerOf(j) = x /\ SegmentOf(j) = 0
      BY DEF MergersOf, Merger
    <3>2. i = x + GroupOf(i) + 0 * plan.row_groups
      BY <3>1, CoreFacts
    <3>3. j = x + GroupOf(j) + 0 * plan.row_groups
      BY <3>1, CoreFacts
    <3> QED BY <2>2, <3>2, <3>3
  <2> QED BY <2>1, <2>2 DEF Injection, IsInjective
<1>4. IsFiniteSet(MergersOf(x)) /\ Cardinality(MergersOf(x)) <= Cardinality(T)
  BY <1>2, <1>3, FS_Injection
<1> QED BY <1>2, <1>4

\* None tells a core that merges nothing, or owns nothing.
LEMMA NobodyTells ==
  ASSUME PlanFits, NEW x \in SelectCores
  PROVE  /\ ~Merger(x) => SendersTo(x) = {}
         /\ plan.segments = 1 => Merger(x) /\ SendersTo(x) = {}
         /\ ~Owner(x) => MergersOf(x) = {}
<1>1. ASSUME NEW i \in SendersTo(x) PROVE Merger(x) /\ plan.segments # 1
  <2>1. i \in SelectCores /\ MergerOf(i) = x /\ SegmentOf(i) # 0
    BY DEF SendersTo, Merger
  <2>2. SegmentOf(MergerOf(i)) = 0 /\ SegmentOf(i) \in 0 .. plan.segments - 1
    BY <2>1, CoreFacts
  <2> QED BY <2>1, <2>2 DEF Merger
<1>2. ASSUME NEW i \in MergersOf(x) PROVE Owner(x)
  <2>1. i \in SelectCores /\ OwnerOf(i) = x
    BY DEF MergersOf
  <2>2. SegmentOf(OwnerOf(i)) = 0 /\ GroupOf(OwnerOf(i)) = 0
    BY <2>1, CoreFacts
  <2> QED BY <2>1, <2>2 DEF Owner, Merger
<1>3. plan.segments = 1 => Merger(x)
  BY CoreFacts DEF Merger
<1> QED BY <1>1, <1>2, <1>3

-----------------------------------------------------------------------------
(* TopKSelect: what the semaphores count.                                  *)

Places == {"starting", "selecting", "telling merger", "waiting", "resetting", "merging",
           "telling owner", "collecting", "storing", "done"}

\* Only a core of a later segment tells a merger, only a merger merges, only mergers tell
\* their owner, who collects.
RolesKept(i) ==
  /\ doing[i] = "telling merger" => ~Merger(i)
  /\ doing[i] \in {"waiting", "resetting", "merging"} => Merger(i)
  /\ doing[i] = "telling owner" => Merger(i) /\ ~Owner(i)
  /\ doing[i] \in {"collecting", "storing"} => Owner(i)

\* Until it is reset, a semaphore counts those who are done; from its last wait on all are.
BeforeMerging == {"starting", "selecting", "waiting", "resetting"}
MergeCounts(x) ==
  /\ doing[x] \in BeforeMerging => merge_sem[x] = Cardinality(SendersDone(x))
  /\ doing[x] \notin BeforeMerging \ {"resetting"} => SendersDone(x) = SendersTo(x)
  /\ doing[x] \notin BeforeMerging => merge_sem[x] = 0
OwnerCounts(x) ==
  /\ doing[x] \notin {"storing", "done"} => owner_sem[x] = Cardinality(MergersDone(x))
  /\ doing[x] \in {"storing", "done"} => MergersDone(x) = MergersOf(x)
  /\ doing[x] = "done" => owner_sem[x] = 0

SemaphoresCount ==
  /\ PlanFits
  /\ doing \in [SelectCores -> Places]
  /\ merge_sem \in [SelectCores -> Nat] /\ owner_sem \in [SelectCores -> Nat]
  /\ \A x \in SelectCores : RolesKept(x) /\ MergeCounts(x) /\ OwnerCounts(x)

SelectInvariant ==
  /\ selectCall \in SelectCalls
  /\ selectStage \in {"planning", "running", "done", "elsewhere"}
  /\ selectStage \in {"running", "done"} => SemaphoresCount
  /\ selectStage = "done" => \A x \in SelectCores : doing[x] = "done"

LEMMA SamePlan ==
  ASSUME plan' = plan
  PROVE  /\ SelectCores' = SelectCores /\ PlanFits' = PlanFits
         /\ \A x : Merger(x)' = Merger(x) /\ Owner(x)' = Owner(x)
         /\ \A x : SendersTo(x)' = SendersTo(x) /\ MergersOf(x)' = MergersOf(x)
<1>1. PerTileRow' = PerTileRow /\ SelectCores' = SelectCores
  BY DEF PerTileRow, SelectCores
<1>2. \A x : SegmentOf(x)' = SegmentOf(x) /\ GroupOf(x)' = GroupOf(x) /\ TileRow(x)' = TileRow(x)
  BY <1>1 DEF SegmentOf, GroupOf, TileRow
<1>3. \A x : OwnerOf(x)' = OwnerOf(x)
  BY <1>1, <1>2 DEF OwnerOf
<1>4. \A x : MergerOf(x)' = MergerOf(x)
  BY <1>2, <1>3 DEF MergerOf
<1>5. \A x : Merger(x)' = Merger(x)
  BY <1>2 DEF Merger
<1>6. \A x : Owner(x)' = Owner(x)
  BY <1>2, <1>5 DEF Owner
<1>7. \A x : SendersTo(x)' = SendersTo(x) /\ MergersOf(x)' = MergersOf(x)
  BY <1>1, <1>3, <1>4, <1>5, <1>6 DEF SendersTo, MergersOf
<1>8. PlanFits' = PlanFits
  BY <1>1 DEF PlanFits
<1> QED BY <1>1, <1>5, <1>6, <1>7, <1>8

\* A step that moves no core and counts nothing.
LEMMA NothingCounted ==
  ASSUME SemaphoresCount, UNCHANGED <<plan, doing, merge_sem, owner_sem>>
  PROVE  SemaphoresCount'
<1>1. /\ SelectCores' = SelectCores /\ PlanFits' = PlanFits
      /\ \A x : Merger(x)' = Merger(x) /\ Owner(x)' = Owner(x)
      /\ \A x : SendersTo(x)' = SendersTo(x) /\ MergersOf(x)' = MergersOf(x)
  BY SamePlan
<1>2. \A x : SendersDone(x)' = SendersDone(x) /\ MergersDone(x)' = MergersDone(x)
  BY <1>1 DEF SendersDone, MergersDone
<1>3. \A x : RolesKept(x)' = RolesKept(x)
  BY <1>1 DEF RolesKept
<1>4. \A x : MergeCounts(x)' = MergeCounts(x) /\ OwnerCounts(x)' = OwnerCounts(x)
  BY <1>1, <1>2 DEF MergeCounts, OwnerCounts
<1> QED BY <1>1, <1>3, <1>4 DEF SemaphoresCount

\* A core goes to a place other than the end, and keeps its roles and counts.
LEMMA CoreMoves ==
  ASSUME SemaphoresCount, plan' = plan, NEW i \in SelectCores, doing[i] # "done",
         NEW v \in Places \ {"done"}, doing' = [doing EXCEPT ![i] = v],
         merge_sem' \in [SelectCores -> Nat], \A x \in SelectCores \ {i} : merge_sem'[x] = merge_sem[x],
         owner_sem' = owner_sem,
         RolesKept(i)',
         SendersDone(i)' = SendersDone(i) /\ SendersTo(i)' = SendersTo(i) => MergeCounts(i)',
         MergersDone(i)' = MergersDone(i) /\ MergersOf(i)' = MergersOf(i) => OwnerCounts(i)'
  PROVE  SemaphoresCount'
<1>1. /\ SelectCores' = SelectCores /\ PlanFits' = PlanFits
      /\ \A x : Merger(x)' = Merger(x) /\ Owner(x)' = Owner(x)
      /\ \A x : SendersTo(x)' = SendersTo(x) /\ MergersOf(x)' = MergersOf(x)
  BY SamePlan
<1>2. /\ doing \in [SelectCores -> Places] /\ doing' \in [SelectCores -> Places] /\ doing'[i] = v
      /\ \A x \in SelectCores \ {i} : doing'[x] = doing[x]
      /\ owner_sem' \in [SelectCores -> Nat]
  BY DEF SemaphoresCount
<1>3. \A x : SendersDone(x)' = SendersDone(x) /\ MergersDone(x)' = MergersDone(x)
  BY <1>1, <1>2 DEF SendersDone, MergersDone, SendersTo, MergersOf
<1>4. ASSUME NEW x \in SelectCores PROVE RolesKept(x)' /\ MergeCounts(x)' /\ OwnerCounts(x)'
  <2>1. CASE x = i
    BY <1>1, <1>3, <2>1
  <2>2. CASE x # i
    <3>1. doing'[x] = doing[x] /\ merge_sem'[x] = merge_sem[x] /\ owner_sem'[x] = owner_sem[x]
      BY <1>2, <2>2
    <3>2. RolesKept(x) /\ MergeCounts(x) /\ OwnerCounts(x)
      BY DEF SemaphoresCount
    <3>3. RolesKept(x)'
      BY <1>1, <3>1, <3>2 DEF RolesKept
    <3>4. MergeCounts(x)' /\ OwnerCounts(x)'
      BY <1>1, <1>3, <3>1, <3>2 DEF MergeCounts, OwnerCounts
    <3> QED BY <3>3, <3>4
  <2> QED BY <2>1, <2>2
<1> QED BY <1>1, <1>2, <1>4 DEF SemaphoresCount

\* What a semaphore can be: those counted are some of those who tell.
LEMMA DoneAmong ==
  ASSUME SemaphoresCount, NEW x \in SelectCores
  PROVE  /\ IsFiniteSet(SendersDone(x)) /\ Cardinality(SendersDone(x)) \in Nat
         /\ Cardinality(SendersDone(x)) = plan.segments - 1 => SendersDone(x) = SendersTo(x)
         /\ IsFiniteSet(MergersDone(x)) /\ Cardinality(MergersDone(x)) \in Nat
         /\ Cardinality(MergersDone(x)) = plan.row_groups - 1 => MergersDone(x) = MergersOf(x)
<1>1. PlanFits
  BY DEF SemaphoresCount
<1>2. plan.segments \in Nat /\ plan.row_groups \in Nat
  BY <1>1 DEF PlanFits
<1>3. /\ IsFiniteSet(SendersTo(x)) /\ Cardinality(SendersTo(x)) <= plan.segments - 1
      /\ IsFiniteSet(MergersOf(x)) /\ Cardinality(MergersOf(x)) <= plan.row_groups - 1
  BY <1>1, FewSenders, FewMergers
<1>4. SendersDone(x) \subseteq SendersTo(x) /\ MergersDone(x) \subseteq MergersOf(x)
  BY DEF SendersDone, MergersDone
<1>5. /\ IsFiniteSet(SendersDone(x)) /\ Cardinality(SendersDone(x)) <= Cardinality(SendersTo(x))
      /\ Cardinality(SendersDone(x)) = Cardinality(SendersTo(x)) => SendersDone(x) = SendersTo(x)
  BY <1>3, <1>4, FS_Subset
<1>6. /\ IsFiniteSet(MergersDone(x)) /\ Cardinality(MergersDone(x)) <= Cardinality(MergersOf(x))
      /\ Cardinality(MergersDone(x)) = Cardinality(MergersOf(x)) => MergersDone(x) = MergersOf(x)
  BY <1>3, <1>4, FS_Subset
<1>7. /\ Cardinality(SendersDone(x)) \in Nat /\ Cardinality(MergersDone(x)) \in Nat
      /\ Cardinality(SendersTo(x)) \in Nat /\ Cardinality(MergersOf(x)) \in Nat
  BY <1>3, <1>5, <1>6, FS_CardinalityType
<1> QED BY <1>2, <1>3, <1>5, <1>6, <1>7

LEMMA KernelStarts ==
  ASSUME SemaphoresCount, NEW i \in SelectCores, ZeroPaddingRows(i)
  PROVE  SemaphoresCount'
<1>1. /\ doing[i] = "starting" /\ doing' = [doing EXCEPT ![i] = "selecting"]
      /\ UNCHANGED <<plan, merge_sem, owner_sem>>
  BY DEF ZeroPaddingRows
<1>2. /\ doing'[i] = "selecting" /\ "selecting" \in Places \ {"done"}
      /\ merge_sem \in [SelectCores -> Nat] /\ MergeCounts(i) /\ OwnerCounts(i)
  BY <1>1 DEF SemaphoresCount, Places
<1>3. RolesKept(i)'
  BY <1>2 DEF RolesKept
<1>4. SendersDone(i)' = SendersDone(i) => MergeCounts(i)'
  BY <1>1, <1>2 DEF MergeCounts, BeforeMerging
<1>5. MergersDone(i)' = MergersDone(i) => OwnerCounts(i)'
  BY <1>1, <1>2 DEF OwnerCounts
<1> QED BY <1>1, <1>2, <1>3, <1>4, <1>5, CoreMoves

\* A core that has no list of its own to wait for has nobody tell it.
LEMMA SelectingEnds ==
  ASSUME SemaphoresCount, NEW i \in SelectCores, FinishSelecting(i)
  PROVE  SemaphoresCount'
<1> DEFINE v == IF plan.segments = 1 THEN AfterRows(i)
                ELSE IF Merger(i) THEN "waiting" ELSE "telling merger"
<1>1. /\ doing[i] = "selecting" /\ doing' = [doing EXCEPT ![i] = v]
      /\ UNCHANGED <<plan, merge_sem, owner_sem>>
  BY DEF FinishSelecting
<1>2. /\ doing'[i] = v /\ v \in {"collecting", "telling owner", "waiting", "telling merger"}
      /\ merge_sem \in [SelectCores -> Nat] /\ MergeCounts(i) /\ OwnerCounts(i)
  BY <1>1 DEF SemaphoresCount, AfterRows
<1>3. v \in Places \ {"done"}
  BY <1>2 DEF Places
<1>4. /\ ~Merger(i) => SendersTo(i) = {}
      /\ plan.segments = 1 => Merger(i) /\ SendersTo(i) = {}
  BY NobodyTells DEF SemaphoresCount
<1>5. Merger(i)' = Merger(i) /\ Owner(i)' = Owner(i)
  BY <1>1, SamePlan
<1>6. RolesKept(i)'
  BY <1>1, <1>2, <1>4, <1>5 DEF RolesKept, AfterRows
<1>7. ASSUME SendersDone(i)' = SendersDone(i), SendersTo(i)' = SendersTo(i) PROVE MergeCounts(i)'
  <2>1. merge_sem[i] = Cardinality(SendersDone(i))
    BY <1>1, <1>2 DEF MergeCounts, BeforeMerging
  <2>2. CASE v = "waiting"
    BY <1>1, <1>2, <1>7, <2>1, <2>2 DEF MergeCounts, BeforeMerging
  <2>3. CASE v # "waiting"
    <3>1. SendersTo(i) = {}
      BY <1>4, <2>3
    <3>2. SendersDone(i) = {} /\ Cardinality({}) = 0
      BY <3>1, FS_EmptySet DEF SendersDone
    <3> QED BY <1>1, <1>2, <1>7, <2>1, <2>3, <3>1, <3>2 DEF MergeCounts, BeforeMerging
  <2> QED BY <2>2, <2>3
<1>8. MergersDone(i)' = MergersDone(i) => OwnerCounts(i)'
  BY <1>1, <1>2 DEF OwnerCounts
<1> QED BY <1>1, <1>2, <1>3, <1>6, <1>7, <1>8, CoreMoves

LEMMA SegmentsArrive ==
  ASSUME SemaphoresCount, NEW i \in SelectCores, WaitForSegments(i)
  PROVE  SemaphoresCount'
<1>1. /\ doing[i] = "waiting" /\ doing' = [doing EXCEPT ![i] = "resetting"]
      /\ merge_sem[i] = plan.segments - 1 /\ UNCHANGED <<plan, merge_sem, owner_sem>>
  BY DEF WaitForSegments
<1>2. /\ doing'[i] = "resetting" /\ "resetting" \in Places \ {"done"} /\ RolesKept(i)
      /\ merge_sem \in [SelectCores -> Nat] /\ MergeCounts(i) /\ OwnerCounts(i)
  BY <1>1 DEF SemaphoresCount, Places
<1>3. RolesKept(i)'
  BY <1>1, <1>2, SamePlan DEF RolesKept
<1>4. merge_sem[i] = Cardinality(SendersDone(i))
  BY <1>1, <1>2 DEF MergeCounts, BeforeMerging
<1>5. SendersDone(i) = SendersTo(i)
  BY <1>1, <1>4, DoneAmong
<1>6. SendersDone(i)' = SendersDone(i) /\ SendersTo(i)' = SendersTo(i) => MergeCounts(i)'
  BY <1>1, <1>2, <1>4, <1>5 DEF MergeCounts, BeforeMerging
<1>7. MergersDone(i)' = MergersDone(i) => OwnerCounts(i)'
  BY <1>1, <1>2 DEF OwnerCounts
<1> QED BY <1>1, <1>2, <1>3, <1>6, <1>7, CoreMoves

LEMMA MergingStarts ==
  ASSUME SemaphoresCount, NEW i \in SelectCores, StartMerging(i)
  PROVE  SemaphoresCount'
<1>1. /\ doing[i] = "resetting" /\ doing' = [doing EXCEPT ![i] = "merging"]
      /\ merge_sem' = [merge_sem EXCEPT ![i] = 0] /\ UNCHANGED <<plan, owner_sem>>
  BY DEF StartMerging, AfterWait
<1>2. /\ doing'[i] = "merging" /\ "merging" \in Places \ {"done"} /\ RolesKept(i)
      /\ merge_sem \in [SelectCores -> Nat] /\ MergeCounts(i) /\ OwnerCounts(i)
  BY <1>1 DEF SemaphoresCount, Places
<1>3. RolesKept(i)'
  BY <1>1, <1>2, SamePlan DEF RolesKept
<1>4. /\ merge_sem' \in [SelectCores -> Nat] /\ merge_sem'[i] = 0
      /\ \A x \in SelectCores \ {i} : merge_sem'[x] = merge_sem[x]
  BY <1>1, <1>2
<1>5. SendersDone(i)' = SendersDone(i) /\ SendersTo(i)' = SendersTo(i) => MergeCounts(i)'
  BY <1>1, <1>2, <1>4 DEF MergeCounts, BeforeMerging
<1>6. MergersDone(i)' = MergersDone(i) => OwnerCounts(i)'
  BY <1>1, <1>2 DEF OwnerCounts
<1> QED BY <1>1, <1>2, <1>3, <1>4, <1>5, <1>6, CoreMoves

LEMMA MergingEnds ==
  ASSUME SemaphoresCount, NEW i \in SelectCores, FinishMerging(i)
  PROVE  SemaphoresCount'
<1>1. /\ doing[i] = "merging" /\ doing' = [doing EXCEPT ![i] = AfterRows(i)]
      /\ UNCHANGED <<plan, merge_sem, owner_sem>>
  BY DEF FinishMerging
<1>2. /\ doing'[i] = AfterRows(i) /\ AfterRows(i) \in {"collecting", "telling owner"} /\ RolesKept(i)
      /\ merge_sem \in [SelectCores -> Nat] /\ MergeCounts(i) /\ OwnerCounts(i)
  BY <1>1 DEF SemaphoresCount, AfterRows
<1>3. AfterRows(i) \in Places \ {"done"}
  BY <1>2 DEF Places
<1>4. RolesKept(i)'
  BY <1>1, <1>2, SamePlan DEF RolesKept, AfterRows
<1>5. SendersDone(i)' = SendersDone(i) /\ SendersTo(i)' = SendersTo(i) => MergeCounts(i)'
  BY <1>1, <1>2 DEF MergeCounts, BeforeMerging
<1>6. MergersDone(i)' = MergersDone(i) => OwnerCounts(i)'
  BY <1>1, <1>2 DEF OwnerCounts
<1> QED BY <1>1, <1>2, <1>3, <1>4, <1>5, <1>6, CoreMoves

LEMMA GroupsArrive ==
  ASSUME SemaphoresCount, NEW i \in SelectCores, WaitForGroups(i)
  PROVE  SemaphoresCount'
<1>1. /\ doing[i] = "collecting" /\ doing' = [doing EXCEPT ![i] = "storing"]
      /\ owner_sem[i] = plan.row_groups - 1 /\ UNCHANGED <<plan, merge_sem, owner_sem>>
  BY DEF WaitForGroups
<1>2. /\ doing'[i] = "storing" /\ "storing" \in Places \ {"done"} /\ RolesKept(i)
      /\ merge_sem \in [SelectCores -> Nat] /\ MergeCounts(i) /\ OwnerCounts(i)
  BY <1>1 DEF SemaphoresCount, Places
<1>3. RolesKept(i)'
  BY <1>1, <1>2, SamePlan DEF RolesKept
<1>4. SendersDone(i)' = SendersDone(i) /\ SendersTo(i)' = SendersTo(i) => MergeCounts(i)'
  BY <1>1, <1>2 DEF MergeCounts, BeforeMerging
<1>5. owner_sem[i] = Cardinality(MergersDone(i))
  BY <1>1, <1>2 DEF OwnerCounts
<1>6. MergersDone(i) = MergersOf(i)
  BY <1>1, <1>5, DoneAmong
<1>7. MergersDone(i)' = MergersDone(i) /\ MergersOf(i)' = MergersOf(i) => OwnerCounts(i)'
  BY <1>1, <1>2, <1>6 DEF OwnerCounts
<1> QED BY <1>1, <1>2, <1>3, <1>4, <1>7, CoreMoves

\* A core that ends counts for its merger, or its owner.
LEMMA MergerIsTold ==
  ASSUME SemaphoresCount, NEW i \in SelectCores, TellMerger(i)
  PROVE  SemaphoresCount'
<1>0. PICK m \in SelectCores : m = MergerOf(i)
  BY CoreFacts DEF SemaphoresCount
<1>1. /\ doing[i] = "telling merger" /\ doing' = [doing EXCEPT ![i] = "done"]
      /\ merge_sem' = [merge_sem EXCEPT ![m] = @ + 1] /\ UNCHANGED <<plan, owner_sem>>
  BY <1>0 DEF TellMerger
<1>2. /\ SelectCores' = SelectCores /\ PlanFits' = PlanFits
      /\ \A x : Merger(x)' = Merger(x) /\ Owner(x)' = Owner(x)
      /\ \A x : SendersTo(x)' = SendersTo(x) /\ MergersOf(x)' = MergersOf(x)
  BY <1>1, SamePlan
<1>3. /\ PlanFits /\ doing \in [SelectCores -> Places]
      /\ merge_sem \in [SelectCores -> Nat] /\ owner_sem \in [SelectCores -> Nat]
      /\ \A x \in SelectCores : RolesKept(x) /\ MergeCounts(x) /\ OwnerCounts(x)
  BY DEF SemaphoresCount
<1>4. ~Merger(i) /\ m \in SelectCores /\ Merger(m) /\ m # i /\ i \in SendersTo(m)
  BY <1>0, <1>1, <1>3, CoreFacts DEF RolesKept, Merger, SendersTo
<1>5. /\ doing' \in [SelectCores -> Places] /\ doing'[i] = "done"
      /\ \A x \in SelectCores \ {i} : doing'[x] = doing[x]
      /\ merge_sem' \in [SelectCores -> Nat] /\ merge_sem'[m] = merge_sem[m] + 1
      /\ \A x \in SelectCores \ {m} : merge_sem'[x] = merge_sem[x]
  <2>1. /\ doing' \in [SelectCores -> Places] /\ doing'[i] = "done"
        /\ \A x \in SelectCores \ {i} : doing'[x] = doing[x]
    BY <1>1, <1>3 DEF Places
  <2>2. merge_sem[m] + 1 \in Nat
    BY <1>3
  <2>3. /\ merge_sem' \in [SelectCores -> Nat] /\ merge_sem'[m] = merge_sem[m] + 1
        /\ \A x \in SelectCores \ {m} : merge_sem'[x] = merge_sem[x]
    BY <1>1, <1>3, <2>2
  <2> QED BY <2>1, <2>3
<1>6. SendersDone(m)' = SendersDone(m) \cup {i} /\ i \notin SendersDone(m)
  BY <1>1, <1>2, <1>4, <1>5 DEF SendersDone, SendersTo
<1>7. \A x \in SelectCores \ {m} : SendersDone(x)' = SendersDone(x)
  BY <1>0, <1>2, <1>4, <1>5 DEF SendersDone, SendersTo
<1>8. \A x : MergersDone(x)' = MergersDone(x)
  BY <1>0, <1>2, <1>4, <1>5 DEF MergersDone, MergersOf
<1>9. ASSUME NEW x \in SelectCores PROVE RolesKept(x)' /\ MergeCounts(x)' /\ OwnerCounts(x)'
  <2>1. CASE x = i
    <3>1. RolesKept(i)'
      BY <1>5 DEF RolesKept
    <3>2. MergeCounts(i)'
      BY <1>1, <1>2, <1>3, <1>4, <1>5, <1>7 DEF MergeCounts, BeforeMerging
    <3>3. MergersOf(i) = {}
      BY <1>3, <1>4, NobodyTells DEF Owner
    <3>4. MergersDone(i) = {} /\ Cardinality({}) = 0
      BY <3>3, FS_EmptySet DEF MergersDone
    <3>5. owner_sem[i] = 0
      BY <1>1, <1>3, <3>4 DEF OwnerCounts
    <3>6. OwnerCounts(i)'
      BY <1>1, <1>2, <1>5, <1>8, <3>3, <3>4, <3>5 DEF OwnerCounts
    <3> QED BY <2>1, <3>1, <3>2, <3>6
  <2>2. CASE x # i
    <3>1. doing'[x] = doing[x] /\ RolesKept(x) /\ MergeCounts(x) /\ OwnerCounts(x)
      BY <1>3, <1>5, <2>2
    <3>2. RolesKept(x)'
      BY <1>2, <3>1 DEF RolesKept
    <3>3. OwnerCounts(x)'
      BY <1>1, <1>2, <1>8, <3>1 DEF OwnerCounts
    <3>4. CASE x = m
      <4>1. SendersDone(m) # SendersTo(m)
        BY <1>4, <1>6
      <4>2. doing[m] \in BeforeMerging \ {"resetting"}
        BY <4>1, <3>1, <3>4 DEF MergeCounts
      <4>3. merge_sem[m] = Cardinality(SendersDone(m))
        BY <4>2, <3>1, <3>4 DEF MergeCounts
      <4>4. IsFiniteSet(SendersDone(m))
        BY <1>4, DoneAmong
      <4>5. Cardinality(SendersDone(m) \cup {i}) = Cardinality(SendersDone(m)) + 1
        BY <1>6, <4>4, FS_AddElement
      <4>6. MergeCounts(x)'
        BY <1>2, <1>5, <1>6, <3>1, <3>4, <4>2, <4>3, <4>5 DEF MergeCounts, BeforeMerging
      <4> QED BY <3>2, <3>3, <4>6
    <3>5. CASE x # m
      BY <1>2, <1>5, <1>7, <3>1, <3>2, <3>3, <3>5 DEF MergeCounts
    <3> QED BY <3>2, <3>3, <3>4, <3>5
  <2> QED BY <2>1, <2>2
<1> QED BY <1>2, <1>3, <1>5, <1>9, <1>1 DEF SemaphoresCount

LEMMA OwnerIsTold ==
  ASSUME SemaphoresCount, NEW i \in SelectCores, TellOwner(i)
  PROVE  SemaphoresCount'
<1>0. PICK o \in SelectCores : o = OwnerOf(i)
  BY CoreFacts DEF SemaphoresCount
<1>1. /\ doing[i] = "telling owner" /\ doing' = [doing EXCEPT ![i] = "done"]
      /\ owner_sem' = [owner_sem EXCEPT ![o] = @ + 1] /\ UNCHANGED <<plan, merge_sem>>
  BY <1>0 DEF TellOwner
<1>2. /\ SelectCores' = SelectCores /\ PlanFits' = PlanFits
      /\ \A x : Merger(x)' = Merger(x) /\ Owner(x)' = Owner(x)
      /\ \A x : SendersTo(x)' = SendersTo(x) /\ MergersOf(x)' = MergersOf(x)
  BY <1>1, SamePlan
<1>3. /\ PlanFits /\ doing \in [SelectCores -> Places]
      /\ merge_sem \in [SelectCores -> Nat] /\ owner_sem \in [SelectCores -> Nat]
      /\ \A x \in SelectCores : RolesKept(x) /\ MergeCounts(x) /\ OwnerCounts(x)
  BY DEF SemaphoresCount
<1>4. Merger(i) /\ ~Owner(i) /\ o \in SelectCores /\ Owner(o) /\ o # i /\ i \in MergersOf(o)
  BY <1>0, <1>1, <1>3, CoreFacts DEF RolesKept, Merger, Owner, MergersOf
<1>5. /\ doing' \in [SelectCores -> Places] /\ doing'[i] = "done"
      /\ \A x \in SelectCores \ {i} : doing'[x] = doing[x]
      /\ owner_sem' \in [SelectCores -> Nat] /\ owner_sem'[o] = owner_sem[o] + 1
      /\ \A x \in SelectCores \ {o} : owner_sem'[x] = owner_sem[x]
  <2>1. /\ doing' \in [SelectCores -> Places] /\ doing'[i] = "done"
        /\ \A x \in SelectCores \ {i} : doing'[x] = doing[x]
    BY <1>1, <1>3 DEF Places
  <2>2. owner_sem[o] + 1 \in Nat
    BY <1>3
  <2>3. /\ owner_sem' \in [SelectCores -> Nat] /\ owner_sem'[o] = owner_sem[o] + 1
        /\ \A x \in SelectCores \ {o} : owner_sem'[x] = owner_sem[x]
    BY <1>1, <1>3, <2>2
  <2> QED BY <2>1, <2>3
<1>6. MergersDone(o)' = MergersDone(o) \cup {i} /\ i \notin MergersDone(o)
  BY <1>1, <1>2, <1>4, <1>5 DEF MergersDone, MergersOf
<1>7. \A x \in SelectCores \ {o} : MergersDone(x)' = MergersDone(x)
  BY <1>0, <1>2, <1>4, <1>5 DEF MergersDone, MergersOf
<1>8. \A x : SendersDone(x)' = SendersDone(x)
  BY <1>0, <1>2, <1>4, <1>5 DEF SendersDone, SendersTo
<1>9. ASSUME NEW x \in SelectCores PROVE RolesKept(x)' /\ MergeCounts(x)' /\ OwnerCounts(x)'
  <2>1. CASE x = i
    <3>1. RolesKept(i)'
      BY <1>5 DEF RolesKept
    <3>2. MergeCounts(i)'
      BY <1>1, <1>2, <1>3, <1>5, <1>8 DEF MergeCounts, BeforeMerging
    <3>3. MergersOf(i) = {}
      BY <1>3, <1>4, NobodyTells
    <3>4. MergersDone(i) = {} /\ Cardinality({}) = 0
      BY <3>3, FS_EmptySet DEF MergersDone
    <3>5. owner_sem[i] = 0
      BY <1>1, <1>3, <3>4 DEF OwnerCounts
    <3>6. OwnerCounts(i)'
      BY <1>2, <1>4, <1>5, <1>7, <3>3, <3>4, <3>5 DEF OwnerCounts
    <3> QED BY <2>1, <3>1, <3>2, <3>6
  <2>2. CASE x # i
    <3>1. doing'[x] = doing[x] /\ RolesKept(x) /\ MergeCounts(x) /\ OwnerCounts(x)
      BY <1>3, <1>5, <2>2
    <3>2. RolesKept(x)'
      BY <1>2, <3>1 DEF RolesKept
    <3>3. MergeCounts(x)'
      BY <1>1, <1>2, <1>8, <3>1 DEF MergeCounts
    <3>4. CASE x = o
      <4>1. MergersDone(o) # MergersOf(o)
        BY <1>4, <1>6
      <4>2. doing[o] \notin {"storing", "done"}
        BY <4>1, <3>1, <3>4 DEF OwnerCounts
      <4>3. owner_sem[o] = Cardinality(MergersDone(o))
        BY <4>2, <3>1, <3>4 DEF OwnerCounts
      <4>4. IsFiniteSet(MergersDone(o))
        BY <1>4, DoneAmong
      <4>5. Cardinality(MergersDone(o) \cup {i}) = Cardinality(MergersDone(o)) + 1
        BY <1>6, <4>4, FS_AddElement
      <4>6. OwnerCounts(x)'
        BY <1>2, <1>5, <1>6, <3>1, <3>4, <4>2, <4>3, <4>5 DEF OwnerCounts
      <4> QED BY <3>2, <3>3, <4>6
    <3>5. CASE x # o
      BY <1>2, <1>5, <1>7, <3>1, <3>2, <3>3, <3>5 DEF OwnerCounts
    <3> QED BY <3>2, <3>3, <3>4, <3>5
  <2> QED BY <2>1, <2>2
<1> QED BY <1>2, <1>3, <1>5, <1>9, <1>1 DEF SemaphoresCount

LEMMA OwnerStores ==
  ASSUME SemaphoresCount, NEW i \in SelectCores, StoreTiles(i)
  PROVE  SemaphoresCount'
<1>1. /\ doing[i] = "storing" /\ doing' = [doing EXCEPT ![i] = "done"]
      /\ owner_sem' = [owner_sem EXCEPT ![i] = 0] /\ UNCHANGED <<plan, merge_sem>>
  BY DEF StoreTiles, AfterWait
<1>2. /\ SelectCores' = SelectCores /\ PlanFits' = PlanFits
      /\ \A x : Merger(x)' = Merger(x) /\ Owner(x)' = Owner(x)
      /\ \A x : SendersTo(x)' = SendersTo(x) /\ MergersOf(x)' = MergersOf(x)
  BY <1>1, SamePlan
<1>3. /\ PlanFits /\ doing \in [SelectCores -> Places]
      /\ merge_sem \in [SelectCores -> Nat] /\ owner_sem \in [SelectCores -> Nat]
      /\ \A x \in SelectCores : RolesKept(x) /\ MergeCounts(x) /\ OwnerCounts(x)
  BY DEF SemaphoresCount
<1>4. Merger(i) /\ Owner(i)
  BY <1>1, <1>3 DEF RolesKept, Owner
<1>5. /\ doing' \in [SelectCores -> Places] /\ doing'[i] = "done"
      /\ \A x \in SelectCores \ {i} : doing'[x] = doing[x]
      /\ owner_sem' \in [SelectCores -> Nat] /\ owner_sem'[i] = 0
      /\ \A x \in SelectCores \ {i} : owner_sem'[x] = owner_sem[x]
  BY <1>1, <1>3 DEF Places
<1>6. \A x : SendersDone(x)' = SendersDone(x) /\ MergersDone(x)' = MergersDone(x)
  BY <1>2, <1>4, <1>5 DEF MergersDone, MergersOf, SendersDone, SendersTo
<1>7. ASSUME NEW x \in SelectCores PROVE RolesKept(x)' /\ MergeCounts(x)' /\ OwnerCounts(x)'
  <2>1. RolesKept(x) /\ MergeCounts(x) /\ OwnerCounts(x)
    BY <1>3
  <2>2. CASE x = i
    BY <1>1, <1>2, <1>5, <1>6, <2>1, <2>2 DEF RolesKept, MergeCounts, OwnerCounts, BeforeMerging
  <2>3. CASE x # i
    <3>1. doing'[x] = doing[x] /\ owner_sem'[x] = owner_sem[x] /\ merge_sem'[x] = merge_sem[x]
      BY <1>1, <1>5, <2>3
    <3>2. RolesKept(x)'
      BY <1>2, <2>1, <3>1 DEF RolesKept
    <3>3. MergeCounts(x)' /\ OwnerCounts(x)'
      BY <1>2, <1>6, <2>1, <3>1 DEF MergeCounts, OwnerCounts
    <3> QED BY <3>2, <3>3
  <2> QED BY <2>2, <2>3
<1> QED BY <1>1, <1>2, <1>3, <1>5, <1>7 DEF SemaphoresCount

LEMMA CoreSelects ==
  ASSUME SemaphoresCount, NEW i \in SelectCores, SelectCore(i)
  PROVE  SemaphoresCount'
<1>1. CASE SelectRow(i)
  BY <1>1, NothingCounted DEF SelectRow, Send
<1>2. CASE MergeRow(i)
  BY <1>2, NothingCounted DEF MergeRow, Send
<1>3. CASE SendLands(i)
  BY <1>3, NothingCounted DEF SendLands
<1> QED BY <1>1, <1>2, <1>3, KernelStarts, SelectingEnds, MergerIsTold, OwnerIsTold, SegmentsArrive,
           MergingStarts, MergingEnds, GroupsArrive, OwnerStores DEF SelectCore

-----------------------------------------------------------------------------
(* TopKSelect: the plan.                                                   *)

LEMMA LeastOfThree ==
  ASSUME NEW a \in Int, NEW b \in Int, NEW d \in Int
  PROVE  /\ Min({a, b, d}) \in {a, b, d}
         /\ Min({a, b, d}) <= a /\ Min({a, b, d}) <= b /\ Min({a, b, d}) <= d
<1>1. \E x \in {a, b, d} : \A y \in {a, b, d} : x <= y
  OBVIOUS
<1> QED BY <1>1 DEF Min

LEMMA QuotientFits ==
  ASSUME NEW a \in Nat, NEW b \in Nat \ {0}
  PROVE  a \div b \in Nat /\ (a \div b) * b <= a /\ a \div b <= a /\ (b <= a => a \div b # 0)
<1> DEFINE q == a \div b
           r == a % b
<1>1. q \in Nat /\ r \in 0 .. b - 1 /\ a = q * b + r
  BY Division
<1> HIDE DEF q, r
<1>2. q * b \in Nat /\ q <= q * b
  BY <1>1, Z3
<1>3. b <= a => q # 0
  <2>1. 0 * b = 0
    OBVIOUS
  <2> QED BY <1>1, <2>1
<1> QED BY <1>1, <1>2, <1>3 DEF q

\* The plan of a call splits its tile rows evenly, on cores that there are.
LEMMA PlansFit ==
  ASSUME NEW c \in SelectCalls, PlanOf(c) # None
  PROVE  /\ PlanOf(c).segments \in Nat \ {0} /\ PlanOf(c).row_groups \in Nat \ {0}
         /\ PlanOf(c).cores = TileRows(c) * (PlanOf(c).segments * PlanOf(c).row_groups)
         /\ TileRows(c) \in Nat \ {0} /\ PlanOf(c).cores <= c.cores
<1> DEFINE per_tile_row == c.cores \div TileRows(c)
           rows == IF Height(c) = 1 THEN c.height ELSE TileSize
           least == Min({per_tile_row \div rows, Width(c), MaxCandidates \div ListStride(c.k)})
           wanted == Max({1, least})
           segment_tiles == DivUp(Width(c), wanted)
           segments == DivUp(Width(c), segment_tiles)
           row_groups == Min({rows, per_tile_row \div segments})
<1>1. /\ c.k \in 1 .. MaxK /\ ~(c.k > c.width) /\ TileRows(c) # 0 /\ ~(TileRows(c) > c.cores)
      /\ PlanOf(c).segments = segments /\ PlanOf(c).row_groups = row_groups
      /\ PlanOf(c).cores = TileRows(c) * segments * row_groups
  <2> DEFINE rows_per_core == DivUp(rows, row_groups)
             fitting == [segments |-> segments, segment_tiles |-> segment_tiles, row_groups |-> row_groups,
                         rows_per_core |-> rows_per_core, cores |-> TileRows(c) * segments * row_groups]
             refused == \/ ~c.supported \/ c.k \notin 1 .. MaxK \/ c.k > c.width
                        \/ TileRows(c) = 0 \/ TileRows(c) > c.cores
                        \/ BetterSorted(c)
             large == rows_per_core * segment_tiles * 2 > MaxFaceRows
  <2>1. PlanOf(c) = IF refused THEN None ELSE IF large THEN None ELSE fitting
    BY DEF PlanOf
  <2>2. ~refused /\ PlanOf(c) = fitting
    <3> HIDE DEF refused, large, fitting
    <3> QED BY <2>1
  <2>3. /\ c.k \in 1 .. MaxK /\ ~(c.k > c.width) /\ TileRows(c) # 0 /\ ~(TileRows(c) > c.cores)
    <3> HIDE DEF fitting
    <3> QED BY <2>2
  <2>4. fitting.segments = segments /\ fitting.row_groups = row_groups
        /\ fitting.cores = TileRows(c) * segments * row_groups
    <3> HIDE DEF segments, row_groups, segment_tiles, rows_per_core
    <3> QED OBVIOUS
  <2> QED BY <2>2, <2>3, <2>4
<1>2. /\ c.slabs \in Nat /\ c.height \in Nat /\ c.width \in Nat \ {0} /\ c.k \in Nat \ {0} /\ c.cores \in Nat
      /\ TileSize \in Nat \ {0} /\ MaxCandidates \in Nat
  BY <1>1, SelectAssumption
<1>3. Height(c) \in Nat /\ (c.height = 0 => Height(c) = 0)
  <2>1. CASE c.height = 0
    <3>1. 0 + TileSize - 1 = 0 * TileSize + (TileSize - 1) /\ TileSize - 1 \in 0 .. TileSize - 1
      BY <1>2
    <3>2. (0 * TileSize + (TileSize - 1)) \div TileSize = 0
      BY <1>2, <3>1, OneQuotient
    <3> QED BY <2>1, <3>1, <3>2 DEF Height, DivUp
  <2>2. CASE c.height # 0
    BY <1>2, <2>2, RoundedUp DEF Height
  <2> QED BY <2>1, <2>2
<1>4. Height(c) # 0 /\ TileRows(c) \in Nat \ {0}
  <2>1. c.slabs * Height(c) \in Nat /\ (Height(c) = 0 => c.slabs * Height(c) = 0)
    BY <1>2, <1>3, Z3
  <2> QED BY <1>1, <2>1 DEF TileRows
<1>5. rows \in Nat \ {0}
  BY <1>2, <1>3, <1>4
<1>6. /\ per_tile_row \in Nat \ {0} /\ per_tile_row * TileRows(c) <= c.cores
      /\ per_tile_row \div rows \in Nat /\ per_tile_row \div rows <= per_tile_row
  BY <1>1, <1>2, <1>4, <1>5, QuotientFits
<1>7. Width(c) \in Nat \ {0}
  BY <1>2, RoundedUp DEF Width
<1>8. MaxCandidates \div ListStride(c.k) \in Nat
  <2>1. DivUp(c.k, 2) \in Nat \ {0}
    BY <1>2, RoundedUp
  <2>2. ListStride(c.k) \in Nat \ {0}
    BY <2>1 DEF ListStride
  <2> QED BY <1>2, <2>2, QuotientFits
<1> HIDE DEF per_tile_row, rows
<1>9. least \in Nat /\ least <= per_tile_row
  <2> DEFINE x == per_tile_row \div rows
             y == MaxCandidates \div ListStride(c.k)
             w == Width(c)
  <2>1. x \in Nat /\ y \in Nat /\ w \in Nat /\ x <= per_tile_row
    BY <1>6, <1>7, <1>8
  <2> HIDE DEF x, y, w
  <2>2. Min({x, w, y}) \in {x, w, y} /\ Min({x, w, y}) <= x
    <3>1. x \in Int /\ w \in Int /\ y \in Int
      BY <2>1
    <3> QED BY <3>1, LeastOfThree
  <2>3. least = Min({x, w, y})
    BY DEF x, y, w
  <2> HIDE DEF least
  <2>4. least \in Nat /\ least <= x
    BY <2>1, <2>2, <2>3
  <2> QED BY <1>6, <2>1, <2>4
<1> HIDE DEF least
<1>10. wanted \in Nat \ {0} /\ wanted <= per_tile_row
  BY <1>6, <1>9, LargerOfTwo
<1> HIDE DEF wanted
<1>11. segment_tiles \in Nat \ {0}
  BY <1>7, <1>10, RoundedUp
<1>12. segments \in Nat \ {0}
  BY <1>7, <1>11, RoundedUp
<1>13. segments <= wanted
  <2> DEFINE w == Width(c)
             t == segment_tiles
  <2>1. w <= t * wanted
    BY <1>7, <1>10, RoundedCovers
  <2> HIDE DEF t
  <2>2. t \in Nat \ {0} /\ w \in Nat \ {0}
    BY <1>7, <1>11 DEF t
  <2> HIDE DEF w
  <2>3. DivUp(w, t) <= wanted
    BY <1>10, <2>1, <2>2, RoundedLeast
  <2> QED BY <2>3 DEF w, t
<1> HIDE DEF segments, segment_tiles
<1>14. /\ per_tile_row \div segments \in Nat \ {0}
       /\ (per_tile_row \div segments) * segments <= per_tile_row
  BY <1>6, <1>10, <1>12, <1>13, QuotientFits
<1>15. row_groups \in Nat \ {0} /\ row_groups <= per_tile_row \div segments
  BY <1>5, <1>14, SmallerOfTwo
<1> HIDE DEF row_groups
<1>16. segments * row_groups <= per_tile_row
  <2> DEFINE u == per_tile_row \div segments
  <2>1. u \in Nat \ {0} /\ u * segments <= per_tile_row /\ row_groups <= u
    BY <1>14, <1>15
  <2> HIDE DEF u
  <2>2. segments * row_groups <= u * segments /\ segments * row_groups \in Nat /\ u * segments \in Nat
    BY <1>12, <1>15, <2>1, Z3
  <2> QED BY <1>6, <2>1, <2>2
<1>17. /\ TileRows(c) * segments * row_groups = TileRows(c) * (segments * row_groups)
       /\ TileRows(c) * (segments * row_groups) <= c.cores
  <2> DEFINE n == TileRows(c)
             g == segments * row_groups
  <2>1. n \in Nat \ {0} /\ g \in Nat
    BY <1>4, <1>12, <1>15, Z3
  <2>2. n * segments * row_groups = n * g
    <3> HIDE DEF n
    <3> QED BY <1>12, <1>15, <2>1, Z3
  <2>3. g <= per_tile_row /\ per_tile_row * n <= c.cores
    BY <1>6, <1>16
  <2> HIDE DEF n, g
  <2>4. n * g <= per_tile_row * n /\ n * g \in Nat /\ per_tile_row * n \in Nat
    BY <1>6, <2>1, <2>3, Z3
  <2>5. n * g <= c.cores
    BY <1>2, <2>3, <2>4
  <2> QED BY <2>2, <2>5 DEF n, g
<1> QED BY <1>1, <1>4, <1>12, <1>15, <1>17

LEMMA SelectionStarts ==
  ASSUME selectCall \in SelectCalls, LaunchSelect
  PROVE  SemaphoresCount'
<1>1. /\ PlanOf(selectCall) # None /\ plan' = PlanOf(selectCall)
      /\ doing' = [i \in SelectCores' |-> "starting"]
      /\ merge_sem' = [i \in SelectCores' |-> 0] /\ owner_sem' = [i \in SelectCores' |-> 0]
  BY DEF LaunchSelect
<1>2. PlanFits'
  BY <1>1, PlansFit DEF PlanFits, PerTileRow
<1>3. doing' \in [SelectCores' -> Places'] /\ \A i \in SelectCores' : doing'[i] = "starting"
  BY <1>1 DEF Places
<1>4. /\ merge_sem' \in [SelectCores' -> Nat] /\ owner_sem' \in [SelectCores' -> Nat]
      /\ \A i \in SelectCores' : merge_sem'[i] = 0 /\ owner_sem'[i] = 0
  BY <1>1
<1>5. ASSUME NEW x \in SelectCores' PROVE RolesKept(x)' /\ MergeCounts(x)' /\ OwnerCounts(x)'
  <2>1. SendersDone(x)' = {} /\ MergersDone(x)' = {}
    BY <1>3 DEF SendersDone, MergersDone, SendersTo, MergersOf
  <2>2. Cardinality({}) = 0
    BY FS_EmptySet
  <2>3. doing'[x] = "starting" /\ merge_sem'[x] = 0 /\ owner_sem'[x] = 0
    BY <1>3, <1>4
  <2> QED BY <2>1, <2>2, <2>3 DEF RolesKept, MergeCounts, OwnerCounts, BeforeMerging
<1> QED BY <1>2, <1>3, <1>4, <1>5 DEF SemaphoresCount

LEMMA SelectSteps == SelectInvariant /\ [SelectNext]_selectVars => SelectInvariant'
<1> SUFFICES ASSUME SelectInvariant, [SelectNext]_selectVars PROVE SelectInvariant'
  OBVIOUS
<1>1. /\ selectCall \in SelectCalls /\ selectStage \in {"planning", "running", "done", "elsewhere"}
      /\ selectStage \in {"running", "done"} => SemaphoresCount
      /\ selectStage = "done" => \A x \in SelectCores : doing[x] = "done"
  BY DEF SelectInvariant
<1>2. CASE UNCHANGED selectVars
  <2>1. UNCHANGED <<selectCall, selectStage, plan, doing, merge_sem, owner_sem>>
    BY <1>2 DEF selectVars
  <2>2. SemaphoresCount => SemaphoresCount'
    BY <2>1, NothingCounted
  <2>3. SelectCores' = SelectCores
    BY <2>1 DEF SelectCores
  <2> QED BY <1>1, <2>1, <2>2, <2>3 DEF SelectInvariant
<1>3. CASE GoElsewhere
  BY <1>1, <1>3 DEF GoElsewhere, SelectInvariant
<1>4. CASE LaunchSelect
  <2>1. selectStage' = "running" /\ selectCall' = selectCall
    BY <1>4 DEF LaunchSelect
  <2> QED BY <1>1, <1>4, <2>1, SelectionStarts DEF SelectInvariant
<1>5. CASE CompleteSelect
  <2>1. /\ selectStage = "running" /\ selectStage' = "done"
        /\ \A x \in SelectCores : doing[x] = "done"
        /\ UNCHANGED <<selectCall, plan, doing, merge_sem, owner_sem>>
    BY <1>5 DEF CompleteSelect
  <2>2. SemaphoresCount'
    BY <1>1, <2>1, NothingCounted
  <2>3. SelectCores' = SelectCores
    BY <2>1 DEF SelectCores
  <2> QED BY <1>1, <2>1, <2>2, <2>3 DEF SelectInvariant
<1>6. CASE selectStage = "running" /\ \E i \in SelectCores : SelectCore(i)
  <2>1. PICK i \in SelectCores : SelectCore(i)
    BY <1>6
  <2>2. SemaphoresCount'
    BY <1>1, <1>6, <2>1, CoreSelects
  <2>3. selectCall' = selectCall /\ selectStage' = selectStage
    BY <2>1 DEF SelectCore, ZeroPaddingRows, SelectRow, Send, FinishSelecting, TellMerger, TellOwner,
                WaitForSegments, StartMerging, MergeRow, FinishMerging, WaitForGroups, StoreTiles, SendLands
  <2> QED BY <1>1, <1>6, <2>2, <2>3 DEF SelectInvariant
<1> QED BY <1>2, <1>3, <1>4, <1>5, <1>6 DEF SelectNext, SelectStopped

\* A semaphore counts those who are done until it is reset, by which time all are, and the
\* value waited for is reached by all of them only (topk_select.cpp's noc_semaphore_inc,
\* noc_semaphore_wait and noc_semaphore_set).
THEOREM SemaphoresInvariant == SelectSpec => []SelectInvariant
<1>1. SelectInit => SelectInvariant
  BY DEF SelectInit, SelectInvariant
<1> QED BY <1>1, SelectSteps, PTL DEF SelectSpec

\* Every program ends with its semaphores at zero, as the next run of it needs.
THEOREM SemaphoresAreReset == SelectSpec => []SemaphoresEndAtZero
<1>1. SelectInvariant => SemaphoresEndAtZero
  BY DEF SelectInvariant, SemaphoresCount, MergeCounts, OwnerCounts, BeforeMerging, SemaphoresEndAtZero
<1> QED BY <1>1, SemaphoresInvariant, PTL
=============================================================================
