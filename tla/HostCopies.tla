----------------------------- MODULE HostCopies -----------------------------
(***************************************************************************)
(* Reads of PJRT buffers to the host (copyToHost) beside executions that   *)
(* take the buffers as inputs and hand the chips over to another mesh      *)
(* (tt_xla_copy_to_host_in_stream_order.patch, tt_xla_submesh.patch).  A   *)
(* read is enqueued by the framework's thread; a detached thread waits for *)
(* it and copies the data; closing a mesh waits for the copies in flight.  *)
(***************************************************************************)
EXTENDS Integers, FiniteSets

CONSTANTS
  Threads,      \* threads of the framework
  Runs,         \* sets of threads that use the plugin together
  Tensors,      \* PjrtTensors
  Sharded,      \* those of several shards, which keep the host copies of a read
  MaxMeshes,    \* bound: meshes used one after the other
  MaxCopies,    \* bound: copies to the host at once
  Nobody

ASSUME CopiesAssumption ==
  /\ IsFiniteSet(Threads)
  /\ Sharded \subseteq Tensors
  /\ Nobody \notin Threads
  /\ Runs \subseteq SUBSET Threads
  /\ MaxMeshes \in Nat \ {0} /\ MaxCopies \in Nat \ {0}

Meshes == 1 .. MaxMeshes
Slots == 1 .. MaxCopies

\* Where a tensor is, besides the meshes.
OnHost == 0
OnFrameworkMemory == -1
Nowhere == -2

VARIABLES
  running,                      \* the threads that use the plugin
  mesh,                         \* the mesh in use; the ones before it are closed
  at,                           \* where a tensor is
  hostBuffer,                   \* the framework's host buffer under a tensor
  kept,                         \* m_host_copies: the mesh they were read from, or 0
  copies,                       \* the copies to the host
  s_copies_to_host_in_flight,
  deviceWorkMutex,
  moving,                       \* the tensors a hand-over has not been to yet
  pc, copying                   \* per thread: what it is at; the copy it has enqueued

vars == <<running, mesh, at, hostBuffer, kept, copies, s_copies_to_host_in_flight, deviceWorkMutex,
          moving, pc, copying>>

NoCopy == [stage |-> "none", tensor |-> CHOOSE x \in Tensors : TRUE,
           mesh |-> 0, borrowed |-> FALSE, arrived |-> FALSE]

Init ==
  /\ running \in Runs
  /\ mesh = 1
  /\ at = [x \in Tensors |-> Nowhere]
  /\ hostBuffer = [x \in Tensors |-> "done"]
  /\ kept = [x \in Tensors |-> 0]
  /\ copies = [c \in Slots |-> NoCopy]
  /\ s_copies_to_host_in_flight = 0
  /\ deviceWorkMutex = Nobody
  /\ moving = {}
  /\ pc = [t \in Threads |-> "idle"]
  /\ copying = [t \in Threads |-> 0]

Goto(t, label) == pc' = [pc EXCEPT ![t] = label]

-----------------------------------------------------------------------------
(* Buffers come and go.                                                     *)

\* A buffer on the framework's memory (kImmutableZeroCopy), until a program takes
\* it or it is deleted.
CreateFromHost(t, x) ==
  /\ pc[t] = "idle" /\ at[x] = Nowhere
  /\ at' = [at EXCEPT ![x] = OnFrameworkMemory]
  /\ hostBuffer' = [hostBuffer EXCEPT ![x] = "held"]
  /\ UNCHANGED <<mesh, kept, copies, s_copies_to_host_in_flight, deviceWorkMutex, moving, pc,
                 copying>>

\* deleteData waits for no copy: the copies hold all they use.  The framework may
\* free its host buffer.  It deletes no buffer during a call on it.
DeleteData(t, x) ==
  /\ pc[t] = "idle" /\ at[x] # Nowhere
  /\ \A u \in Threads : copying[u] # 0 => copies[copying[u]].tensor # x
  /\ at' = [at EXCEPT ![x] = Nowhere]
  /\ hostBuffer' = [hostBuffer EXCEPT ![x] = "done"]
  /\ kept' = [kept EXCEPT ![x] = 0]
  /\ moving' = moving \ {x}
  /\ UNCHANGED <<mesh, copies, s_copies_to_host_in_flight, deviceWorkMutex, pc, copying>>

-----------------------------------------------------------------------------
(* copyToHost.                                                              *)

\* Mutant: nobody asks whether the data is still the framework's.
HoldsNothing(x) == FALSE

HoldsHostBuffer(x) == hostBuffer[x] = "held"

\* start_copy_to_host under m_state_mutex: a copy of the framework's host buffer,
\* the host copies kept from another shard's read, or a read that is enqueued.
StartCopyToHost(t, x, c) ==
  /\ pc[t] = "idle" /\ at[x] # Nowhere
  /\ copies[c].stage = "none" /\ \A d \in Slots : d < c => copies[d].stage # "none"
  /\ LET onHost == at[x] \in {OnFrameworkMemory, OnHost}
         from == IF HoldsHostBuffer(x) THEN 0
                 ELSE IF kept[x] # 0 THEN kept[x] ELSE IF onHost THEN 0 ELSE at[x]
     IN /\ copies' = [copies EXCEPT ![c] =
              [stage |-> "enqueued", tensor |-> x, mesh |-> from,
               borrowed |-> at[x] = OnFrameworkMemory /\ ~HoldsHostBuffer(x),
               arrived |-> from = 0]]
        /\ kept' = IF x \in Sharded /\ ~HoldsHostBuffer(x) THEN [kept EXCEPT ![x] = from] ELSE kept
  /\ copying' = [copying EXCEPT ![t] = c]
  /\ Goto(t, "count")
  /\ UNCHANGED <<mesh, at, hostBuffer, s_copies_to_host_in_flight, deviceWorkMutex, moving>>

\* The copy is counted and its thread starts.
CountCopy(t) ==
  /\ pc[t] = "count"
  /\ s_copies_to_host_in_flight' = s_copies_to_host_in_flight + 1
  /\ copies' = [copies EXCEPT ![copying[t]].stage = "running"]
  /\ copying' = [copying EXCEPT ![t] = 0]
  /\ Goto(t, "idle")
  /\ UNCHANGED <<mesh, at, hostBuffer, kept, deviceWorkMutex, moving>>

\* The device has written the data to the host tensor.
ReadArrives(c) ==
  /\ copies[c].stage \in {"enqueued", "running"} /\ ~copies[c].arrived
  /\ copies[c].mesh = mesh
  /\ copies' = [copies EXCEPT ![c].arrived = TRUE]
  /\ UNCHANGED <<mesh, at, hostBuffer, kept, s_copies_to_host_in_flight, deviceWorkMutex,
                 moving, pc, copying>>

\* The copy's thread has waited for the host tensor's event: it copies the data, or
\* throws, and fires its event.  (Not the throw on a host buffer that is too small, which
\* comes before the wait: PJRT has callers ask this call for the size first.)
CopyData(c) ==
  /\ copies[c].stage = "running" /\ copies[c].arrived
  /\ copies' = [copies EXCEPT ![c].stage = "copied"]
  /\ UNCHANGED <<mesh, at, hostBuffer, kept, s_copies_to_host_in_flight, deviceWorkMutex,
                 moving, pc, copying>>

\* Mutant: a copy that failed is never taken off the count.
FinishCopyUncounted(c) ==
  /\ copies[c].stage = "copied"
  /\ copies' = [copies EXCEPT ![c] = NoCopy]
  /\ UNCHANGED <<mesh, at, hostBuffer, kept, s_copies_to_host_in_flight, deviceWorkMutex, moving,
                 pc, copying>>

FinishCopy(c) ==
  /\ copies[c].stage = "copied"
  /\ s_copies_to_host_in_flight' = s_copies_to_host_in_flight - 1
  /\ copies' = [copies EXCEPT ![c] = NoCopy]
  /\ UNCHANGED <<mesh, at, hostBuffer, kept, deviceWorkMutex, moving, pc,
                 copying>>

-----------------------------------------------------------------------------
(* Executions.                                                              *)

\* An execution runs on the mesh in use, or on one of another shape.
StartExecute(t, sameMesh) ==
  /\ pc[t] = "idle" /\ deviceWorkMutex = Nobody
  /\ sameMesh \/ mesh < MaxMeshes
  /\ deviceWorkMutex' = t
  /\ Goto(t, IF sameMesh THEN "execute" ELSE "move")
  /\ moving' = IF sameMesh THEN {} ELSE {x \in Tensors : at[x] # Nowhere}
  /\ UNCHANGED <<mesh, at, hostBuffer, kept, copies, s_copies_to_host_in_flight, copying>>

\* Mutant: kept host copies outlive the mesh.
MoveToHostKeeping(t, x) ==
  /\ pc[t] = "move" /\ x \in moving
  /\ moving' = moving \ {x}
  /\ at' = [at EXCEPT ![x] = IF at[x] \in Meshes THEN OnHost ELSE at[x]]
  /\ UNCHANGED <<mesh, hostBuffer, kept, copies, s_copies_to_host_in_flight, deviceWorkMutex,
                 pc, copying>>

\* TensorPool::move_tensors_to_host, a tensor at a time under its m_state_mutex.
MoveToHost(t, x) ==
  /\ pc[t] = "move" /\ x \in moving
  /\ moving' = moving \ {x}
  /\ at' = [at EXCEPT ![x] = IF at[x] \in Meshes THEN OnHost ELSE at[x]]
  /\ kept' = [kept EXCEPT ![x] = 0]
  /\ UNCHANGED <<mesh, hostBuffer, copies, s_copies_to_host_in_flight, deviceWorkMutex,
                 pc, copying>>

AllMoved(t) ==
  /\ pc[t] = "move" /\ moving = {}
  /\ Goto(t, "release")
  /\ UNCHANGED <<mesh, at, hostBuffer, kept, copies, s_copies_to_host_in_flight,
                 deviceWorkMutex, moving, copying>>

\* Mutant: nobody waits.
WaitForNothing(t) ==
  /\ pc[t] = "release"
  /\ Goto(t, "close")
  /\ UNCHANGED <<mesh, at, hostBuffer, kept, copies, s_copies_to_host_in_flight,
                 deviceWorkMutex, moving, copying>>

WaitForCopiesToHost(t) ==
  /\ pc[t] = "release"
  /\ s_copies_to_host_in_flight = 0
  /\ Goto(t, "close")
  /\ UNCHANGED <<mesh, at, hostBuffer, kept, copies, s_copies_to_host_in_flight,
                 deviceWorkMutex, moving, copying>>

\* releaseSubMeshDevice finishes the work on the chips and closes the submesh;
\* createSubMeshDevice makes the next one.
HandOver(t) ==
  /\ pc[t] = "close"
  /\ mesh' = mesh + 1
  /\ copies' = [c \in Slots |-> [copies[c] EXCEPT !.arrived = copies[c].stage # "none"]]
  /\ Goto(t, "execute")
  /\ UNCHANGED <<at, hostBuffer, kept, s_copies_to_host_in_flight, deviceWorkMutex, moving, copying>>

\* ensure_layout: the program takes an input to the device, which is the end of
\* the framework's host buffer.
TakeInput(t, x) ==
  /\ pc[t] = "execute" /\ at[x] \in {OnFrameworkMemory, OnHost}
  /\ at' = [at EXCEPT ![x] = mesh]
  /\ hostBuffer' = [hostBuffer EXCEPT ![x] = "done"]
  /\ UNCHANGED <<mesh, kept, copies, s_copies_to_host_in_flight, deviceWorkMutex, moving, pc,
                 copying>>

\* The program ends, perhaps with a new output on the device.
FinishExecute(t) ==
  /\ pc[t] = "execute"
  /\ \/ UNCHANGED at
     \/ \E x \in Tensors : at[x] = Nowhere /\ at' = [at EXCEPT ![x] = mesh]
  /\ deviceWorkMutex' = Nobody
  /\ Goto(t, "idle")
  /\ UNCHANGED <<mesh, hostBuffer, kept, copies, s_copies_to_host_in_flight, moving, copying>>

-----------------------------------------------------------------------------
CopyStep(c) == ReadArrives(c) \/ CopyData(c) \/ FinishCopy(c)

ExecuteStep(t) ==
  \/ \E x \in Tensors : MoveToHost(t, x)
  \/ AllMoved(t) \/ WaitForCopiesToHost(t) \/ HandOver(t)

Next ==
  /\ \/ \E t \in running, x \in Tensors :
          \/ CreateFromHost(t, x) \/ DeleteData(t, x) \/ TakeInput(t, x)
          \/ \E c \in Slots : StartCopyToHost(t, x, c)
     \/ \E t \in running, b \in BOOLEAN : StartExecute(t, b)
     \/ \E t \in running : CountCopy(t) \/ ExecuteStep(t) \/ FinishExecute(t)
     \/ \E c \in Slots : CopyStep(c)
  /\ running' = running

Spec == Init /\ [][Next]_vars

\* Threads keep running; the device processes what it is given.
FairSpec ==
  /\ Spec
  /\ \A t \in Threads : /\ WF_vars(CountCopy(t) /\ running' = running)
                        /\ WF_vars(ExecuteStep(t) /\ running' = running)
  /\ \A c \in Slots : WF_vars(CopyStep(c) /\ running' = running)

-----------------------------------------------------------------------------
CopyStates ==
  [stage : {"none", "enqueued", "running", "copied"}, tensor : Tensors \cup {NoCopy.tensor},
   mesh : 0 .. MaxMeshes, borrowed : BOOLEAN, arrived : BOOLEAN]

\* The state has its type.
TypeOK ==
  /\ running \subseteq Threads
  /\ mesh \in Meshes
  /\ at \in [Tensors -> Meshes \cup {OnHost, OnFrameworkMemory, Nowhere}]
  /\ hostBuffer \in [Tensors -> {"held", "done"}]
  /\ kept \in [Tensors -> 0 .. MaxMeshes]
  /\ copies \in [Slots -> CopyStates]
  /\ s_copies_to_host_in_flight \in Nat
  /\ deviceWorkMutex \in Threads \cup {Nobody}
  /\ moving \subseteq Tensors
  /\ pc \in [Threads -> {"idle", "count", "move", "release", "close", "execute"}]
  /\ copying \in [Threads -> 0 .. MaxCopies]

\* "closing the mesh they read from must" wait for the copies in flight: none
\* still has to wait for an event of a mesh that is closed.  (Where the framework
\* has two threads, one can, see CountCopy.)
NoCopyFromClosedMesh ==
  \A c \in Slots : copies[c].stage \in {"enqueued", "running"} => copies[c].mesh \in {0, mesh}

\* "Kept host tensors carry the events of reads from the mesh being left": once
\* another mesh is in use, no tensor is on the closed one or hands out host copies
\* that wait for it.
NothingLeftOnClosedMesh ==
  \A x \in Tensors :
    /\ at[x] \in Meshes => at[x] = mesh
    /\ kept[x] \in {0, mesh}

\* "the framework may free" its host buffer once a program has taken the tensor
\* or it is deleted: no copy under way still reads that memory by then.
HostBufferOutlivesReads ==
  \A c \in Slots : copies[c].borrowed => hostBuffer[copies[c].tensor] = "held"

\* A framework of one thread never has a copy left that reads a closed mesh.
OneThreadClosesAfterCopies == Cardinality(running) = 1 => NoCopyFromClosedMesh

\* The wait for copies ends, and with it the hand-over, when the one thread that
\* could start more of them is the one that waits.
HandOverCompletes ==
  \A t \in Threads : running = {t} /\ pc[t] = "move" ~> pc[t] = "execute"
=============================================================================
