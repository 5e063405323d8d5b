-------------------------- MODULE Processes_proofs --------------------------
(* What processes share and what a process has once.  The runtime files are  *)
(* complete for every thread that got through, for any number of processes,  *)
(* threads, files, failures and deaths; and the clients of a process share   *)
(* one open instance, for any number of threads, clients and instances.      *)
EXTENDS RuntimeRoot, ClientLifecycle, FiniteSetTheorems, SequenceTheorems, TLAPS

-----------------------------------------------------------------------------
(* The runtime root: the lock, the marker and the files.                     *)

\* From the marker check to the unlock a process holds the lock.
LockHeld ==
  \A p \in Processes :
    runner[p] \in {"check", "extract", "write", "mark", "unlock"} => lock = p

\* The entries before the next one are whole.
Progress ==
  \A p \in Processes :
    /\ runner[p] \in {"extract", "write"} => \A i \in Entries : i < next[p] => file[i] = "whole"
    /\ runner[p] = "mark" => Complete

\* The marker stands for complete files that nobody is extracting.
MarkerTrue ==
  marker => /\ Complete
            /\ \A p \in Processes : runner[p] \notin {"extract", "write", "mark"}

\* Nobody gets past the marker check without the marker.
MarkedFirst ==
  /\ \A p \in Processes : runner[p] = "unlock" \/ once[p] = "done" => marker
  /\ \A t \in Threads : thread[t] = "returned" => marker

RootIInv == TypeOK /\ LockHeld /\ Progress /\ MarkerTrue /\ MarkedFirst

LEMMA RootInitIInv == Init => RootIInv
<1> SUFFICES ASSUME Init PROVE RootIInv
  OBVIOUS
<1>1. 1 \in Entries
  BY RuntimeRootAssumption DEF Entries
<1>2. TypeOK
  BY <1>1 DEF Init, TypeOK
<1>3. LockHeld /\ Progress /\ MarkerTrue /\ MarkedFirst
  BY DEF Init, LockHeld, Progress, MarkerTrue, MarkedFirst
<1> QED BY <1>2, <1>3 DEF RootIInv

-----------------------------------------------------------------------------
LEMMA RootStepTypeOK == RootIInv /\ [Next]_vars => TypeOK'
<1> SUFFICES ASSUME TypeOK, [Next]_vars PROVE TypeOK'
  BY DEF RootIInv
<1>1. ASSUME NEW t \in Threads, Enter(t) PROVE TypeOK'
  BY <1>1, RuntimeRootAssumption DEF Enter, TypeOK
<1>2. ASSUME NEW t \in Threads, Pass(t) PROVE TypeOK'
  BY <1>2 DEF Pass, TypeOK
<1>3. ASSUME NEW p \in Processes, TakeLock(p) PROVE TypeOK'
  BY <1>3 DEF TakeLock, TypeOK
<1>4. ASSUME NEW p \in Processes, CheckMarker(p) PROVE TypeOK'
  <2>1. 1 \in Entries
    BY RuntimeRootAssumption DEF Entries
  <2> QED BY <1>4, <2>1 DEF CheckMarker, TypeOK
<1>5. ASSUME NEW p \in Processes, OpenEntry(p) PROVE TypeOK'
  BY <1>5 DEF OpenEntry, TypeOK
<1>6. ASSUME NEW p \in Processes, CloseEntry(p) PROVE TypeOK'
  <2>1. next[p] # Files => next[p] + 1 \in Entries
    BY RuntimeRootAssumption DEF Entries, TypeOK
  <2> QED BY <1>6, <2>1 DEF CloseEntry, TypeOK
<1>7. ASSUME NEW p \in Processes, CreateMarker(p) PROVE TypeOK'
  BY <1>7 DEF CreateMarker, TypeOK
<1>8. ASSUME NEW p \in Processes, Finish(p) PROVE TypeOK'
  BY <1>8 DEF Finish, TypeOK
<1>9. ASSUME NEW p \in Processes, Fail(p) PROVE TypeOK'
  BY <1>9 DEF Fail, TypeOK
<1>10. ASSUME NEW p \in Processes, Die(p) PROVE TypeOK'
  BY <1>10 DEF Die, TypeOK
<1>11. CASE UNCHANGED vars
  BY <1>11 DEF vars, TypeOK
<1> QED BY <1>1, <1>2, <1>3, <1>4, <1>5, <1>6, <1>7, <1>8, <1>9, <1>10, <1>11 DEF Next, Step

LEMMA RootStepIInv == RootIInv /\ [Next]_vars => RootIInv'
<1> SUFFICES ASSUME RootIInv, [Next]_vars PROVE RootIInv'
  OBVIOUS
<1>0. TypeOK'
  BY RootStepTypeOK
<1> USE <1>0, RuntimeRootAssumption DEF RootIInv, TypeOK, LockHeld, Progress, MarkerTrue, MarkedFirst
<1>1. ASSUME NEW t \in Threads, Enter(t) \/ Pass(t) PROVE RootIInv'
  BY <1>1 DEF Enter, Pass, Complete
<1>2. ASSUME NEW p \in Processes, TakeLock(p) PROVE RootIInv'
  BY <1>2 DEF TakeLock, Complete
<1>3. ASSUME NEW p \in Processes, CheckMarker(p) PROVE RootIInv'
  BY <1>3 DEF CheckMarker, Complete, Entries
<1>4. ASSUME NEW p \in Processes, OpenEntry(p) PROVE RootIInv'
  <2> USE <1>4 DEF OpenEntry
  <2>1. ~marker /\ \A q \in Processes : q # p => runner[q] \in {"none", "lock"}
    OBVIOUS
  <2>2. LockHeld' /\ MarkerTrue' /\ MarkedFirst'
    BY <2>1
  <2>3. Progress'
    BY <2>1 DEF Entries
  <2> QED BY <2>2, <2>3
<1>5. ASSUME NEW p \in Processes, CloseEntry(p) PROVE RootIInv'
  <2> USE <1>5 DEF CloseEntry
  <2>1. ~marker /\ \A q \in Processes : q # p => runner[q] \in {"none", "lock"}
    OBVIOUS
  <2>2. LockHeld' /\ MarkerTrue' /\ MarkedFirst'
    BY <2>1
  <2>3. Progress'
    <3>1. \A i \in Entries : i <= next[p] => file'[i] = "whole"
      BY DEF Entries
    <3> QED BY <2>1, <3>1 DEF Entries, Complete
  <2> QED BY <2>2, <2>3
<1>6. ASSUME NEW p \in Processes, CreateMarker(p) PROVE RootIInv'
  BY <1>6 DEF CreateMarker, Complete
<1>7. ASSUME NEW p \in Processes, Finish(p) PROVE RootIInv'
  BY <1>7 DEF Finish, Complete
<1>8. ASSUME NEW p \in Processes, Fail(p) PROVE RootIInv'
  BY <1>8 DEF Fail, Complete
<1>9. ASSUME NEW p \in Processes, Die(p) PROVE RootIInv'
  BY <1>9 DEF Die, Complete
<1>10. CASE UNCHANGED vars
  BY <1>10 DEF vars, Complete
<1> QED BY <1>1, <1>2, <1>3, <1>4, <1>5, <1>6, <1>7, <1>8, <1>9, <1>10 DEF Next, Step

\* The lock, the marker and the files agree: the invariant the rest follows from.
THEOREM RootInvariant == Spec => []RootIInv
<1>1. Init => RootIInv
  BY RootInitIInv
<1>2. RootIInv /\ [Next]_vars => RootIInv'
  BY RootStepIInv
<1> QED BY <1>1, <1>2, PTL DEF Spec

\* Whoever got through EnsureTtMetalRuntimeReady has complete files.
THEOREM CompleteWhenReady == Spec => []ReadyMeansComplete
<1>1. RootIInv => ReadyMeansComplete
  BY DEF RootIInv, MarkerTrue, MarkedFirst, ReadyMeansComplete
<1> QED BY <1>1, RootInvariant, PTL

\* At most one process is extracting.
THEOREM ExclusiveExtraction == Spec => []OneExtracts
<1>1. RootIInv => OneExtracts
  BY DEF RootIInv, LockHeld, OneExtracts
<1> QED BY <1>1, RootInvariant, PTL

\* No step writes a file once the marker is there.
THEOREM FinalOnceMarked == Spec => MarkedIsFinal
<1>1. RootIInv /\ [Next]_vars => [marker => marker' /\ file' = file]_vars
  BY DEF RootIInv, MarkerTrue, Next, Step, vars, Enter, Pass, TakeLock, CheckMarker, OpenEntry,
         CloseEntry, CreateMarker, Finish, Fail, Die
<1> QED BY <1>1, RootInvariant, PTL DEF Spec, MarkedIsFinal

-----------------------------------------------------------------------------
(* The clients of a process and the instance they share.                     *)

Initializing == {"initialize", "initialized"}

\* From the decision to construct or to destroy an instance to its end a thread
\* holds the mutex, and so does the exit handler that closes the device.
MutexHeld ==
  /\ \A t \in Callers : pc[t] \in Initializing \cup {"reset"} => m_mutex = t
  /\ exit = "closing" => m_mutex = "exit"

\* A client is in one call; while it is made or destroyed, the framework has no handle on it.
OneCallEach ==
  /\ \A t, u \in Callers : pc[t] # "idle" /\ pc[u] # "idle" /\ client[t] = client[u] => t = u
  /\ \A t \in Callers : pc[t] # "idle" => (handle[client[t]] # 0 <=> pc[t] = "use")

\* The clients that have a reference to the instance.
Held ==
  {c \in Clients : handle[c] # 0 \/ \E t \in Callers : client[t] = c /\ pc[t] \in {"get", "destroy"}}
RefCountIsRight == m_ref_count = Cardinality(Held)

\* References are to an instance; an instance nobody has a reference to is on its way out.
InstanceIsHeld ==
  /\ Held # {} => m_client_instance # 0
  /\ \A t \in Callers : pc[t] = "reset" => m_client_instance # 0 /\ Held = {}
  /\ \A t \in Callers : pc[t] \in Initializing => m_client_instance = 0 /\ pointer[t] # 0

\* The pointers are to the instance.
PointersAreToIt ==
  /\ \A c \in Clients : handle[c] # 0 => handle[c] = m_client_instance
  /\ \A t \in Callers : pc[t] = "use" => pointer[t] = m_client_instance

\* Devices are open for the instance or for the one that will be it.
OpenedForInstance ==
  \A i \in opened : \/ i = m_client_instance
                    \/ \E t \in Callers : pc[t] = "initialized" /\ pointer[t] = i

\* Nothing starts once the process exits.
NothingStartsAtExit == exit # "no" => \A t \in Callers : pc[t] \in {"idle", "destroy", "reset"}

\* closeDeviceAtExit is registered after tt-metal's handler, and thus runs before it.
HandlersInOrder ==
  /\ handlers \in {<< >>, <<"metal">>, <<"metal", "close">>}
  /\ exit = "no" /\ m_client_instance # 0 => handlers = <<"metal", "close">>
  /\ \A t \in Callers : pc[t] = "initialized" => handlers # << >>
  /\ exit = "running" /\ handlers # <<"metal", "close">> => opened = {}
  /\ exit = "closing" => handlers = <<"metal">>
  /\ metal = "down" => exit = "running" /\ handlers = << >>

ClientsIInv ==
  /\ ClientsTypeOK /\ MutexHeld /\ OneCallEach /\ RefCountIsRight /\ InstanceIsHeld /\ PointersAreToIt
  /\ OpenedForInstance /\ NothingStartsAtExit /\ HandlersInOrder

LEMMA ClientsInitIInv == ClientsAssumption /\ ClientsInit => ClientsIInv
<1> SUFFICES ASSUME ClientsAssumption, ClientsInit PROVE ClientsIInv
  OBVIOUS
<1> USE DEF ClientsInit, ClientsAssumption, Instances, Initializing
<1>1. ClientsTypeOK
  BY DEF ClientsTypeOK
<1>2. MutexHeld /\ OneCallEach /\ PointersAreToIt /\ OpenedForInstance /\ NothingStartsAtExit /\ HandlersInOrder
  BY DEF MutexHeld, OneCallEach, PointersAreToIt, OpenedForInstance, NothingStartsAtExit, HandlersInOrder
<1>3. Held = {}
  BY DEF Held
<1>4. InstanceIsHeld /\ RefCountIsRight
  BY <1>3, FS_EmptySet DEF InstanceIsHeld, RefCountIsRight
<1> QED BY <1>1, <1>2, <1>4 DEF ClientsIInv

-----------------------------------------------------------------------------
(* The references.                                                          *)

LEMMA HeldIsFinite == ClientsAssumption => IsFiniteSet(Held) /\ Cardinality(Held) \in Nat
<1> SUFFICES ASSUME ClientsAssumption PROVE IsFiniteSet(Held) /\ Cardinality(Held) \in Nat
  OBVIOUS
<1>1. Held \in SUBSET Clients
  BY DEF Held
<1>2. IsFiniteSet(Held)
  BY <1>1, FS_Subset DEF ClientsAssumption
<1> QED BY <1>2, FS_CardinalityType

\* A client gets its reference.
LEMMA HeldAdds ==
  ASSUME ClientsAssumption, RefCountIsRight, NEW c, c \notin Held, Held' = Held \cup {c},
         m_ref_count' = m_ref_count + 1
  PROVE  RefCountIsRight'
BY HeldIsFinite, FS_AddElement DEF RefCountIsRight

\* A client gives its reference back.
LEMMA HeldRemoves ==
  ASSUME ClientsAssumption, RefCountIsRight, NEW c, c \in Held, Held' = Held \ {c},
         m_ref_count' = m_ref_count - 1
  PROVE  RefCountIsRight' /\ m_ref_count' \in Nat /\ (m_ref_count = 1 => Held' = {})
<1>1. RefCountIsRight'
  BY HeldIsFinite, FS_RemoveElement DEF RefCountIsRight
<1>2. Cardinality(Held) # 0
  BY HeldIsFinite, FS_EmptySet
<1>3. m_ref_count' \in Nat
  BY <1>2, HeldIsFinite DEF RefCountIsRight
<1>4. ASSUME m_ref_count = 1 PROVE Held' = {}
  <2>1. IsFiniteSet(Held) /\ Cardinality(Held) = 1
    BY <1>4, HeldIsFinite DEF RefCountIsRight
  <2>2. PICK d : Held = {d}
    BY <2>1, FS_Singleton
  <2> QED BY <2>2
<1> QED BY <1>1, <1>3, <1>4

-----------------------------------------------------------------------------
(* The exit handlers.                                                       *)

LEMMA Registering ==
  ASSUME handlers \in {<< >>, <<"metal">>, <<"metal", "close">>}
  PROVE  /\ Register("metal") => handlers' \in {<<"metal">>, <<"metal", "close">>}
         /\ handlers # << >> /\ Register("close") => handlers' = <<"metal", "close">>
<1>1. CASE handlers = << >>
  BY <1>1 DEF Register, Registered
<1>2. CASE handlers = <<"metal">>
  <2>1. Registered("metal") /\ ~Registered("close")
    BY <1>2 DEF Registered
  <2> QED BY <1>2, <2>1 DEF Register
<1>3. CASE handlers = <<"metal", "close">>
  <2>1. Registered("metal") /\ Registered("close")
    BY <1>3 DEF Registered
  <2> QED BY <1>3, <2>1 DEF Register
<1> QED BY <1>1, <1>2, <1>3

LEMMA Popping ==
  ASSUME handlers \in {<< >>, <<"metal">>, <<"metal", "close">>}, PopHandler
  PROVE  /\ LastHandler("close") => handlers = <<"metal", "close">> /\ handlers' = <<"metal">>
         /\ LastHandler("metal") => handlers = <<"metal">> /\ handlers' = << >>
<1>1. CASE handlers = << >>
  BY <1>1 DEF LastHandler
<1>2. CASE handlers = <<"metal">>
  <2>1. Len(handlers) = 1 /\ handlers[1] = "metal" /\ SubSeq(handlers, 1, 0) = << >>
    BY <1>2
  <2> QED BY <1>2, <2>1 DEF PopHandler, LastHandler
<1>3. CASE handlers = <<"metal", "close">>
  <2>1. Len(handlers) = 2 /\ handlers[2] = "close"
    BY <1>3
  <2>2. SubSeq(handlers, 1, 1) = <<"metal">>
    <3> DEFINE s == SubSeq(handlers, 1, 1)
               r == <<"metal">>
               S == {"metal", "close"}
    <3>1. s \in Seq(S) /\ Len(s) = 1 /\ s[1] = "metal"
      BY <1>3, SubSeqProperties
    <3>2. r \in Seq(S) /\ Len(r) = 1 /\ r[1] = "metal"
      OBVIOUS
    <3> HIDE DEF s, r, S
    <3>3. s = r
      <4>1. Len(s) = Len(r) /\ \A i \in 1 .. Len(s) : s[i] = r[i]
        BY <3>1, <3>2
      <4> QED BY <3>1, <3>2, <4>1, SeqEqual, Zenon
    <3> QED BY <3>3 DEF s, r
  <2> QED BY <1>3, <2>1, <2>2 DEF PopHandler, LastHandler
<1> QED BY <1>1, <1>2, <1>3

LEMMA Handlers ==
  /\ {<< >>, <<"metal">>, <<"metal", "close">>} \subseteq Seq({"metal", "close"})
  /\ << >> # <<"metal">> /\ << >> # <<"metal", "close">> /\ <<"metal">> # <<"metal", "close">>
<1>1. << >> \in Seq({"metal", "close"}) /\ <<"metal">> \in Seq({"metal", "close"})
  OBVIOUS
<1>2. <<"metal", "close">> \in Seq({"metal", "close"})
  OBVIOUS
<1>3. Len(<< >>) = 0 /\ Len(<<"metal">>) = 1 /\ Len(<<"metal", "close">>) = 2
  OBVIOUS
<1> QED BY <1>1, <1>2, <1>3

-----------------------------------------------------------------------------
LEMMA ClientsStepIInv == ClientsAssumption /\ ClientsIInv /\ [ClientsNext]_clientVars => ClientsIInv'
<1> SUFFICES ASSUME ClientsAssumption, ClientsIInv, [ClientsNext]_clientVars PROVE ClientsIInv'
  OBVIOUS
<1> USE DEF ClientsIInv, Initializing, Goto, Instances
<1> USE DEF ClientsTypeOK, MutexHeld, OneCallEach, InstanceIsHeld, PointersAreToIt, OpenedForInstance,
            NothingStartsAtExit, HandlersInOrder
<1>0. Callers \cap {"free", "exit"} = {} /\ MaxInstances \in Nat
  BY DEF ClientsAssumption
<1>1. ASSUME NEW t \in Callers, NEW c \in Clients, CallCreate(t, c) PROVE ClientsIInv'
  <2> USE <1>1 DEF CallCreate, Busy
  <2>1. Held' = Held BY DEF Held
  <2>2. RefCountIsRight' BY <2>1 DEF RefCountIsRight
  <2>3. ClientsTypeOK' /\ MutexHeld' /\ OneCallEach' OBVIOUS
  <2>4. InstanceIsHeld' /\ PointersAreToIt' BY <2>1
  <2>5. OpenedForInstance' /\ NothingStartsAtExit' /\ HandlersInOrder' OBVIOUS
  <2> QED BY <2>2, <2>3, <2>4, <2>5
<1>2. ASSUME NEW t \in Callers, ShareInstance(t) PROVE ClientsIInv'
  <2> USE <1>0, <1>2 DEF ShareInstance
  <2>1. Held' = Held \cup {client[t]} /\ client[t] \notin Held BY DEF Held
  <2>2. RefCountIsRight' BY <2>1, HeldAdds
  <2>3. ClientsTypeOK' /\ MutexHeld' /\ OneCallEach' OBVIOUS
  <2>4. InstanceIsHeld' /\ PointersAreToIt' BY <2>1
  <2>5. OpenedForInstance' /\ NothingStartsAtExit' /\ HandlersInOrder' OBVIOUS
  <2> QED BY <2>2, <2>3, <2>4, <2>5
<1>3. ASSUME NEW t \in Callers, ConstructInstance(t) PROVE ClientsIInv'
  <2> USE <1>0, <1>3 DEF ConstructInstance
  <2>1. Held' = Held BY DEF Held
  <2>2. RefCountIsRight' BY <2>1 DEF RefCountIsRight
  <2>3. ClientsTypeOK' /\ MutexHeld' /\ OneCallEach' OBVIOUS
  <2>4. InstanceIsHeld' /\ PointersAreToIt' BY <2>1
  <2>5. OpenedForInstance' /\ NothingStartsAtExit' /\ HandlersInOrder' OBVIOUS
  <2> QED BY <2>2, <2>3, <2>4, <2>5
<1>4. ASSUME NEW t \in Callers, OpenDevice(t) PROVE ClientsIInv'
  <2> USE <1>0, <1>4 DEF OpenDevice
  <2>1. Held' = Held BY DEF Held
  <2>2. RefCountIsRight' BY <2>1 DEF RefCountIsRight
  <2>3. handlers' \in {<<"metal">>, <<"metal", "close">>} BY Registering
  <2>4. exit = "no" OBVIOUS
  <2>5. handlers' \in Seq({"metal", "close"}) BY <2>3, Handlers, Zenon
  <2>6. ClientsTypeOK' /\ MutexHeld' /\ OneCallEach'
    <3>1. ClientsTypeOK'
      <4>1. pointer[t] \in Instances \ {0} BY Zenon
      <4>2. opened' \subseteq Instances \ {0} BY <4>1
      <4> QED BY <2>5, <4>2
    <3>2. MutexHeld' OBVIOUS
    <3>3. OneCallEach' OBVIOUS
    <3> QED BY <3>1, <3>2, <3>3
  <2>7. InstanceIsHeld' /\ PointersAreToIt' BY <2>1
  <2>8. OpenedForInstance' /\ NothingStartsAtExit' OBVIOUS
  <2>9. HandlersInOrder'
    <3>1. handlers' # << >>
      BY <2>3, Handlers
    <3>2. exit' = "no" /\ metal' = "up" /\ m_client_instance' = 0
      BY <2>4
    <3> QED BY <2>3, <3>1, <3>2
  <2> QED BY <2>2, <2>6, <2>7, <2>8, <2>9
<1>5. ASSUME NEW t \in Callers, InitializeFails(t) PROVE ClientsIInv'
  <2> USE <1>0, <1>5 DEF InitializeFails
  <2>1. Held' = Held BY DEF Held
  <2>2. RefCountIsRight' BY <2>1 DEF RefCountIsRight
  <2>3. ClientsTypeOK' /\ MutexHeld' /\ OneCallEach'
    <3>1. ClientsTypeOK'
      <4>1. opened' \subseteq Instances \ {0} OBVIOUS
      <4>2. pointer' \in [Callers -> Instances] OBVIOUS
      <4>3. pc' \in [Callers -> {"idle", "init", "initialize", "initialized", "get", "destroy", "reset", "use"}]
        OBVIOUS
      <4> HIDE DEF Instances
      <4> QED BY <4>1, <4>2, <4>3
    <3>2. MutexHeld' OBVIOUS
    <3>3. OneCallEach' OBVIOUS
    <3> QED BY <3>1, <3>2, <3>3
  <2>4. InstanceIsHeld' /\ PointersAreToIt' BY <2>1
  <2>5. OpenedForInstance' /\ NothingStartsAtExit' /\ HandlersInOrder' OBVIOUS
  <2> QED BY <2>2, <2>3, <2>4, <2>5
<1>6. ASSUME NEW t \in Callers, PublishInstance(t) PROVE ClientsIInv'
  <2> USE <1>0, <1>6 DEF PublishInstance
  <2>1. Held = {} /\ Held' = {client[t]} BY DEF Held
  <2>2. RefCountIsRight' BY <2>1, FS_Singleton DEF RefCountIsRight
  <2>3. handlers' = <<"metal", "close">> BY Registering
  <2>4. exit = "no" OBVIOUS
  <2>5. handlers' \in Seq({"metal", "close"}) BY <2>3, Handlers, Zenon
  <2>6. ClientsTypeOK' /\ MutexHeld' /\ OneCallEach' BY <2>5
  <2>7. InstanceIsHeld' /\ PointersAreToIt' BY <2>1 DEF Held
  <2>8. OpenedForInstance' /\ NothingStartsAtExit' OBVIOUS
  <2>9. HandlersInOrder' BY <2>3, <2>4
  <2> QED BY <2>2, <2>6, <2>7, <2>8, <2>9
<1>7. ASSUME NEW t \in Callers, TakeHandle(t) PROVE ClientsIInv'
  <2> USE <1>0, <1>7 DEF TakeHandle
  <2>1. client[t] \in Held BY DEF Held
  <2>2. Held' = Held BY <2>1 DEF Held
  <2>3. RefCountIsRight' BY <2>2 DEF RefCountIsRight
  <2>4. ClientsTypeOK' /\ MutexHeld' /\ OneCallEach' BY <2>1
  <2>5. InstanceIsHeld' /\ PointersAreToIt' BY <2>1, <2>2
  <2>6. OpenedForInstance' /\ NothingStartsAtExit' /\ HandlersInOrder' OBVIOUS
  <2> QED BY <2>3, <2>4, <2>5, <2>6
<1>8. ASSUME NEW t \in Callers, NEW c \in Clients, CallDestroy(t, c) PROVE ClientsIInv'
  <2> USE <1>0, <1>8 DEF CallDestroy, Busy
  <2>1. Held' = Held BY DEF Held
  <2>2. RefCountIsRight' BY <2>1 DEF RefCountIsRight
  <2>3. ClientsTypeOK' /\ MutexHeld' /\ OneCallEach' OBVIOUS
  <2>4. InstanceIsHeld' /\ PointersAreToIt' BY <2>1
  <2>5. OpenedForInstance' /\ NothingStartsAtExit' /\ HandlersInOrder' OBVIOUS
  <2> QED BY <2>2, <2>3, <2>4, <2>5
<1>9. ASSUME NEW t \in Callers, DropReference(t) PROVE ClientsIInv'
  <2> USE <1>0, <1>9 DEF DropReference
  <2>1. client[t] \in Held /\ m_client_instance # 0 BY DEF Held
  <2>2. Held' = Held \ {client[t]} BY <2>1 DEF Held
  <2>3. RefCountIsRight' /\ m_ref_count' \in Nat BY <2>1, <2>2, HeldRemoves
  <2>4. ClientsTypeOK' /\ MutexHeld' /\ OneCallEach' BY <2>3
  <2>5. InstanceIsHeld' /\ PointersAreToIt' BY <2>1, <2>2
  <2>6. OpenedForInstance' /\ NothingStartsAtExit' /\ HandlersInOrder' OBVIOUS
  <2> QED BY <2>3, <2>4, <2>5, <2>6
<1>10. ASSUME NEW t \in Callers, DropLastReference(t) PROVE ClientsIInv'
  <2> USE <1>0, <1>10 DEF DropLastReference
  <2>1. client[t] \in Held BY DEF Held
  <2>2. Held' = Held \ {client[t]} BY <2>1 DEF Held
  <2>3. RefCountIsRight' /\ Held' = {} BY <2>1, <2>2, HeldRemoves
  <2>4. ClientsTypeOK' /\ MutexHeld' /\ OneCallEach' OBVIOUS
  <2>5. InstanceIsHeld' /\ PointersAreToIt' BY <2>1, <2>3
  <2>6. OpenedForInstance' /\ NothingStartsAtExit' /\ HandlersInOrder' OBVIOUS
  <2> QED BY <2>3, <2>4, <2>5, <2>6
<1>11. ASSUME NEW t \in Callers, ResetInstance(t) PROVE ClientsIInv'
  <2> USE <1>0, <1>11 DEF ResetInstance
  <2>1. Held = {} /\ Held' = {} BY DEF Held
  <2>2. RefCountIsRight' BY <2>1 DEF RefCountIsRight
  <2>3. /\ \A c \in Clients : handle[c] = 0
        /\ \A u \in Callers : pc[u] # "use" /\ pc[u] \notin Initializing
    BY <2>1 DEF Held
  <2>4. opened' = {} BY <2>3
  <2>5. ClientsTypeOK' /\ MutexHeld' /\ OneCallEach' OBVIOUS
  <2>6. InstanceIsHeld' /\ PointersAreToIt' BY <2>1, <2>3
  <2>7. OpenedForInstance' /\ NothingStartsAtExit' /\ HandlersInOrder' BY <2>3, <2>4
  <2> QED BY <2>2, <2>5, <2>6, <2>7
<1>12. ASSUME NEW t \in Callers, NEW c \in Clients, GetClientInstance(t, c) PROVE ClientsIInv'
  <2> USE <1>0, <1>12 DEF GetClientInstance, Busy
  <2>1. Held' = Held BY DEF Held
  <2>2. RefCountIsRight' BY <2>1 DEF RefCountIsRight
  <2>3. ClientsTypeOK' /\ MutexHeld' /\ OneCallEach' OBVIOUS
  <2>4. InstanceIsHeld' /\ PointersAreToIt' BY <2>1
  <2>5. OpenedForInstance' /\ NothingStartsAtExit' /\ HandlersInOrder' OBVIOUS
  <2> QED BY <2>2, <2>3, <2>4, <2>5
<1>13. ASSUME NEW t \in Callers, UseInstance(t) PROVE ClientsIInv'
  <2> USE <1>0, <1>13 DEF UseInstance
  <2>1. Held' = Held BY DEF Held
  <2>2. RefCountIsRight' BY <2>1 DEF RefCountIsRight
  <2>3. ClientsTypeOK' /\ MutexHeld' /\ OneCallEach' OBVIOUS
  <2>4. InstanceIsHeld' /\ PointersAreToIt' BY <2>1
  <2>5. OpenedForInstance' /\ NothingStartsAtExit' /\ HandlersInOrder' OBVIOUS
  <2> QED BY <2>2, <2>3, <2>4, <2>5
<1>14. ASSUME BeginExit \/ StartCloseAtExit \/ CloseDeviceAtExit \/ TearDownMetal PROVE ClientsIInv'
  <2> USE <1>0
  <2>1. Held' = Held
    BY <1>14 DEF BeginExit, StartCloseAtExit, CloseDeviceAtExit, TearDownMetal, Held
  <2>2. RefCountIsRight'
    BY <1>14, <2>1 DEF BeginExit, StartCloseAtExit, CloseDeviceAtExit, TearDownMetal, RefCountIsRight
  <2>3. CASE BeginExit
    <3> USE <2>3 DEF BeginExit
    <3>1. handlers # <<"metal", "close">> => opened = {} OBVIOUS
    <3>2. ClientsTypeOK' /\ MutexHeld' /\ OneCallEach' OBVIOUS
    <3>3. InstanceIsHeld' /\ PointersAreToIt' BY <2>1
    <3>4. OpenedForInstance' /\ NothingStartsAtExit' /\ HandlersInOrder' BY <3>1
    <3> QED BY <2>2, <3>2, <3>3, <3>4
  <2>4. CASE StartCloseAtExit
    <3> USE <2>4 DEF StartCloseAtExit
    <3>1. handlers' = <<"metal">> /\ exit = "running" BY Popping DEF LastHandler
    <3>2. handlers' \in Seq({"metal", "close"}) BY <3>1, Handlers, Zenon
    <3>3. m_client_instance = 0 => opened = {} BY <3>1
    <3>4. ClientsTypeOK' /\ MutexHeld' /\ OneCallEach' BY <3>1, <3>2
    <3>5. InstanceIsHeld' /\ PointersAreToIt' BY <2>1
    <3>6. OpenedForInstance' /\ NothingStartsAtExit' BY <3>1
    <3>7. HandlersInOrder'
      <4>0. handlers = <<"metal", "close">> BY Popping
      <4>1. metal' # "down" /\ \A u \in Callers : pc'[u] # "initialized"
        BY <3>1, <4>0, Handlers
      <4>2. exit' = "running" => opened' = {}
        BY <3>3
      <4> QED BY <3>1, <4>1, <4>2, Handlers
    <3> QED BY <2>2, <3>4, <3>5, <3>6, <3>7
  <2>5. CASE CloseDeviceAtExit
    <3> USE <2>5 DEF CloseDeviceAtExit
    <3>1. opened' = {} OBVIOUS
    <3>2. ClientsTypeOK' /\ MutexHeld' /\ OneCallEach' BY <3>1
    <3>3. InstanceIsHeld' /\ PointersAreToIt' BY <2>1
    <3>4. OpenedForInstance' /\ NothingStartsAtExit' /\ HandlersInOrder' BY <3>1
    <3> QED BY <2>2, <3>2, <3>3, <3>4
  <2>6. CASE TearDownMetal
    <3> USE <2>6 DEF TearDownMetal
    <3>1. handlers = <<"metal">> /\ handlers' = << >> /\ exit = "running" BY Popping DEF LastHandler
    <3>2. handlers' \in Seq({"metal", "close"}) BY <3>1, Handlers, Zenon
    <3>3. ClientsTypeOK' /\ MutexHeld' /\ OneCallEach' BY <3>2
    <3>4. InstanceIsHeld' /\ PointersAreToIt' BY <2>1
    <3>5. OpenedForInstance' /\ NothingStartsAtExit' OBVIOUS
    <3>6. HandlersInOrder' BY <3>1
    <3> QED BY <2>2, <3>3, <3>4, <3>5, <3>6
  <2> QED BY <1>14, <2>3, <2>4, <2>5, <2>6
<1>15. CASE UNCHANGED clientVars
  <2>1. Held' = Held
    BY <1>15 DEF clientVars, Held
  <2> QED BY <1>15, <2>1 DEF clientVars, RefCountIsRight
<1> HIDE DEF ClientsIInv
<1> QED BY <1>1, <1>2, <1>3, <1>4, <1>5, <1>6, <1>7, <1>8, <1>9, <1>10, <1>11, <1>12, <1>13, <1>14, <1>15
        DEF ClientsNext, InitStep, DestroyStep, ExitStep

\* The mutex, the references, the instance and the handlers agree: the invariant the
\* rest follows from.
THEOREM ClientsInvariant == ClientsSpec => []ClientsIInv
<1>1. ClientsInit => ClientsIInv
  BY ClientsInitIInv, ClientsAssumption
<1>2. ClientsIInv /\ [ClientsNext]_clientVars => ClientsIInv'
  BY ClientsStepIInv, ClientsAssumption
<1> QED BY <1>1, <1>2, PTL DEF ClientsSpec

\* The state has its type; the reference count never goes below zero.
THEOREM ClientsTypeCorrect == ClientsSpec => []ClientsTypeOK
<1>1. ClientsIInv => ClientsTypeOK
  BY DEF ClientsIInv
<1> QED BY <1>1, ClientsInvariant, PTL

\* Clients, and calls on their behalf, have the one instance there is, and no other
\* instance has the device open.
THEOREM ClientsShareTheInstance == ClientsSpec => []ClientsHaveTheInstance
<1>1. ClientsIInv => ClientsHaveTheInstance
  <2> SUFFICES ASSUME ClientsIInv PROVE ClientsHaveTheInstance
    OBVIOUS
  <2> USE DEF ClientsIInv, ClientsTypeOK
  <2>1. ASSUME NEW t \in Callers, pc[t] \in {"use", "get"} PROVE m_client_instance # 0
    <3>1. client[t] \in Held
      BY <2>1 DEF OneCallEach, Held
    <3> QED BY <3>1 DEF InstanceIsHeld
  <2>2. \A i, j \in opened : i = j
    BY DEF OpenedForInstance, InstanceIsHeld, MutexHeld, Initializing, Instances
  <2> QED BY <2>1, <2>2 DEF ClientsHaveTheInstance, PointersAreToIt
<1> QED BY <1>1, ClientsInvariant, PTL

\* No device is open when tt-metal tears its context down, nor ever after.
THEOREM ClosedByThen == ClientsSpec => []ClosedBeforeTearDown
<1>1. ClientsIInv => ClosedBeforeTearDown
  BY DEF ClientsIInv, HandlersInOrder, ClosedBeforeTearDown
<1> QED BY <1>1, ClientsInvariant, PTL
=============================================================================
