--------------------------- MODULE ClientLifecycle ---------------------------
(***************************************************************************)
(* The process-wide client instance behind every PJRT client               *)
(* (GlobalClientInstanceSingleton): initClient, destroyClient,             *)
(* getClientInstance and the exit handler closeDeviceAtExit.  Frameworks   *)
(* create and destroy clients on any thread; all clients share one         *)
(* instance, which owns the device; tt-metal tears its context down in an  *)
(* exit handler of its own, registered when a device is first opened.      *)
(***************************************************************************)
EXTENDS Integers, Sequences, FiniteSets

CONSTANTS
  Callers,        \* threads of the framework
  Clients,        \* PJRT clients the framework may have at once
  MaxInstances    \* bound on the ClientInstance objects constructed

\* Threads are none of the other values of m_mutex.
ASSUME ClientsAssumption ==
  /\ Callers \cap {"free", "exit"} = {}
  /\ IsFiniteSet(Clients) /\ Clients # {}
  /\ MaxInstances \in Nat

VARIABLES
  m_mutex,            \* who holds the singleton's mutex
  m_client_instance,  \* the instance, 0 for the null pointer
  m_ref_count,
  made,               \* how many instances have been constructed
  opened,             \* the instances whose device is open
  pc, client,         \* what each thread does, and for which client
  pointer,            \* the pointer a thread got from getClientInstance
  handle,             \* handle[c]: the instance client c stands for, 0 if c is not there
  handlers,           \* the registered exit handlers, the last one runs first
  exit,               \* "no", "running" handlers, "closing" the device
  metal               \* tt-metal's context: "none", "up" or "down"

clientVars == <<m_mutex, m_client_instance, m_ref_count, made, opened, pc, client,
                pointer, handle, handlers, exit, metal>>

Instances == 0 .. MaxInstances

ClientsInit ==
  /\ m_mutex = "free"
  /\ m_client_instance = 0
  /\ m_ref_count = 0
  /\ made = 0
  /\ opened = {}
  /\ pc = [t \in Callers |-> "idle"]
  /\ client = [t \in Callers |-> CHOOSE c \in Clients : TRUE]
  /\ pointer = [t \in Callers |-> 0]
  /\ handle = [c \in Clients |-> 0]
  /\ handlers = << >>
  /\ exit = "no"
  /\ metal = "none"

Goto(t, label) == pc' = [pc EXCEPT ![t] = label]

\* A client is created, used and destroyed by one call at a time, as the PJRT API
\* asks of its callers.
Busy(c) == \E t \in Callers : pc[t] # "idle" /\ client[t] = c

Registered(h) == \E i \in DOMAIN handlers : handlers[i] = h

Register(h) == handlers' = IF Registered(h) THEN handlers ELSE Append(handlers, h)

-----------------------------------------------------------------------------
(* PJRT_Client_Create: initClient, then getClientInstance for the handle.    *)

\* A framework does not create clients once its process exits.
CallCreate(t, c) ==
  /\ pc[t] = "idle" /\ handle[c] = 0 /\ ~Busy(c)
  /\ exit = "no"
  /\ client' = [client EXCEPT ![t] = c]
  /\ Goto(t, "init")
  /\ UNCHANGED <<m_mutex, m_client_instance, m_ref_count, made, opened, pointer,
                 handle, handlers, exit, metal>>

ShareInstance(t) ==
  /\ pc[t] = "init" /\ m_mutex = "free" /\ m_client_instance # 0
  /\ m_ref_count' = m_ref_count + 1
  /\ Goto(t, "get")
  /\ UNCHANGED <<m_mutex, m_client_instance, made, opened, client, pointer,
                 handle, handlers, exit, metal>>

\* Mutant: the mutex guards the look at the instance, not its initialization.
ConstructInstanceUnlocked(t) ==
  /\ pc[t] = "init" /\ m_mutex = "free" /\ m_client_instance = 0
  /\ made < MaxInstances
  /\ made' = made + 1
  /\ pointer' = [pointer EXCEPT ![t] = made + 1]
  /\ Goto(t, "initialize")
  /\ UNCHANGED <<m_mutex, m_client_instance, m_ref_count, opened, client, handle,
                 handlers, exit, metal>>

\* The mutex stays held while the first client initializes.
ConstructInstance(t) ==
  /\ pc[t] = "init" /\ m_mutex = "free" /\ m_client_instance = 0
  /\ made < MaxInstances
  /\ m_mutex' = t
  /\ made' = made + 1
  /\ pointer' = [pointer EXCEPT ![t] = made + 1]
  /\ Goto(t, "initialize")
  /\ UNCHANGED <<m_client_instance, m_ref_count, opened, client, handle, handlers,
                 exit, metal>>

\* ClientInstance::initialize opens the device; tt-metal registers its handler
\* the first time.
OpenDevice(t) ==
  /\ pc[t] = "initialize"
  /\ opened' = opened \cup {pointer[t]}
  /\ metal' = "up"
  /\ Register("metal")
  /\ Goto(t, "initialized")
  /\ UNCHANGED <<m_mutex, m_client_instance, m_ref_count, made, client, pointer,
                 handle, exit>>

\* initialize returns an error: the unique_ptr destroys the instance, whose
\* destructor closes the device if it was opened.
InitializeFails(t) ==
  /\ pc[t] \in {"initialize", "initialized"}
  /\ opened' = opened \ {pointer[t]}
  /\ pointer' = [pointer EXCEPT ![t] = 0]
  /\ m_mutex' = "free"
  /\ Goto(t, "idle")
  /\ UNCHANGED <<m_client_instance, m_ref_count, made, client, handle, handlers,
                 exit, metal>>

\* Mutant: the exit handler is registered when the library is loaded, which is
\* before tt-metal registers its own.
PublishInstanceHandlerFirst(t) ==
  /\ pc[t] = "initialized"
  /\ m_client_instance' = pointer[t]
  /\ m_ref_count' = 1
  /\ handlers' = IF Registered("close") THEN handlers ELSE <<"close">> \o handlers
  /\ m_mutex' = "free"
  /\ pointer' = [pointer EXCEPT ![t] = 0]
  /\ Goto(t, "get")
  /\ UNCHANGED <<made, opened, client, handle, exit, metal>>

PublishInstance(t) ==
  /\ pc[t] = "initialized"
  /\ m_client_instance' = pointer[t]
  /\ m_ref_count' = 1
  /\ Register("close")
  /\ m_mutex' = "free"
  /\ pointer' = [pointer EXCEPT ![t] = 0]
  /\ Goto(t, "get")
  /\ UNCHANGED <<made, opened, client, handle, exit, metal>>

TakeHandle(t) ==
  /\ pc[t] = "get" /\ m_mutex = "free"
  /\ handle' = [handle EXCEPT ![client[t]] = m_client_instance]
  /\ Goto(t, "idle")
  /\ UNCHANGED <<m_mutex, m_client_instance, m_ref_count, made, opened, client,
                 pointer, handlers, exit, metal>>

-----------------------------------------------------------------------------
(* PJRT_Client_Destroy.                                                     *)

CallDestroy(t, c) ==
  /\ pc[t] = "idle" /\ handle[c] # 0 /\ ~Busy(c)
  /\ client' = [client EXCEPT ![t] = c]
  /\ handle' = [handle EXCEPT ![c] = 0]
  /\ Goto(t, "destroy")
  /\ UNCHANGED <<m_mutex, m_client_instance, m_ref_count, made, opened, pointer,
                 handlers, exit, metal>>

\* destroyClient, other clients left.
DropReference(t) ==
  /\ pc[t] = "destroy" /\ m_mutex = "free"
  /\ m_client_instance = 0 \/ m_ref_count # 1
  /\ m_ref_count' = IF m_client_instance = 0 THEN m_ref_count ELSE m_ref_count - 1
  /\ Goto(t, "idle")
  /\ UNCHANGED <<m_mutex, m_client_instance, made, opened, client, pointer, handle,
                 handlers, exit, metal>>

\* The last reference: m_client_instance.reset() follows, under the mutex.
DropLastReference(t) ==
  /\ pc[t] = "destroy" /\ m_mutex = "free"
  /\ m_client_instance # 0 /\ m_ref_count = 1
  /\ m_ref_count' = 0
  /\ m_mutex' = t
  /\ Goto(t, "reset")
  /\ UNCHANGED <<m_client_instance, made, opened, client, pointer, handle, handlers,
                 exit, metal>>

\* Mutant: the mutex is not released.
ResetInstanceLocked(t) ==
  /\ pc[t] = "reset"
  /\ opened' = opened \ {m_client_instance}
  /\ m_client_instance' = 0
  /\ Goto(t, "idle")
  /\ UNCHANGED <<m_mutex, m_ref_count, made, client, pointer, handle, handlers, exit,
                 metal>>

\* ~ClientInstance closes the device unless it is closed already.
ResetInstance(t) ==
  /\ pc[t] = "reset"
  /\ opened' = opened \ {m_client_instance}
  /\ m_client_instance' = 0
  /\ m_mutex' = "free"
  /\ Goto(t, "idle")
  /\ UNCHANGED <<m_ref_count, made, client, pointer, handle, handlers, exit, metal>>

-----------------------------------------------------------------------------
(* Calls that find the instance through getClientInstance (memory           *)
(* statistics, buffers from the host) use the pointer after unlocking.      *)

GetClientInstance(t, c) ==
  /\ pc[t] = "idle" /\ handle[c] # 0 /\ ~Busy(c)
  /\ exit = "no"
  /\ m_mutex = "free"
  /\ client' = [client EXCEPT ![t] = c]
  /\ pointer' = [pointer EXCEPT ![t] = m_client_instance]
  /\ Goto(t, "use")
  /\ UNCHANGED <<m_mutex, m_client_instance, m_ref_count, made, opened, handle,
                 handlers, exit, metal>>

UseInstance(t) ==
  /\ pc[t] = "use"
  /\ pointer' = [pointer EXCEPT ![t] = 0]
  /\ Goto(t, "idle")
  /\ UNCHANGED <<m_mutex, m_client_instance, m_ref_count, made, opened, client,
                 handle, handlers, exit, metal>>

-----------------------------------------------------------------------------
(* Exit.  Clients may still be there, and may still be destroyed, by static  *)
(* destructors and by threads that run on.                                   *)

BeginExit ==
  /\ exit = "no"
  /\ \A t \in Callers : pc[t] \in {"idle", "destroy", "reset"}
  /\ exit' = "running"
  /\ UNCHANGED <<m_mutex, m_client_instance, m_ref_count, made, opened, pc, client,
                 pointer, handle, handlers, metal>>

LastHandler(h) ==
  /\ exit = "running" /\ handlers # << >>
  /\ handlers[Len(handlers)] = h

PopHandler == handlers' = SubSeq(handlers, 1, Len(handlers) - 1)

\* closeDeviceAtExit takes the mutex; with an instance there it closes the device
\* on a thread of its own and joins it.
StartCloseAtExit ==
  /\ LastHandler("close") /\ m_mutex = "free"
  /\ PopHandler
  /\ IF m_client_instance = 0 THEN UNCHANGED <<m_mutex, exit>>
     ELSE m_mutex' = "exit" /\ exit' = "closing"
  /\ UNCHANGED <<m_client_instance, m_ref_count, made, opened, pc, client, pointer,
                 handle, metal>>

CloseDeviceAtExit ==
  /\ exit = "closing"
  /\ opened' = opened \ {m_client_instance}
  /\ m_mutex' = "free"
  /\ exit' = "running"
  /\ UNCHANGED <<m_client_instance, m_ref_count, made, pc, client, pointer, handle,
                 handlers, metal>>

TearDownMetal ==
  /\ LastHandler("metal")
  /\ PopHandler
  /\ metal' = "down"
  /\ UNCHANGED <<m_mutex, m_client_instance, m_ref_count, made, opened, pc, client,
                 pointer, handle, exit>>

-----------------------------------------------------------------------------
InitStep(t) ==
  \/ ShareInstance(t) \/ ConstructInstance(t) \/ OpenDevice(t)
  \/ InitializeFails(t) \/ PublishInstance(t) \/ TakeHandle(t)

DestroyStep(t) == DropReference(t) \/ DropLastReference(t) \/ ResetInstance(t)

ExitStep == StartCloseAtExit \/ CloseDeviceAtExit \/ TearDownMetal

ClientsNext ==
  \/ \E t \in Callers, c \in Clients :
       CallCreate(t, c) \/ CallDestroy(t, c) \/ GetClientInstance(t, c)
  \/ \E t \in Callers : InitStep(t) \/ DestroyStep(t) \/ UseInstance(t)
  \/ BeginExit
  \/ ExitStep

ClientsSpec == ClientsInit /\ [][ClientsNext]_clientVars

\* The threads and the handlers of a process that exits are scheduled.
ClientsFairSpec ==
  /\ ClientsSpec
  /\ WF_clientVars(ExitStep)
  /\ \A t \in Callers : WF_clientVars(DestroyStep(t))

-----------------------------------------------------------------------------
\* The state has its type.
ClientsTypeOK ==
  /\ m_mutex \in Callers \cup {"free", "exit"}
  /\ m_client_instance \in Instances /\ m_ref_count \in Nat /\ made \in Instances
  /\ opened \subseteq Instances \ {0}
  /\ pc \in [Callers -> {"idle", "init", "initialize", "initialized", "get", "destroy", "reset", "use"}]
  /\ client \in [Callers -> Clients]
  /\ pointer \in [Callers -> Instances]
  /\ handle \in [Clients -> Instances]
  /\ handlers \in Seq({"metal", "close"})
  /\ exit \in {"no", "running", "closing"}
  /\ metal \in {"none", "up", "down"}

\* Every client the framework holds stands for the instance of the singleton, and
\* a thread that got the pointer from getClientInstance on behalf of such a client
\* uses it before the last reference to the instance goes.  No other instance has the
\* device open beside it, whatever threads create, fail to create and destroy clients
\* at once ("so that a concurrent creator waits for it instead of opening the device
\* again").
ClientsHaveTheInstance ==
  /\ \A c \in Clients : handle[c] # 0 => handle[c] = m_client_instance
  /\ \A t \in Callers : pc[t] = "use" => pointer[t] = m_client_instance /\ pointer[t] # 0
  /\ \A t \in Callers : pc[t] = "get" => m_client_instance # 0
  /\ \A i, j \in opened : i = j

\* When tt-metal tears its context down, and ever after, no device is open: a
\* client still alive at exit has been closed, and destroying it later does not
\* reach for the context any more (closeDeviceAtExit runs before tt-metal's
\* handler although the instance is never destroyed).
ClosedBeforeTearDown == metal = "down" => opened = {}

\* A process that exits gets through its handlers: closing the device, which
\* waits for the mutex, does not wait for a thread that waits for the exit.
ExitCompletes == exit = "running" ~> handlers = << >>
=============================================================================
