---------------------------- MODULE MCProcesses -----------------------------
(* What processes share and what a process has once.  The runtime root: three *)
(* processes, one of them with two threads, and two archive entries.  The      *)
(* client instance of one process: two threads and three clients, so that a    *)
(* client is created while another is destroyed and a third keeps the          *)
(* instance; three instances, one of which may fail to initialize.  Each has   *)
(* behaviours of its own.                                                      *)
EXTENDS RuntimeRoot, ClientLifecycle, TLC

CONSTANTS p1, p2, p3, t1, u1, t2, t3, c1, c2, c3

VARIABLE part

MCProcessOf == (t1 :> p1) @@ (u1 :> p1) @@ (t2 :> p2) @@ (t3 :> p3)

all == <<part, vars, clientVars>>

ProcessesInit ==
  /\ ClientsInit
  /\ \/ part = "root" /\ Init
     \/ /\ part = "clients"
        /\ file = <<>> /\ marker = FALSE /\ lock = NoOne /\ once = <<>> /\ runner = <<>> /\ next = <<>>
        /\ thread = [t \in Threads |-> "dead"]

OfRootOnly(step) == part = "root" /\ step /\ UNCHANGED <<part, clientVars>>
OfClientsOnly(step) == part = "clients" /\ step /\ UNCHANGED <<part, vars>>

\* With the fairness of either part.
ProcessesSpec ==
  /\ ProcessesInit /\ [][OfRootOnly(Next) \/ OfClientsOnly(ClientsNext)]_all
  /\ \A t \in Threads : WF_all(OfRootOnly(Enter(t) \/ Pass(t)))
  /\ \A p \in Processes : WF_all(OfRootOnly(Step(p)))
  /\ WF_all(OfClientsOnly(ExitStep))
  /\ \A t \in Callers : WF_all(OfClientsOnly(DestroyStep(t)))
=============================================================================
