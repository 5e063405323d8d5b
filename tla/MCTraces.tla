------------------------------ MODULE MCTraces -------------------------------
(***************************************************************************)
(* Traces: their memory (TraceMemory), and cases inside one (TraceCase).   *)
(* Four addresses in ranges of one or two, three buffers, two traces;      *)
(* captures of two programs, of which one writes an index.                 *)
(***************************************************************************)
EXTENDS TraceMemory

CONSTANTS Programs, Indices, MaxValue, MaxCapture, MaxEager, ChunkSize, QueueSize, CacheSlots, NoProgram

VARIABLES system, stage, nodes, trace, described, given, issued,
          index, fetch, stalled, ring, queue, messages, launched, completed, running, ran

MCRegions == {{a} : a \in Addrs} \cup {{a, a + 1} : a \in {a \in Addrs : a + 1 \in Addrs}}
MCWritten == [p \in Programs |-> [buffer |-> p - 1, value |-> 1]]

C == INSTANCE TraceCase WITH Buffers <- Indices, Written <- MCWritten

OfCases == <<stage, nodes, trace, described, given, issued, index, fetch, stalled,
             ring, queue, messages, launched, completed, running, ran>>

NoCase ==
  /\ stage = "none" /\ nodes = <<>> /\ trace = <<>> /\ described = 0 /\ given = <<>> /\ issued = 0
  /\ index = <<>> /\ fetch = <<>> /\ stalled = FALSE /\ ring = <<>> /\ queue = <<>> /\ messages = <<>>
  /\ launched = 0 /\ completed = 0 /\ running = <<>> /\ ran = <<>>

TracesInit == Init /\ (\/ system = "memory" /\ NoCase
                       \/ system = "case" /\ C!Init)
TracesNext ==
  \/ system = "memory" /\ Next /\ UNCHANGED <<system, OfCases>>
  \/ system = "case" /\ C!Next /\ UNCHANGED <<system, vars>>
TracesSpec == TracesInit /\ [][TracesNext]_<<system, vars, OfCases>>

\* TraceCase's RunsTheChosenBranches.
RunsTheChosenBranches == system = "case" => C!RunsTheChosenBranches
=============================================================================
