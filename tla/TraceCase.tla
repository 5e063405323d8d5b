------------------------------ MODULE TraceCase ------------------------------
(***************************************************************************)
(* Cases inside a trace (src/third_party/tt_metal/trace_case.patch): while *)
(* a trace is captured the queue records markers between workloads;        *)
(* record_end lays a case out as skips over branches; at a replay the      *)
(* prefetcher reads the index on the device and skips all branches but     *)
(* one.  Prefetcher, dispatcher and workers run concurrently.              *)
(***************************************************************************)
EXTENDS Integers, Sequences, FiniteSets, SequencesExt

CONSTANTS Programs,    \* what the workloads of a trace run
          Written,     \* what a program leaves in an index buffer: [buffer, value]
          Buffers,     \* index buffers; one that Written names but is not here: none
          MaxValue,    \* the indices are 0 .. MaxValue
          MaxCapture,  \* bounds a capture: markers, and workloads twice
          MaxEager,    \* bounds the workloads launched before the replay
          ChunkSize,   \* what the prefetcher pages in at once
          QueueSize,   \* commands between prefetcher and dispatcher
          CacheSlots,  \* programs in the prefetcher's cache
          NoProgram

VARIABLES stage,
          nodes,      \* trace_nodes_: workloads and markers
          trace,      \* the exec_buf, in units: a command and what it carries
          described,  \* the trace's worker descriptors: launches at its end
          given,      \* the indices before the replay
          issued,     \* worker_launch_message_buffer_state of the host
          index,      \* index buffers
          fetch,      \* the prefetcher: position, units left of the chunk and of the command
          stalled,    \* it waits for the dispatcher
          ring,       \* programs in the prefetcher's cache
          queue,      \* commands for the dispatcher
          messages,   \* the workers' launch messages
          launched,   \* their read pointer since the last reset
          completed,  \* completion counter since the last reset
          running, ran

captured == <<stage, nodes, trace, described, given>>
device == <<index, fetch, stalled, ring, queue, messages, launched, completed, running, ran>>
vars == <<captured, issued, device>>

-----------------------------------------------------------------------------
(* Capture. *)

Workload(p) == [marker |-> "none", program |-> p]
Begin(b) == [marker |-> "begin", buffer |-> b]
Branch == [marker |-> "branch"]
End == [marker |-> "end"]
Marked(ns) == {k \in DOMAIN ns : ns[k].marker # "none"}

Depth(ns) ==
  FoldLeft(LAMBDA d, node : CASE node.marker = "begin" -> d + 1 [] node.marker = "end" -> d - 1 [] OTHER -> d, 0, ns)
AfterBegin == nodes # <<>> /\ Last(nodes).marker = "begin"

\* What is left to record, after the ends of the open cases.
Room == MaxCapture - 2 * Len(nodes) + Cardinality(Marked(nodes)) - Depth(nodes)
\* Markers come as runCaseInTrace makes them: a branch right after the beginning.
Recordable(node) ==
  CASE node.marker = "none" -> ~AfterBegin /\ Room >= 2
    [] node.marker = "begin" -> ~AfterBegin /\ Room >= 3
    [] node.marker = "branch" -> Depth(nodes) > 0 /\ Room >= 1
    [] node.marker = "end" -> Depth(nodes) > 0 /\ ~AfterBegin

Record ==
  \E node \in {Workload(p) : p \in Programs} \cup {Begin(b) : b \in Buffers} \cup {Branch, End} :
    /\ stage = "capturing" /\ Recordable(node)
    /\ nodes' = Append(nodes, node)
    /\ UNCHANGED <<stage, trace, described, given, issued, device>>

-----------------------------------------------------------------------------
(* record_end: the commands of the nodes, in order.  A layout is the trace *)
(* so far, the open cases, launches since the last boundary and the        *)
(* programs in the prefetcher's cache.                                     *)

Body == [cmd |-> "body"]
Run(slot, load, launch) == [cmd |-> "run", slot |-> slot, load |-> load, launch |-> launch, size |-> 2]
Go == [cmd |-> "go", launch |-> 0, size |-> 1]
BoundaryAfter(n) == [cmd |-> "boundary", wait |-> n, size |-> 1]
Stall == [cmd |-> "stall", size |-> 1]
Stop == [cmd |-> "stop", size |-> 1]
Skip(always, buffer, value) ==
  [cmd |-> "skip", always |-> always, buffer |-> buffer, value |-> value, skipped |-> 0, size |-> 1]

\* emit_boundary: back to the state a replay starts in.
Boundary(l) ==
  [l EXCEPT !.trace = @ \o (IF l.launches = 0 THEN <<>> ELSE <<BoundaryAfter(l.launches)>>),
            !.launches = 0, !.cache = <<>>]
Emit(l, command) == [l EXCEPT !.trace = Append(@, command)]
\* land_skip: skips that land behind the trace so far.
Land(l, skips) ==
  [l EXCEPT !.trace = [at \in DOMAIN @ |->
     IF at \in skips THEN [@[at] EXCEPT !.skipped = Len(l.trace) - at] ELSE @[at]]]

LayWorkload(l, p) ==
  LET hit == \E slot \in DOMAIN l.cache : l.cache[slot] = p
      cache == IF hit THEN l.cache ELSE IF Len(l.cache) = CacheSlots THEN <<p>> ELSE Append(l.cache, p)
      slot == CHOOSE s \in DOMAIN cache : cache[s] = p
  IN [l EXCEPT !.trace = @ \o <<Run(slot, IF hit THEN NoProgram ELSE p, l.launches), Body>>,
               !.launches = @ + 1, !.cache = cache]

LayBegin(l, node) ==
  [Emit(Boundary(l), Stall) EXCEPT
     !.open = Append(@, [buffer |-> node.buffer, branches |-> 0, toNext |-> 0, toEnd |-> {}])]

\* A mutant: the skip over a branch lands before the branch's skip to the end.
CloseBranchEarly(l) ==
  LET drained == Boundary(l)
      open == Last(l.open)
  IN [Emit(Land(drained, {open.toNext}), Skip(TRUE, open.buffer, 0)) EXCEPT
        !.open = Append(Front(@), [open EXCEPT !.toEnd = @ \cup {Len(drained.trace) + 1}])]
\* After a branch: a skip to the end of the case, behind which the skip over it lands.
CloseBranch(l) ==
  LET drained == Boundary(l)
      open == Last(l.open)
  IN [Land(Emit(drained, Skip(TRUE, open.buffer, 0)), {open.toNext}) EXCEPT
        !.open = Append(Front(@), [open EXCEPT !.toEnd = @ \cup {Len(drained.trace) + 1}])]
LayBranch(l) ==
  LET closed == IF Last(l.open).branches = 0 THEN l ELSE CloseBranch(l)
      open == Last(closed.open)
  IN [Emit(closed, Skip(FALSE, open.buffer, open.branches)) EXCEPT
        !.open = Append(Front(@), [open EXCEPT !.branches = @ + 1, !.toNext = Len(closed.trace) + 1])]

\* The last branch takes every other index: its test becomes a skip of nothing.
LayEnd(l) ==
  LET open == Last(l.open)
      landed == Land(Boundary(l), open.toEnd)
  IN [landed EXCEPT !.trace[open.toNext].always = TRUE, !.open = Front(@)]

Lay(l, node) ==
  CASE node.marker = "none" -> LayWorkload(l, node.program)
    [] node.marker = "begin" -> LayBegin(l, node)
    [] node.marker = "branch" -> LayBranch(l)
    [] node.marker = "end" -> LayEnd(l)
Laid == FoldLeft(Lay, [trace |-> <<>>, open |-> <<>>, launches |-> 0, cache |-> <<>>], nodes)

\* A trace with cases is drained at its end, and sends one GO signal.
Ending(l) ==
  IF Marked(nodes) = {} THEN l ELSE [Emit(Boundary(l), Go) EXCEPT !.launches = 1]

EndCapture ==
  /\ stage = "capturing" /\ Depth(nodes) = 0
  /\ LET l == Ending(Laid) IN
     /\ trace' = Append(l.trace, Stop)
     /\ described' = l.launches
  /\ stage' = "captured"
  /\ UNCHANGED <<nodes, given, issued, device>>

-----------------------------------------------------------------------------
(* Replay. *)

Nothing == [s \in 1 .. CacheSlots |-> NoProgram]
NoMessages == [launch \in 0 .. MaxCapture + MaxEager + 1 |-> NoProgram]

Init ==
  /\ stage = "capturing" /\ nodes = <<>> /\ trace = <<>> /\ described = 0
  /\ given = [b \in Buffers |-> 0] /\ index = given
  /\ issued = 0 /\ launched = 0 /\ completed = 0
  /\ fetch = [at |-> 1, chunk |-> 0, left |-> 0] /\ stalled = FALSE
  /\ ring = Nothing /\ queue = <<>> /\ messages = NoMessages /\ running = <<>> /\ ran = <<>>

Tested == {nodes[k].buffer : k \in {j \in DOMAIN nodes : nodes[j].marker = "begin"}}
\* After some eager workloads.  The host resets the workers before a trace with programs,
\* and takes over the launches it describes.
Replay ==
  /\ stage = "captured"
  /\ stage' = "replaying"
  /\ given' \in {g \in [Buffers -> 0 .. MaxValue] : \A b \in Buffers \ Tested : g[b] = 0}
  /\ index' = given'
  /\ \E eager \in 0 .. MaxEager :
       /\ issued' = IF described = 0 THEN eager ELSE described
       /\ launched' = (IF described = 0 THEN eager ELSE 0) /\ completed' = launched'
  /\ UNCHANGED <<nodes, trace, described, fetch, stalled, ring, queue, messages, running, ran>>

Least(m, n) == IF m < n THEN m ELSE n
\* The next chunk of the trace (paged_read_into_cmddat_q).
Refill ==
  /\ stage = "replaying" /\ fetch.chunk = 0 /\ fetch.at <= Len(trace)
  /\ fetch' = [fetch EXCEPT !.chunk = Least(ChunkSize, Len(trace) + 1 - fetch.at)]
  /\ UNCHANGED <<captured, issued, index, stalled, ring, queue, messages, launched, completed, running, ran>>

\* Consume what is left of a command, or the chunk when it goes on in the next.
Consume ==
  /\ fetch.left > 0 /\ fetch.chunk > 0
  /\ LET n == Least(fetch.left, fetch.chunk)
     IN fetch' = [at |-> fetch.at + n, chunk |-> fetch.chunk - n, left |-> fetch.left - n]
  /\ UNCHANGED <<captured, issued, index, stalled, ring, queue, messages, launched, completed, running, ran>>

Command == trace[fetch.at]
Fetching(kinds) ==
  stage = "replaying" /\ fetch.left = 0 /\ fetch.chunk > 0 /\ ~stalled /\ Command.cmd \in kinds
Passed(units) == fetch' = [fetch EXCEPT !.left = units]
Send(command) == Len(queue) < QueueSize /\ queue' = Append(queue, command)

FetchRun ==
  /\ Fetching({"run"})
  /\ LET loaded == IF Command.load = NoProgram THEN ring ELSE [ring EXCEPT ![Command.slot] = Command.load] IN
     /\ ring' = loaded
     /\ Send([cmd |-> "run", launch |-> Command.launch, program |-> loaded[Command.slot]])
  /\ Passed(Command.size)
  /\ UNCHANGED <<captured, issued, index, stalled, messages, launched, completed, running, ran>>

FetchOther ==
  /\ Fetching({"boundary", "stall", "go"})
  /\ Send(Command)
  /\ stalled' = (Command.cmd = "stall")
  /\ Passed(Command.size)
  /\ UNCHANGED <<captured, issued, index, ring, messages, launched, completed, running, ran>>

\* process_exec_buf_skip_cmd: the index is read when the prefetcher gets there.
FetchSkip ==
  /\ Fetching({"skip"})
  /\ Passed(Command.size + IF Command.always \/ index[Command.buffer] # Command.value THEN Command.skipped ELSE 0)
  /\ UNCHANGED <<captured, issued, index, stalled, ring, queue, messages, launched, completed, running, ran>>

\* The dispatcher runs a workload after those before it: it writes the launch message,
\* and the workers run the message they get to, which clears it.
DispatchRun ==
  /\ queue # <<>> /\ Head(queue).cmd \in {"run", "go"} /\ completed >= Head(queue).launch
  /\ LET sent == IF Head(queue).cmd = "go" THEN messages
                 ELSE [messages EXCEPT ![Head(queue).launch] = Head(queue).program] IN
     /\ running' = Append(running, sent[launched])
     /\ messages' = [sent EXCEPT ![launched] = NoProgram]
  /\ launched' = launched + 1
  /\ queue' = Tail(queue)
  /\ UNCHANGED <<captured, issued, index, fetch, stalled, ring, completed, ran>>

\* reset_worker_dispatch_state_on_device.
DispatchBoundary ==
  /\ queue # <<>> /\ Head(queue).cmd = "boundary" /\ completed >= Head(queue).wait
  /\ launched' = 0 /\ completed' = 0
  /\ queue' = Tail(queue)
  /\ UNCHANGED <<captured, issued, index, fetch, stalled, ring, messages, running, ran>>

DispatchStall ==
  /\ queue # <<>> /\ Head(queue).cmd = "stall"
  /\ stalled' = FALSE
  /\ queue' = Tail(queue)
  /\ UNCHANGED <<captured, issued, index, fetch, ring, messages, launched, completed, running, ran>>

Effect(p, indices) ==
  IF p # NoProgram /\ Written[p].buffer \in Buffers
  THEN [indices EXCEPT ![Written[p].buffer] = Written[p].value] ELSE indices
Finish ==
  /\ running # <<>>
  /\ index' = Effect(Head(running), index)
  /\ ran' = IF Head(running) = NoProgram THEN ran ELSE Append(ran, Head(running))
  /\ running' = Tail(running)
  /\ completed' = completed + 1
  /\ UNCHANGED <<captured, issued, fetch, stalled, ring, queue, messages, launched>>

\* A workload launched after the replay, for the message the host takes for the next.
Afterwards == CHOOSE p \in Programs : TRUE
LaunchEager ==
  /\ Fetching({"stop"})
  /\ Send([cmd |-> "run", launch |-> issued, program |-> Afterwards])
  /\ stage' = "replayed" /\ issued' = issued + 1
  /\ UNCHANGED <<nodes, trace, described, given, index, fetch, stalled, ring, messages, launched, completed, running, ran>>
Complete ==
  /\ stage = "replayed" /\ queue = <<>> /\ running = <<>>
  /\ stage' = "done"
  /\ UNCHANGED <<nodes, trace, described, given, issued, device>>
Stopped == stage = "done" /\ UNCHANGED vars

Next ==
  \/ Record \/ EndCapture \/ Replay
  \/ Refill \/ Consume \/ FetchRun \/ FetchOther \/ FetchSkip
  \/ DispatchRun \/ DispatchBoundary \/ DispatchStall \/ Finish \/ LaunchEager \/ Complete \/ Stopped
Spec == Init /\ [][Next]_vars

-----------------------------------------------------------------------------
\* What a replay of the nodes means: "A replay runs only branch i, where i is the
\* 32-bit word that page 0 of `index` starts with when the replay gets there, or the
\* last branch if i is out of range" (trace_case.patch:36).
BranchesOf(k) ==
  {j \in k + 1 .. Len(nodes) :
     nodes[j].marker = "branch" /\ Depth(SubSeq(nodes, k, j)) = 1
     /\ \A i \in k .. j : Depth(SubSeq(nodes, k, i)) > 0}
Chosen(case) ==
  case.branch = case.index + 1 \/ (case.branch = case.branches /\ case.index \notin 0 .. case.branches - 1)
Meaning ==
  FoldLeftDomain(
    LAMBDA m, k :
      LET node == nodes[k] IN
      CASE node.marker = "begin" ->
             [m EXCEPT !.cases = Append(@, [index |-> m.index[node.buffer], branch |-> 0,
                                            branches |-> Cardinality(BranchesOf(k))])]
        [] node.marker = "branch" -> [m EXCEPT !.cases[Len(m.cases)].branch = @ + 1]
        [] node.marker = "end" -> [m EXCEPT !.cases = Front(@)]
        [] OTHER -> IF \A c \in DOMAIN m.cases : Chosen(m.cases[c])
                    THEN [m EXCEPT !.ran = Append(@, node.program), !.index = Effect(node.program, @)] ELSE m,
    [ran |-> <<>>, index |-> given, cases |-> <<>>], nodes)

\* Whatever is read and dispatched ahead, the workloads of the chosen branches run, and in
\* order: no skip lands in another branch, no index is read before the work that computes
\* it, and no command depends on which branch led to it (docs/trace-cases.md).  And "eager
\* work after a replay sees consistent dispatch state" (test_trace_case.cpp:7).
RunsTheChosenBranches == stage = "done" => ran = Append(Meaning.ran, Afterwards)
=============================================================================
