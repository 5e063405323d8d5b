# A TLA+ development of libtt

libtt is a PJRT plugin for Tenstorrent devices. One shared library, `libtt.so`, carries the
PJRT implementation (tt-xla), the compiler and runtime (tt-mlir) and the driver (tt-metal);
JAX and torch_tpu load it. The repository holds three kinds of source, and all three are
modelled from here:

- code of its own: `src/cpp/` (coordination of processes, the embedded runtime files),
  `src/ttnn/` (device kernels), `src/tt_mlir/` (compiler passes), `src/python/`;
- files added to an upstream project, such as `src/third_party/tt_xla/tt_mlir_control_flow*.cpp`;
- patches of upstream projects in `src/third_party/`. What a patch adds is translated; what it
  calls in code that is not in the repository is modelled from how the patch uses it, and marked
  external in `PROJECT.json`.

Contents: [inventory](#inventory), [modules](#modules), [runs](#runs), [fairness](#fairness),
[proofs](#proofs), [findings](#findings), [what is not modelled](#what-is-not-modelled),
[plan](#plan).

## Inventory

| Component | State | Operations | What is hard |
| --- | --- | --- | --- |
| KeyValueContext (`cpp/key_value_context.cc`) | rank, members, name and one counter per channel, shared by the threads of a process; keys in the store | send, ssend, recv, irecv, snoop, all_gather, barrier, broadcast, create_sub_context, duplicate, split | an MPI-like context on a map without delete: every key must be new, the counters of different processes must stay in step without talking, also after timeouts and size mismatches |
| Store service (`cpp/tcp_key_value_store.cc`) | a map and a condition variable in process 0, a thread and a socket per connection | put, get with timeout | requests in pieces, clients that die in the middle, the server that ends with its process, timeouts that race with puts |
| Runtime root (`cpp/tt_metal_runtime_root.cc`) | files under a temporary directory, a marker, a lock file, a once_flag | EnsureTtMetalRuntimeReady | processes that start together or die while they extract |
| Client lifecycle (`tt_xla_process_wide_client.patch`, `tt_xla_shared_client_instance.patch`) | one instance, a count of clients, handlers of `atexit` | create, destroy, look up, close at exit | creation against destruction, the order of exit handlers, the exit that waits for a mutex |
| System descriptors (`tt_xla_multi_process.patch`) | fixed keys in the store | gather descriptors of all processes | repeated use of the key space |
| Copies to the host, hand-over of chips (`tt_xla_copy_to_host_in_stream_order.patch`, `tt_xla_submesh.patch`, `tt_mlir_submesh_quiesce.patch`) | buffers with device data, host copies and pending reads; a count of copies; the open mesh | copyToHost, deleteData, execute on another mesh | reads in flight while their buffer is deleted, moved or its mesh closed |
| Trace memory (`trace_allocation_state.patch`, `trace_reserved_dram.patch`) | buffers, a footprint per trace, a reserved pool | allocate, deallocate, begin, end and release of a trace | transients of traces against buffers allocated later |
| Trace cache (`tt_mlir_validate_trace_allocation_state.patch`, `tt_mlir_stageable_trace_inputs.patch`, `tt_mlir_trace_publish_slots.patch`) | entries, variants, slots, staged inputs, a list of use | run: capture, replay, stage, evict; erase | eviction, shared slots, inputs that moved, capture that fails, allocation by other threads |
| Control-flow lowering and runtime (`tt_mlir_control_flow.cpp`, `tt_mlir_control_flow_runtime.cpp`) | carries, bounds, tensor pools of nested programs, retain flags | recognise a counted loop, run(WhileLoopOp), run(CaseOp) | modular arithmetic, aliases between carries, exceptions out of nested programs |
| Trace cases (`trace_case.patch`, recorded by `runCaseInTrace`) | markers of a capture; the commands of a trace; at a replay the prefetcher, the dispatcher and the workers with their queues and counters | record markers, lay out the trace, replay, skip | skips that land where nested cases end, an index read ahead of the work that computes it, state that depends on which branch ran |
| Blocking reads (`unlocked_blocking_reads.patch`) | a completion queue and its waiters | wait for an event | lost wake-ups |
| Lowering of gathers and scatters (`tt_mlir/lib/Conversion/StableHLOToTTIR/IndexedRows.cpp`, `IndexedRowsDecomposition.cpp`) | none: a rewriting of operations | gather, scatter, dynamic update slice, torch's gather and scatter, embedding and its gradient, to gathers and scatters of rows | dimensions that are batched, indexed, windowed or collapsed in any order, and results that hold theirs in yet another; bounds of clamped and of dropped windows |
| Indexed rows (`ttnn/.../experimental/indexed_rows`) | a ring buffer per core, shared by a reader and a writer; transfers under way | rows_gather, rows_scatter | pages, windows, groups and batches that end inside one another; kernels that wait for each other |
| Top-k selection (`ttnn/.../reduction/topk`) | lists of candidates and semaphores in the memories of cores | select per segment, merge, write out | candidates that arrive in any order, ties, early returns that others count on |
| Row quantization (`ttnn/.../experimental/quantize_rows`) | maxima of all cores in the memory of each | quantize_rows | layouts of packed tiles, last tiles that are not full, maxima that are still on their way |
| State pool copy (`ttnn/.../transformer/state_pool_copy`) | a pool of slots, two buffers per worker | state_pool_copy | buffers read into while a write leaves them |
| Other kernels, compiler passes (`ttnn`, `tt_mlir`) | none | matrix products, random bits, norms and rotations; fusing | floating point |

How they interact. A process starts by making the runtime root ready. With several processes a
KeyValueContext over the store service stands in for MPI and carries the system descriptors.
PJRT creates a client, which opens the device. An execution takes `deviceWorkMutex`, prepares its
inputs (moving them between meshes, waiting for copies to the host), and runs a program; the
program runs traced operations through the trace cache, which allocates from tt-metal's trace
memory, and control flow through the nested programs of the control-flow runtime. Buffers of the
framework are created, copied, read and deleted by other threads meanwhile. The program's own
operations run as device programs: what the lowering makes of a StableHLO gather, the row kernels
compute.

## Modules

An action is named as its function; where a function has several steps that others can come
between, each step is an action, and the lines in `PROJECT.json`'s `map` say which.

| Module | Models | Correspondence |
| --- | --- | --- |
| `KeyValueMessages` | point-to-point messages | `sendSeq`, `recvSeq` are `sequences_` of the sending and of the receiving process; `call[t]` is what thread t is in; the store keeps every put (`Put`). `sent`, `received`, `thrown`, `acked` are history. Start… draws the counter, which the process' mutex makes one step; Put… and Get… are calls on the store. A receive advances before it waits; `CopyMismatch` is the throw of `Copy`; `RequestFails` is any request of the store that throws, a get that times out or a connection that fails under a put or a get |
| `KeyValueCollectives` | collectives, contexts | `contexts[p]` are the `KeyValueContext` objects of process p in the order it made them, and `counters[p]` has the `sequences_` of each: two objects of one name would count apart, as in the code. A process makes its root once, in `ClientInstance::initialize` (`tt_xla_multi_process.patch:199`). Names of contexts are the tuples that the string building makes, with `Numeral(n)` for the text of a number; `Continue` is the rest of a call that is under way, a get per member; `broadcast` returns at the root without waiting |
| `GatherRounds` | abstract: round n of a context is complete for a process only after all its members gave their values, and it takes those values | refined by `KeyValueCollectives` |
| `KeyValueStore` | abstract: an atomic map, the interface of `key_value_context.h` | refined by `TcpKeyValueStore` |
| `TcpKeyValueStore` | server, clients and the bytes between them | connections carry chunks: operation, lengths, first and second half of strings; the reader sees any prefix. A client that dies leaves what it had written; a server that exits leaves clients at the end of their connection |
| `RuntimeRoot` | extraction of the embedded files | the files on disk, open or complete; `flock`, which the kernel frees when its holder dies; `once_flag`, free again after an exception |
| `ClientLifecycle` | the client singleton and exit | instances by number; the stack of `atexit` handlers; tt-metal's own handler is registered by opening the device |
| `TracePool`, `TraceMemory` | the allocator's buffers, footprints and pool | a region list is the set of its addresses, so sorting and coalescing do not appear; `protected` and `born` are history |
| `TraceCache` | the cache, `run()` and the framework around it | `pc` is where the program is in `run()`; the allocator is `TracePool`'s. A trace id is one that no variant has (`FreeTraces`; the run has enough). `ProgramStep` is what holds `deviceWorkMutex`, or waits for it; `BesideStep` what takes the trace-capture mutex only and so comes anywhere between a program's steps, but not into a capture: `Copy` (`copyFromBuffer`), and `copyToHost`, which allocates what it untilizes into (`Untilize`) and drops it when the read of it is enqueued (`EnqueueRead`). `late` is history: what they allocated between the check of a variant and its replay |
| `TraceCase` | cases inside a trace, from capture to replay | `nodes` are the queue's `trace_nodes_`, `Record` its markers as `runCaseInTrace` makes them; `Laid` is `record_end`: `Boundary`, `LayBegin`, `LayBranch` and `LayEnd` are `emit_boundary` and `emit_case_marker`, and a trace is a sequence of units, a command and what it carries. `FetchSkip` is `process_exec_buf_skip_cmd`, `Refill` and `Consume` the chunks it goes through. The rest of the prefetcher, the dispatcher, the workers and the host's side of a replay are tt-metal's and modelled from what the patch and its comments say of them |
| `HostCopies` | reads to the host and the hand-over between meshes | a mesh is its number, and only one is open; `holdsHostBuffer` is a reference to the host memory of a read |
| `WhileLoop` | abstract: `stablehlo.while` on integers of a width | refined by `CountedLoop` |
| `CountedLoop` | lowering decision and runtime of a loop | `IsCounted` is `analyzeCountedLoop`, `Resolves` is `resolveBound`, `Outputs` `computeLoopOutputs`, `TripCount` the unsigned arithmetic of `run(WhileLoopOp)`; `overflowed` is history: a counted loop's addition went past the end of its type |
| `NestedTensors` | tensors of programs that run programs | a pool is a bag: a tensor, once per name; `retain` is the flag of a tensor; programs do any legal sequence of operations |
| `Tensors` | what the row modules have in common: tensors as a shape and a row-major sequence, with transposition, reshaping, slices, concatenation and padding as TTIR has them | elements are numbers, or sequences of what was combined |
| `RowsOps` | the operations rows_gather and rows_scatter by their definition | the interface (`AddressRead`, `RowsGather`, `RowsScatter`) between lowering and kernels: the lowering is right if the program it makes, read by these definitions, is the operation; the kernels are if they compute them |
| `StableHlo` | abstract, external: what gather, scatter, slice update and torch's operations mean, an element of the result or an update at a time | the meaning that `RowsConversion` compares with |
| `RowsLowering`, `RowsDecomposition` | the two lowerings, as functions from an operation to the value of its replacement | `Natural` and `TableOrder` are the classification of dimensions, `LowerGather`, `LowerScatter`, `LowerUpdateSlice` the patterns, `Classify` and `Combine` the recognised update computations, `DecomposeGather` … the patterns of the second file |
| `RowsConversion` | the conversion of one operation, by the pattern of its kind | `NoValue` is an operation that no pattern took |
| `IndexedRows` | the device programs of rows_gather and rows_scatter | `Valid`, `Geometry` and `Split` are the host's part; `reader`, `writer`, `ring` the kernels of a core and the buffer they share; `loads`, `stores` the transfers under way, each of which lands by an action of its own (`Land…`). An element stands for a byte; a reduction collects what it combines |
| `TopKSelect` | the selection path of TopK | `PlanOf` is `topk_select_plan`; a core is selecting, merging or owning a tile row; its `sending`, the writes under way, go from core to core and land in any order, before the core's barrier lets it raise a semaphore |
| `QuantizeRows` | quantize_rows | `PlanOf` the plan; per core a reader, a compute and a writer kernel; `shares` and `tells` are the maxima and the counts on their way to other cores; a quotient is the pair of its operands |
| `StatePoolCopy` | state_pool_copy | `worker` is a worker's loop, `buffers` its two pages, `writes` those that have not landed |
| `DeviceCalls` | the calls on which the four device programs are checked | |

`TraceCache` composes with the allocator through `TracePool`, the conversion and the kernels meet
in `RowsOps`, and the three abstract modules are composed with the detailed ones by
`INSTANCE … WITH` and checked as properties. Four modules hold several systems that do not
interact, each with behaviours of its own, which a variable that never changes tells apart
(`part`, `operation`, `system`): `MCProcesses` the runtime root and the client lifecycle, `MCTraces` the memory of
traces and the cases in one, `MCControlFlow` the numbers and the
tensors of loops, `MCDevicePrograms` the four device programs. `MCProcesses` and `MCControlFlow` extend both of their modules and
`MCDevicePrograms` three of its four, so that the runs check the very definitions the theorems are about; where names
met, one module's carry a prefix (`ClientsInit`, `ClientsNext` and `Callers`, the framework's threads, in `ClientLifecycle`;
`TensorsInit`, `TensorsNext` in `NestedTensors`; `RowsInit`, `RowsNext` in `IndexedRows`; `PoolInit`, `poolCall`, `LaunchCopy` … in
`StatePoolCopy`; `SelectInit`, `selectCall`, `doing` … in `TopKSelect`). The properties of the other modules composed in this way are those of their instances. Definitions that begin with a comment "Mutant:" or "A mutant:" are wrong on purpose:
each property of a run is violated when one of them takes the place of the definition after it.

## Runs

Every run was checked to completion. "Refinement" means that the abstract specification is a
property.

| Run | States | What it shows | Bounds and why they are enough |
| --- | --- | --- | --- |
| `key_value_messages` | 49 000 | `ReceivesInOrder`: the n-th receive started on a channel gets the n-th message; `SynchronousSend`: ssend returns after its message was copied; `MatchedSendReturns`: ssend returns if it is received, unless the receiver's own requests fail | two messages, on one channel or on two that differ in the tag; sends from two threads, one receive by irecv. Two are needed to be out of order, and two tags to confuse channels; payloads of two sizes make mismatches |
| `key_value_collectives` | 162 000 | `SameNameSameContext`: objects of one name have the same members, and in one process are one object; `BroadcastFromRoot`; `GathersRounds` (refinement); `GatherCompletes` | four workloads: rounds with two sizes, gatherings in contexts made out of contexts, many contexts, and a split of three processes with the undefined colour. A third round follows one that failed |
| `tcp_key_value_store` | 117 000 | `ImplementsStore` (refinement): where nobody dies the server is the atomic map; `EveryRequestEnds` | two clients, one key, two values; strings of two chunks. One client can die in the middle of a put while the other waits for it |
| `processes` | 14 000 | of the runtime root `ReadyMeansComplete` and `EveryThreadGetsThrough`; of the clients `ClientsHaveTheInstance`, `ClosedBeforeTearDown`, `ExitCompletes` | three processes (a dead one, one that extracts after it, one that waits), one with two threads for `call_once`; two files make a partial extraction. Two threads, three clients and three instances: create against destroy with a third that shares |
| `traces` | 2 776 000 | of the memory `OneOwner`, `PoolProtects`, `CaptureRestoresPool`; of cases `RunsTheChosenBranches`: a replay runs what a reading of the markers from first to last, with the index as it is at each case, says, and then the host's next workload, launched for the message the host takes to be next | memory: four addresses in ranges of one or two, three buffers, two traces that share transients. Cases: every capture of up to 11, where a workload counts twice: cases with two and three branches, empty branches, a case in a branch and one after another; two index buffers with values 0 … 2, so that an index is out of range; two programs, of which one writes an index, so that a case depends on the work before it; a chunk of 3 units, so that commands and skips straddle chunks; a queue and a cache of two; none or one workload before the replay |
| `trace_cache` | 181 000 | `NothingDangles`, `SlotsAreApart`, `ReplayReadsTheArgument`, `ReplayOverwritesOnlyLate` (a replay overwrites only what a copy or a read of the framework allocated since the variant was checked, nothing that a program or the cache has), `CapturesSettle` (an operation that ran does not capture again until something was allocated) | two operations, two variants, six interchangeable addresses (symmetry); either one entry and two buffers of the framework that it copies and reads at any time, or two entries and one buffer: small enough that eviction, staging, exhausted memory and allocations beside a replay meet |
| `trace_copies` | violation | `ReplayIsSafe` with copies and reads by another thread | see findings |
| `host_copies` | 121 000 | `NothingLeftOnClosedMesh`, `HostBufferOutlivesReads`, `OneThreadClosesAfterCopies` (with one thread of the framework, a mesh closes after the reads from it), `HandOverCompletes` | two tensors (one in shards), three meshes in succession, two copies at once, one or two threads |
| `host_copies_closing` | violation | `NoCopyFromClosedMesh` with two threads | see findings |
| `control_flow` | 1 250 000 | `ImplementsWhile` (refinement): a counted loop makes the iterations of the while and ends where it ends, except that a loop whose last addition overflowed ends where the while would go on; `NothingNamedIsFreed`, `ReplaysOverwriteNothing`, `FlagsComeBack` of nested programs | every loop of two carries over three-bit integers with operands -4, 0, 1, 2 and 3, among them both ends of the type: up, down, signed and unsigned, carries that are permuted, bounds that are carries or captured, distances and additions that need more than the three bits, counters that overflow. Programs two deep, three names, three tensors, a loop of two carries or a case of one input, exceptions anywhere, carries interchangeable (symmetry): two names on one tensor are what retention is for |
| `rows_conversion` | 13 600 | `ComputesTheOperation`: what an operation is converted to has the value of the operation, and exactly the operations in `Unsupported` are left as they are | operands of shapes 3, 3×2, 2×1×3 and 2×2×2, every assignment of a role (batched, taken, windowed, whole, partial, fixed) to their dimensions, in five layouts of index tensor, result and updates; index words of 8 bits in bounds with duplicates, below and above the bounds. A size-1 dimension and three dimensions are what the table's order is decided by; `MaxUnrolledApply` 3 has operations on either side of it |
| `device_programs` | 150 000 | of rows_gather and rows_scatter `EndsAsPromised` (the output is the operation of `RowsOps`), `TransfersStayInside` (nothing runs past an entry, the ring or a tensor), `ElementsGoOutOnce` (every element of the output is written by one write of one core) and `NeverWaitForEachOther`; of top-k `SelectsTheBest` and `SemaphoresEndAtZero`; of quantize_rows `QuantizesByRow`, where what has not landed would be told from any maximum; of state_pool_copy `CopiesThePairs` | sizes of the code in proportion: chunks of 2 elements, entries in granules of 2, groups of up to 2, so that pages of up to 5 elements have whole and short chunks and fall into several batches; index words of 4 bits; 1 to 3 cores. Top-k: tiles of 4 columns, keys of 6 bits, up to 6 cores in one to four segments. quantize_rows: strides of 4, 8, 16 and 32, 1 to 3 cores with several chunks each, dense tiles that are not full. Pool copy: 6 slots of 1 or 3 pages, 1 or 2 workers, up to 4 pairs in faces of two, skipped pairs between others |

Sizes of tt-metal that a run gives a small value are `ChunkSize`, `QueueSize` and `CacheSlots`. Bounds on counters are the constants `MaxCapture`, `MaxEager`, `MaxProcesses`, `MaxInstances`, `MaxMeshes`, `MaxCopies`,
`MaxVariants` (the code's own), `MaxNames`, `MaxTensors`, `MaxDepth`, and those in the records
`Workloads`. Constants of the code that a run gives a smaller value are `MaxUnrolledApply`,
`MaxChunk`, `Granule`, `GroupBudget`, `MaxGroup`, `BatchBudget`, `IndexBudget`, `SourceBudget`, `TileSize`, `Bits`, `MaxK`,
`NarrowTiles`, `MaxFaceRows`, `MaxCandidates`, `MaxCores`, `ChunkTiles` and `FaceWidth`; the
declarations name the code's values. Parameters that a run varies (workload, failures, running threads, the
call of a device program) are chosen in `Init` as variables that never change, so that one run covers them all.

The device programs and the replay of a trace have no properties of time: that each ends is what deadlock checking and
`NeverWaitForEachOther` show, since no action of theirs can be taken for ever. All modules' deadlocks are checked
except where the system really stops: calls of the workload all done
(`key_value_messages`, `key_value_collectives`), clients dead or done, or the server gone
(`tcp_key_value_store`), all threads ready or all processes dead, or the process exited
(`processes`), the operation converted (`rows_conversion`). Where a loop or a device program ends, a
step that changes nothing (`Stopped`) tells its end from a deadlock.

## Fairness

Weak fairness is put on steps that the code takes by itself once it can: a call on the store that
can answer or time out, a thread that runs, a copy under way, a handler at exit. Nothing is fair
that a user decides: no call need be made, no process need die, no buffer need be deleted.

- `KeyValueMessages`: `StoreStep` of a caller: a put, or a get whose key is in the store, returns.
  Nothing obliges a request to fail.
- `KeyValueCollectives`: `Continue`, the puts, and the gets whose key is there, of a call that began.
- `TcpKeyValueStore`: steps of a client's call and of the server's thread for it; both are threads
  in blocking calls on sockets, and the wait of a get and the retries of a connection are bounded by
  ten minutes.
- `RuntimeRoot` (in the run, `ProcessesSpec`): a thread that enters and a process that holds or waits for the lock. `flock` is
  given to some waiter; a process that fails throws, and its caller decides whether to try again.
- `ClientLifecycle` (likewise): the handlers at exit, and destructions that began, since the exit waits for
  their mutex. Exit begins when no thread creates or uses a client, as frameworks leave it.
- `HostCopies`: the count of a copy, the hand-over of an execution that began, and copies under way.
  With two threads new copies can begin as often as others end, and then the wait for the count to
  reach zero may never end, so `HandOverCompletes` is stated for one thread.
- `CountedLoop`, `NestedTensors`, `TraceCase`, `RowsConversion` and the device programs: none.

## Proofs

TLAPS checks the following for every value of the constants that satisfies the named assumptions. A module of proofs
holds those of one part of the system; where a part has several modules, their theorems' names say which they are about.

- `KeyValueMessages_proofs` (`Invariant`, `TypeCorrect`, `InOrder`, `Synchronous`, `FreshPuts`),
  from `MessagesAssumption`. None of the properties is inductive: that the n-th receive gets the
  n-th message depends on what is in the store, on who still has to put it and on who holds which
  number. `IInv` says that a message in the store is the one sent with its number (`StoreOK`, `CallsOK`); that
  no two sends, and no two receives, hold the same key (`KeysHeldOnce`); that a number held is one
  the counter has passed (`CountersOK`, `CallsOK`); and that an acknowledgement is there only for a
  message that was received, and not while its receive is under way (`AcksUnwritten`). `KeysDiffer` (keys of different channels or
  numbers, and of messages and acknowledgements, differ) is the lemma all of it rests on. Each
  action has a lemma of its own.
- `TcpKeyValueStore_proofs` (`Invariant`, `Refinement`), from `StoreAssumption`. `Refinement` is `ImplementsStore` for any
  clients, keys, values and time-outs: where nobody dies, a put changes the abstract map once between its call and its return, in
  the step in which the server's thread stores it, and a get returns what the map held at the instant it was looked up; all other
  steps of bytes are stutters. The invariant it needs is of a whole conversation (`Conversation`): what the
  server has read, what is on the way and what the client still has to write are together the request of the call (`Along`), so
  that the server acts on the arguments of that call; and an answer is on the way only when the request was read, and to the client
  that made it (`Answered`). Each step has a lemma that says what its conversation does (`Goes`) and that others are untouched.
- `Processes_proofs`, of the runtime root (`RootInvariant`, `CompleteWhenReady`, `ExclusiveExtraction`, `FinalOnceMarked`), from
  `RuntimeRootAssumption`, and of the clients (`ClientsInvariant`, `ClientsTypeCorrect`, `ClientsShareTheInstance`,
  `ClosedByThen`), from `ClientsAssumption`. `RootIInv` says that a process from the check of the marker
  to the unlock holds the lock (`LockHeld`); that the entries before its next one are whole
  (`Progress`); that with the marker all files are whole and nobody extracts (`MarkerTrue`); and that
  nobody gets past the check without the marker (`MarkedFirst`). `ClientsIInv` relates the mutex to what threads are
  doing (`MutexHeld`), the count to the clients that
  have a reference (`RefCountIsRight`, with `Cardinality`), pointers and open devices to the instance, and the
  stack of exit handlers to how far creation and exit have come (`HandlersInOrder`).
- `TraceMemory_proofs` (`Invariant`, `TypeCorrect`, `OwnersAreDisjoint`, `PoolProtectsTraces`,
  `CapturesRestoreThePool`), from `PoolAssumption` and `MemoryAssumption`. `IInv` strengthens
  `OneOwner` by what a capture has done so far: while it lasts, only buffers born in it overlap the
  traces the pool held when it began (`OnlyBornOverlap`). `PoolIsFree` and `PoolHolds` are the lemmas about
  the reservation of free regions. The two action properties follow from the invariant
  step by step.
- `ControlFlow_proofs`, of loops (`LoopInvariant`, `LoopTypeCorrect`, `CountingIsCondition`, `LoopRefinement`), from
  `LoopAssumption` alone: any width whose differences fit the runtime's words, any bounds, the ends of the type included.
  `TripCountReaches` is the arithmetic: the
  quotient of the unsigned difference is the number of steps to the limit. `LoopIInv` relates the
  trips left to the counter (`CountIsExact`) and shows what an overflow is: before the last trip the counter is below the limit and stays
  so, so only the last addition can pass the end of the type, and only with a step above one. Until then the body's sum
  is the sum in the integers, and so every iteration is the while's; after it the loop ends, and the refinement maps
  the end of that loop alone (`ended <- phase = "ended" /\ ~overflowed`) to no end of the while; `StepIsWhileStep` shows that every step of the runtime is an iteration of
  `WhileLoop` or none.
  And of the tensors of programs in one another (`TensorsInvariant`, `NothingIsFreed`, `SlotsAreFree`, `FlagsReturn`), from
  `TensorsAssumption`, for any number of names and tensors and any depth. That nothing named is freed is far from inductive:
  whether a deallocation at one depth frees depends on flags that programs above and below set. `TensorsIInv` says that a
  tensor whose flag is not set has one name in the program on top and no other use (`Alone`); that the inputs of an operation
  under way are retained while it lasts (`Runs`, `StayRetained`), as are constants, slots and what the framework holds (`KeepsRetained`);
  that what an operation will set back when it ends leaves only tensors unretained that are then alone again
  (`AloneAgain`); and that slots are published by the trace of their depth (`SlotsPublished`). `FlagsReturn` follows step by step from what
  a loop or a case remembers of its inputs (`Retentions`).
- `KeyValueCollectives_proofs` (`Invariant`, `NamesKeepContextsApart`, `BroadcastsReadTheRoot`,
  `GathersAreRounds`), from `CollectivesAssumption` and `NumeralsDiffer`, an explicit assumption of each
  theorem: the decimal texts of different numbers differ, and none is one of the words in names (TLC evaluates it up to 99,
  `NumeralsDifferHere`). The argument: a context's name ends in what made it, so a context with that name came out of a
  context with the name before, with the same members by induction over the steps (`ContextsAreMade`,
  `SameNameSameContext`); and the number at the end of a name is one that the counter of the object it came out of has left
  behind (`NamesAreSpent`), and of every object but those a process has nothing is counted (`NothingBeforehand`), so no process gives a
  name to two objects; processes that share a context begin the same collectives in the same order
  (`CountersInStep` of each object, `BegunIsAgreed`, `HistoryIsBegun`); so what is in the store under the key of a round was put
  by that member in that round (`StoreIsGiven`), and what a call has got so far is what was given (`CallsFit`).
  `GathersAreRounds` maps each step to one of `GatherRounds` or a stutter.
- `Device_proofs`, of the copies to and from the host (`HostInvariant`, `HostTypeCorrect`, `NothingLeft`, `HostBuffersOutlive`,
  `OneThreadIsSafe`), from `CopiesAssumption` (finitely many threads). `HostIInv` says who is in a hand-over
  and what it has moved already (`ExecutesAlone`, `MovedIsOff`), that the counter is the number of copies counted and not
  finished (`CountIsRight`), and that an enqueued copy has the one thread that is about to count it
  (`EnqueuedHasThread`): with one thread, which waits for the count, none is left when it closes a mesh (`NoneAtClose`).
  Of the copies in a state pool (`PoolCopyInvariant`, `PairsAreCopied`), from `PoolCopyAssumption` (sources and targets are disjoint
  slots of the pool, as the header asks, and no slot is the target of two sources). `CopyInvariant` says that a page holds what it held or
  what it has to (`OldOrNew`), so that a source reads the same whenever it is read; that a buffer that a write is leaving holds what the
  page must (`WritesCarry`) and is not the one read into next (`BuffersApart`, what the barrier before the first buffer is for);
  and that what a worker has passed is copied or on its way (`PassedIsCopied`). Pages are dealt by residues (`Dealt`), so no page is
  passed over; `ReadSlotReads` is that a vector read out of its tile is the vector.
  And of the row programs (`RowsInStep`, `NeverWaiting`), from `SizesAssumption` and `CallsAssumption`, whatever the sizes of chunks,
  entries, groups and batches and the shapes of a call. Reader and writer each wait on one number of the other, and what keeps both waits
  from holding at once is divisibility: `RowsInvariant` says that the ring holds exactly what the reader has pushed and the writer not popped
  (`InStep`), never more than its entries, that reader and writer are at whole groups or at the end (`Aligned`), and that
  the ring is whole groups (`ProgramFits`, which `GroupsInBatch` derives from the host's geometry). What is free is then whole groups too: if it is less than a batch
  that is missing, it is a group at least (`NoneWaits`). With a batch that is not rounded to groups, `GroupsInBatch` fails, and so does the run.
  Of the same programs (`ItemsFit`, `GoingOutOnce`): a gather's transfers and a scatter's chunks of pages are numbered over all cores. Cores take
  ranges of the numbers, in order (`CoresInOrder`, `SharesInOrder`), and number `x` has the part `Place(x)` on of the output, `Extent(x)` long, whatever
  expression the writers compute it with (`ScatterPlace`, `WindowPlace`, `RowPlace`); parts follow each other (`PlacesInOrder`) up to the output's
  end (`LaunchedOutput`), where the last chunk of a page may be short but not empty (`CeilIs`). `ItemsInvariant` says that a write under way is of a number
  its core has begun and no other write is of (`StoresFit`), and that what is written is of numbers whose writes have landed
  (`WrittenHasLanded`); no number is begun twice, since a core begins them in order and none of another core (`OutIsOwn`). The model
  lets the lowest of the writes that left land first; the proof does not use that, and so justifies it: in any order, the same is written.
  And of top-k's semaphores (`SemaphoresInvariant`, `SemaphoresAreReset`), from `SelectAssumption`, whatever the shape of a call. A semaphore is waited for
  with equality and reset by the core that waited, while others may still count: `SemaphoresCount` says that until the reset it is the number of
  cores done of those that tell it, and that from the last wait on all of these are done (`MergeCounts`, `OwnerCounts`), by what a core can be doing in its role
  (`RolesKept`). The value waited for is reached by all of them only, as a core's senders are told apart by their segments and an owner's
  by their groups (`FewSenders`, `FewMergers`, from the division of a core's number in `CoreFacts`). `PlansFit` is that the host's plan has at least one
  segment and group and takes no more cores than there are.
- `TraceCache_proofs` (`Invariant`, `TypeCorrect`, `HeldStaysAllocated`, `SlotsStayApart`,
  `ReplaysReadTheArgument`, `ReplaysOverwriteOnlyLate`, `LoopsSettle`), from `CacheAssumption`. `Written` are the addresses that replays
  write (slots, the outputs of the program), `Read` those it and the framework read; together they are what is held
  (`HeldIs`). Both grow only by addresses that were not allocated, so they stay disjoint from each other and from what a read untilizes into (`WrittenIsNotRead`), slots
  stay with one operation (`SlotsAreOwn`), and letting go of a variant, an entry or a program takes nothing
  that is still held (`LosesKeeps`). Between the check of a variant and its replay only work beside the program
  allocates, and all of it is `late` (`OverwritesLate`). All variants of a stageable operation read one place (`VariantsAgree`), which is where the call
  has its input once staging is decided (`VariantsFit`). `LatestIsSafe` is what makes loops settle: of the variants that fit a call
  that ran since the last allocation, the latest is safe to replay; a capture and a replay put theirs last, and evictions take the
  first (`LatestStays`).

The type invariant of each of these modules (`TypeOK`, `ClientsTypeOK`), `PutsAreFresh` (no key is written twice), `OneExtracts`, `MarkedIsFinal` and
`CountsAsTheCondition` (the trip count is the number of times the condition would hold) are proved and in no run.
Every invariant was checked by TLC on the bounds of its module's run before it was proved.

`CallsAssumption` has for the calls considered what holds of every shape, that the volume of natural extents is natural, zero if an extent is, and
the product of the volumes of the parts of a shape:
`Volume` is a fold, and what a fold computes for every sequence needs induction over data. TLC evaluates it on the calls of the run.

Only model-checked: liveness (out of the prover's reach under fairness), and the properties that compare
with what an operation means: `RunsTheChosenBranches` of `TraceCase`, `ComputesTheOperation` of `RowsConversion`,
`EndsAsPromised` and `TransfersStayInside` of `IndexedRows`, `SelectsTheBest` of `TopKSelect`, and `QuantizesByRow`. Their
values and places are folds and recursive functions over markers, dimensions and lists, whose results for
every input need induction over data. `ReplayIsSafe` and `NoCopyFromClosedMesh` are false and findings.

## Findings

1. `trace_copies`, `ReplayIsSafe`. `copyFromBuffer` (`tt_xla_trace_capture_lock.patch:31-43`)
   allocates the copy under the capture mutex only, and `copyToHost` (`:58-65`) what it untilizes into. An execution holds `deviceWorkMutex` from its check
   that no buffer overlaps its trace (`tt_mlir_validate_trace_allocation_state.patch:335`) to the
   replay (`:340`), and that is the lock which `tt_xla_device_buffers.patch:51-54` says
   allocations take. Either can be allocated in between, in the trace's footprint, and the
   replay overwrites it: a copy then keeps wrong data, and a read that is enqueued behind the replay returns it.
   `trace_cache` and `ReplaysOverwriteOnlyLate` show that nothing else is ever overwritten.
2. `host_copies_closing`, `NoCopyFromClosedMesh`. `copyToHost` enqueues its read
   (`tt_xla_copy_to_host_in_stream_order.patch:165-168`) and counts it afterwards (`:171-174`).
   An execution on another thread that hands the chips over can see a count of zero and close the
   mesh in between.

Observed, without a run of its own: `Connection::ReadString` (`tcp_key_value_store.cc:69`)
ignores that the connection ended before the first byte of a string whose length it has read, and
returns a string of zeros; the server then stores it. It needs a client that dies inside a put, and
the store's interface does not say what such a put leaves, so `ImplementsStore` compares the
behaviours where nobody dies (`Alive`), while `EveryRequestEnds` covers all. And a counted loop with a step above one ends where the while
would go on, if its last addition overflows: the while finds the wrapped counter below its limit again
(`tt_mlir_control_flow.cpp:140-192` does not exclude it). `ImplementsWhile` states this as its one exception.

Three more are of the rows operations. A dimension of size 1 that is collapsed without being indexed, and lies between no dimensions that windows move over, is not
matched by the lowering, though `indexed_rows_regression_test.py:3` says that every gather and scatter is
("compiles to ttir.rows_gather or ttir.rows_scatter"); `Unsupported` lists it with the other operations that stay. The
comment at `kMaxUnrolledApply` (`IndexedRows.cpp:846-849`) has a function applied once per row beyond it, where
`:996-1002` report an error. And `indexed_rows.hpp:18` and `indexed_rows_common.hpp:10` give the index tensor as `[Bi, M * K]`, where
the validation and the kernels have `[Bi, K, M]`, as `indexed_rows.hpp:38` says.

## What is not modelled

- `translate_ranks`, `abort` and the accessors of KeyValueContext: no state.
- `libtpu_processes.cc`, `tt_metal_runtime_auto_setup.cc`: environment variables, one file put in
  place by rename, one call.
- Parent meshes and mesh shapes in `HostCopies`: a mesh is a number, and a hand-over always makes
  a new one. And the throw on a host buffer that is too small
  (`tt_xla_copy_to_host_in_stream_order.patch:183`), which comes before the copy's thread waits for its read: PJRT has callers
  ask the same call for the size first.
- In `TraceMemory`: `clear` and `override_state`, L1, and allocators that depend on one another. `BeginCapture` and `EndCapture`
  each take two critical sections of the allocator as one step, as the trace-capture mutex keeps other allocations out.
- In `TraceCache`: host-resident inputs, several inputs or outputs per trace, several programs with
  the same operation, L1 buffers. Reads of the framework do not overlap, as the capture mutex has it. A buffer is one address, so fragmentation is `TraceMemory`'s.
- In `NestedTensors`: the case inside a trace (`runCaseInTrace`, whose markers are `TraceCase`'s), several traces at one depth. The
  order of condition and body and the end of a loop are left open, which allows more than the code
  does.
- In `RowsLowering` and `RowsDecomposition`: element types, locations, sharing of constants, and the
  operations around a replacement beyond their values.
- In `IndexedRows`: bytes and alignment of addresses below an element, the arithmetic of reductions (a
  reduction collects its operands in order), the streaming of the scatter's indices in chunks, and 32-bit products of
  counts, which stay far below 2^32 for tensors that fit on the device.
- In `TopKSelect`: the cut of an index to 16 bits, an output type that is taken where the padded width fits it
  (`topk_int32_indices.patch:29`) or where the caller's output has it.
- In `QuantizeRows`: the division and conversion to FP8 and the registers they use, and what the unpacker makes of a BF16 NaN.
- In `TraceCase`: several device ranges (each makes a trace of its own from the same markers) and sub-devices (the
  code refuses them), the ring of kernel configurations, which is laid out anew between markers as the
  prefetcher's cache is, and the bytes of commands. The compiler's part, which decides which cases stay in
  a trace (`tt_mlir_trace_case.patch`, `tt_mlir_cond_trace.patch`), and the copies of branches' results.
- Blocking reads (`unlocked_blocking_reads.patch`): the patch moves a wait out of a lock; the reader that
  completes events, its loop and what its failure leaves behind are tt-metal's and not in the repository, and they are
  what a wake-up depends on.
- `gatherSystemDescriptors`: one round of puts and gets, as in `KeyValueCollectives`, around
  descriptions of devices.
- Kernels whose matter is floating point (`matmul_fp32`, `rng_bits`, `qkv_heads_norm_rope_decode`,
  `split_qkv_norm_rope_decode`), the fusing passes that recognise them, Python, build files and the other
  patches of upstream projects, which change single lowerings and data types.

## Plan

Written in this order, the core of the system first: KeyValueMessages, KeyValueCollectives with
GatherRounds, TcpKeyValueStore with KeyValueStore, RuntimeRoot, ClientLifecycle, TracePool,
TraceMemory, TraceCache, HostCopies, WhileLoop with CountedLoop, NestedTensors; then Tensors, RowsOps,
RowsLowering, RowsDecomposition and RowsConversion with StableHlo, IndexedRows, TopKSelect, QuantizeRows,
StatePoolCopy, TraceCase.

Then the proofs, of each component after its run.
