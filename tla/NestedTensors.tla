---------------------------- MODULE NestedTensors ----------------------------
(***************************************************************************)
(* Who frees a tensor when programs run programs: the bodies, conditions   *)
(* and branches that tt_mlir_control_flow_runtime.cpp runs share tensors   *)
(* with their caller, and each program deallocates the names it has.  A    *)
(* deallocation frees the device buffer unless the tensor is retained, so  *)
(* the runtime retains what a nested program must not free, and puts the   *)
(* flags back.  A tensor nothing refers to is gone, its buffer with it.    *)
(*                                                                         *)
(* A program may do anything a compiled one may: its operations are chosen *)
(* one at a time.  It runs one trace and one control-flow operation.       *)
(***************************************************************************)
EXTENDS Integers, Sequences, FiniteSets, SequencesExt

CONSTANTS
  MaxNames,   \* bound: the names of a program
  MaxTensors, \* bound: tensors at once, beside the constant and the slots
  MaxDepth,   \* bound: programs in one another
  LoopInputs, \* the number of inputs of a loop
  CaseInputs  \* the number of inputs of a case

ASSUME TensorsAssumption ==
  /\ MaxNames \in Nat /\ MaxTensors \in Nat \ {0} /\ MaxDepth \in Nat \ {0}
  /\ LoopInputs \in Nat /\ CaseInputs \in Nat

VARIABLES
  stack,    \* the programs that run, the main program first
  retain,   \* shouldRetain, per tensor
  freed,    \* tensors whose buffer was deallocated
  held      \* tensors of the framework

tensorVars == <<stack, retain, freed, held>>

Own == 1 .. MaxTensors                    \* tensors a program computes
Constant == MaxTensors + 1                \* the tensor of the constant cache
Slot(depth) == MaxTensors + 1 + depth     \* the output slot of the traces at a depth
Slots == {Slot(d) : d \in 1 .. MaxDepth}
Tensors == Own \cup {Constant} \cup Slots

-----------------------------------------------------------------------------
(* Programs.                                                                *)

NoRetention == [tensors |-> << >>, flags |-> << >>]

NoOp == [kind |-> "none"]

\* How many names a pool has for a tensor.
Copies(t, pool) == IF BagIn(t, pool) THEN pool[t] ELSE 0

\* A new name for each tensor.
Named(pool, tensors) ==
  [t \in BagToSet(pool) \cup ToSet(tensors) |->
     Copies(t, pool) + Cardinality({i \in DOMAIN tensors : tensors[i] = t})]

\* One name less.
Without(pool, t) ==
  IF pool[t] = 1 THEN [u \in BagToSet(pool) \ {t} |-> pool[u]] ELSE [pool EXCEPT ![t] = @ - 1]

Insert(program, tensors) == [program EXCEPT !.pool = Named(@, tensors)]

HasRoom(program, k) == BagCardinality(program.pool) + k <= MaxNames

\* A program and the tensor pool it starts with; a pool is a bag, with a tensor in it
\* once for each name that refers to it.
Program(inputs, what) ==
  [what |-> what, traced |-> FALSE, called |-> FALSE, op |-> NoOp,
   pool |-> Named(EmptyBag, inputs)]

Depth == Len(stack)
Top == stack[Depth]
Caller == stack[Depth - 1]

Running == Depth > 0 /\ Top.op = NoOp

Replaced(depth, program) == [stack EXCEPT ![depth] = program]
Popped(caller) == Append(SubSeq(stack, 1, Depth - 2), caller)

\* What the names of a program refer to, and the values of its loop.
NamedBy(program) ==
  BagToSet(program.pool)
  \cup (IF program.op = NoOp THEN {} ELSE ToSet(program.op.inputs))

\* What its operation retains.
RetainedBy(program) ==
  IF program.op = NoOp THEN {}
  ELSE ToSet(program.op.outer.tensors) \cup ToSet(program.op.inner.tensors)

HandlesOf(program) == NamedBy(program) \cup RetainedBy(program)

Handles == held \cup {Constant} \cup Slots \cup UNION {HandlesOf(stack[d]) : d \in 1 .. Depth}

\* The tensors not in use, and the i-th of them.
Unused == Own \ Handles
Fresh(i) == SetToSeq(Unused)[i]
CanAllocate(k) == Cardinality(Unused) >= k

\* Tensors without a handle are forgotten.
Flags(flags, frees) ==
  LET handles == Handles' IN
  /\ retain' = [t \in Tensors |-> t \in handles /\ flags[t]]
  /\ freed' = frees \cap handles

-----------------------------------------------------------------------------
(* NestedProgramTensorRetention.                                            *)

\* The constructor records the flags of all tensors, then retains them.
Retaining(tensors) ==
  [tensors |-> tensors, flags |-> [i \in DOMAIN tensors |-> retain[tensors[i]]]]

Retained(tensors, flags) == [t \in Tensors |-> flags[t] \/ t \in ToSet(tensors)]

\* Flags are set one after the other: of a tensor that is there twice the last counts.
LastPlace(t, tensors) ==
  CHOOSE i \in DOMAIN tensors : /\ tensors[i] = t
                               /\ \A j \in DOMAIN tensors : tensors[j] = t => j <= i

PutBack(recorded, tensors, flags) ==
  [t \in Tensors |-> IF t \in ToSet(tensors) THEN recorded[LastPlace(t, tensors)] ELSE flags[t]]

\* Mutant: flags are put back on what is in the inputs' places now.
RestoredInPlace(retention, inputs, flags) ==
  IF retention = NoRetention THEN flags ELSE PutBack(retention.flags, inputs, flags)

\* restore(): on the tensors that were retained.
Restored(retention, inputs, flags) == PutBack(retention.flags, retention.tensors, flags)

Repeated(tensors) ==
  {t \in ToSet(tensors) : \E i, j \in DOMAIN tensors : i < j /\ tensors[i] = t /\ tensors[j] = t}

\* Mutant: no tensor is retained for being returned twice.
EscapingOnce(retention, outputs, flags) ==
  Retained(SelectSeq(outputs, LAMBDA t : t \in ToSet(retention.tensors)), flags)

\* retainRepeatedTensors and retainIfInputAlias.
Escaping(retention, outputs, flags) ==
  [t \in Tensors |->
     \/ flags[t]
     \/ t \in Repeated(outputs)
     \/ t \in ToSet(outputs) /\ t \in ToSet(retention.tensors)]

-----------------------------------------------------------------------------
(* A program's own operations.                                              *)

\* submit() starts a program on the tensor of the framework's (bound: one).
Submit(t) ==
  /\ stack = << >> /\ held = {t}
  /\ stack' = <<Program(<<t>>, "main")>>
  /\ held' = held
  /\ Flags(retain, freed)

Compute ==
  /\ Running /\ HasRoom(Top, 1) /\ CanAllocate(1)
  /\ stack' = Replaced(Depth, Insert(Top, <<Fresh(1)>>))
  /\ held' = held
  /\ Flags(retain, freed)

\* LoadCachedOp: the tensor of the cache, retained since it was stored.
LoadCached ==
  /\ Running /\ HasRoom(Top, 1)
  /\ stack' = Replaced(Depth, Insert(Top, <<Constant>>))
  /\ held' = held
  /\ Flags(retain, freed)

\* The trace writes its output slots, publishTraceOutputs names them.
ReplayTrace ==
  /\ Running /\ ~Top.traced /\ HasRoom(Top, 1)
  /\ stack' = Replaced(Depth, [Insert(Top, <<Slot(Depth)>>) EXCEPT !.traced = TRUE])
  /\ held' = held
  /\ Flags(retain, freed)

\* DeallocateOp.
Deallocate(t) ==
  /\ Running /\ BagIn(t, Top.pool)
  /\ stack' = Replaced(Depth, [Top EXCEPT !.pool = Without(@, t)])
  /\ held' = held
  /\ Flags(retain, IF retain[t] THEN freed ELSE freed \cup {t})

-----------------------------------------------------------------------------
(* Loops.                                                                   *)

\* A tensor can be an argument or a result several times.
Arguments(k) == [1 .. k -> BagToSet(Top.pool)]

\* The first outs inputs are the ones that the body returns (output_indices).
StartLoop(inputs, outs) ==
  /\ Running /\ ~Top.called /\ Depth < MaxDepth
  /\ stack' = Replaced(Depth, [Top EXCEPT !.called = TRUE,
       !.op = [kind |-> "while", inputs |-> inputs, outs |-> outs,
               outer |-> Retaining(inputs), inner |-> NoRetention]])
  /\ held' = held
  /\ Flags(Retained(inputs, retain), freed)

\* execute(): the condition or the body runs on the inputs as they are now.  When
\* which of them runs, and when the loop ends, is the subject of CountedLoop; here
\* any order is possible.
Execute(what) ==
  /\ Depth > 0 /\ Top.op.kind = "while"
  /\ stack' = Append(Replaced(Depth, [Top EXCEPT !.op.inner = Retaining(Top.op.inputs)]),
                     Program(Top.op.inputs, what))
  /\ held' = held
  /\ Flags(Retained(Top.op.inputs, retain), freed)

ReturnCondition ==
  /\ Running /\ Top.what = "condition"
  /\ stack' = Popped([Caller EXCEPT !.op.inner = NoRetention])
  /\ held' = held
  /\ Flags(Restored(Caller.op.inner, Caller.op.inputs, retain), freed)

\* Mutant: a trace's output slot becomes the carry.
CarryOfSlot(t, copy) == t

\* A trace output gets its own copy as a carry.
CarryOf(t, copy) == IF t \in Slots THEN copy ELSE t

\* How many of the first i results are slots, and so get a copy.
Slotted(results, i) == Cardinality({j \in 1 .. i : results[j] \in Slots})

\* The body's outputs replace the inputs they belong to.
Carried(op, results) ==
  [i \in DOMAIN op.inputs |->
     IF i <= op.outs THEN CarryOf(results[i], Fresh(Slotted(results, i))) ELSE op.inputs[i]]

ReturnBody(results) ==
  /\ Running /\ Top.what = "body" /\ Len(results) = Caller.op.outs
  /\ CanAllocate(Slotted(results, Len(results)))
  /\ LET op == Caller.op
         inputs == Carried(op, results)
     IN /\ stack' = Popped([Caller EXCEPT !.op.inner = NoRetention, !.op.inputs = inputs])
        /\ held' = held
        /\ Flags(Restored(op.inner, inputs, retain), freed)

\* The loop ends and its outputs get names; a tensor that escapes twice, or that
\* the caller has under another name, is retained.
EndLoop ==
  /\ Depth > 0 /\ Top.op.kind = "while"
  /\ HasRoom(Top, Top.op.outs)
  /\ LET op == Top.op
         outputs == SubSeq(op.inputs, 1, op.outs)
     IN /\ stack' = Replaced(Depth, Insert([Top EXCEPT !.op = NoOp], outputs))
        /\ held' = held
        /\ Flags(Escaping(op.outer, outputs, Restored(op.outer, op.inputs, retain)), freed)

-----------------------------------------------------------------------------
(* Cases.                                                                   *)

StartCase(inputs) ==
  /\ Running /\ ~Top.called /\ Depth < MaxDepth
  /\ stack' = Append(Replaced(Depth, [Top EXCEPT !.called = TRUE,
       !.op = [kind |-> "case", inputs |-> inputs,
               outer |-> Retaining(inputs), inner |-> NoRetention]]),
       Program(inputs, "branch"))
  /\ held' = held
  /\ Flags(Retained(inputs, retain), freed)

ReturnBranch(outputs) ==
  /\ Running /\ Top.what = "branch"
  /\ HasRoom(Caller, Len(outputs))
  /\ stack' = Popped(Insert([Caller EXCEPT !.op = NoOp], outputs))
  /\ held' = held
  /\ LET op == Caller.op IN
       Flags(Escaping(op.outer, outputs, Restored(op.outer, op.inputs, retain)), freed)

-----------------------------------------------------------------------------
(* The end of a program.                                                    *)

\* submit() copies the outputs that are cached constants or trace slots.
Finish(t) ==
  /\ Running /\ Depth = 1 /\ BagIn(t, Top.pool)
  /\ t \in Slots \cup {Constant} => CanAllocate(1)
  /\ held' = held \cup {IF t \in Slots \cup {Constant} THEN Fresh(1) ELSE t}
  /\ stack' = << >>
  /\ Flags([u \in Tensors |-> retain[u] \/ u \in held'], freed)

\* The framework lets a tensor go.
Release(t) ==
  /\ stack = << >> /\ Cardinality(held) > 1 /\ t \in held
  /\ held' = held \ {t}
  /\ stack' = stack
  /\ Flags(retain, freed)

\* The flags when an exception leaves a program.
Leaving(program, flags) ==
  Restored(program.op.outer, program.op.inputs,
    Restored(program.op.inner, program.op.inputs, flags))

\* An operation throws: every program on the stack is left, and the retentions put
\* their flags back, the innermost first, so that a tensor's outermost retention counts.
Outermost(t) ==
  CHOOSE d \in 1 .. Depth : /\ t \in RetainedBy(stack[d])
                           /\ \A e \in 1 .. Depth : t \in RetainedBy(stack[e]) => d <= e

Unwound ==
  [t \in Tensors |->
     IF \E d \in 1 .. Depth : t \in RetainedBy(stack[d])
     THEN Leaving(stack[Outermost(t)], retain)[t] ELSE retain[t]]

Throw ==
  /\ Depth > 0
  /\ stack' = << >>
  /\ held' = held
  /\ Flags(Unwound, freed)

TensorsInit ==
  /\ stack = << >>
  /\ held = {1}
  /\ retain = [t \in Tensors |-> t \in {1, Constant} \cup Slots]
  /\ freed = {}

TensorsNext ==
  \/ \E t \in held : Submit(t) \/ Release(t)
  \/ Compute \/ LoadCached \/ ReplayTrace
  \/ \E t \in Tensors : Deallocate(t) \/ Finish(t)
  \/ /\ Running
     /\ \/ \E inputs \in Arguments(LoopInputs), outs \in 0 .. LoopInputs : StartLoop(inputs, outs)
        \/ \E inputs \in Arguments(CaseInputs) : StartCase(inputs)
        \/ \E k \in 1 .. 2 : \E outputs \in Arguments(k) : ReturnBranch(outputs)
        \/ /\ Depth > 1 /\ Top.what = "body"
           /\ \E results \in Arguments(Caller.op.outs) :
                ReturnBody(results)
  \/ Execute("condition") \/ Execute("body")
  \/ ReturnCondition \/ EndLoop \/ Throw

TensorsSpec == TensorsInit /\ [][TensorsNext]_tensorVars

-----------------------------------------------------------------------------
\* Nothing that can still be used has lost its buffer: the names of every program
\* on the stack, the values of loops under way, the framework's tensors, the
\* constant cache and the slots (retainRepeatedTensors: "the first deallocation
\* would free the buffer the other results still name").
NothingNamedIsFreed == freed = {}

\* A replay writes its output slot while no program, no loop and not the framework
\* refers to what the last replay left there ("would otherwise read the sum slot as
\* b after the next iteration overwrote it").
ReplaysOverwriteNothing ==
  [][\A d \in 1 .. Depth :
       d <= Len(stack') /\ stack'[d].traced /\ ~stack[d].traced
         => Slot(d) \notin held \cup UNION {NamedBy(stack[e]) : e \in 1 .. Depth}]_tensorVars

\* The d-th program leaves its loop or case, by its end or by an exception.
Leaves(d) == stack[d].op # NoOp /\ (Len(stack') < d \/ stack'[d].op = NoOp)

\* What it retained is again retained or not as before, but for what got a further name.
AsBefore(d) ==
  LET outer == stack[d].op.outer IN
  \A i \in DOMAIN outer.tensors :
    LET t == outer.tensors[i] IN
      \/ retain'[t] = outer.flags[i]
      \/ t \notin Handles'
      \/ Len(stack') >= d /\ Copies(t, stack'[d].pool) > Copies(t, stack[d].pool)

\* Whatever loop or case is left, by its end or by an exception that leaves the whole
\* stack, its retention leaves no trace: the tensors it retained are again retained or
\* not as they were before it, but for the ones that got a further name as its results.
FlagsComeBack ==
  [][\A d \in 1 .. Depth : Leaves(d) /\ (\A e \in 1 .. d - 1 : ~Leaves(e)) => AsBefore(d)]_tensorVars
=============================================================================
