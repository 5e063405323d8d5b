----------------------------- MODULE RuntimeRoot -----------------------------
(***************************************************************************)
(* How the processes of a machine share one extracted copy of tt-metal's   *)
(* runtime files (cpp/tt_metal_runtime_root.cc).  A process extracts the   *)
(* embedded archive into a common directory, file after file, under a      *)
(* file lock, and then leaves a marker; a process that finds the marker    *)
(* uses the files as they are.  Threads of a process share one call_once.  *)
(* A process may die anywhere; the kernel then drops its file lock.        *)
(***************************************************************************)
EXTENDS Integers, FiniteSets

CONSTANTS
  Processes,
  Threads,    \* threads that need the runtime
  ProcessOf,  \* ProcessOf[t]: the process of thread t
  Files,      \* number of entries of the archive
  MayFail,    \* whether opening or extracting an entry may fail (a full disk)
  NoOne

ASSUME RuntimeRootAssumption ==
  /\ ProcessOf \in [Threads -> Processes]
  /\ Files \in Nat \ {0}
  /\ MayFail \in BOOLEAN
  /\ NoOne \notin Processes

VARIABLES
  file,    \* file[i]: "absent", "partial" while it is written, or "whole"
  marker,  \* whether root/.extracted exists
  lock,    \* the process that holds root.lock
  once,    \* once[p]: the once_flag, "unset", "running" or "done"
  runner,  \* runner[p]: how far the thread inside call_once is
  next,    \* next[p]: the archive entry p extracts next
  thread   \* thread[t]: "new", "calling", "returned", "thrown" or "dead"

vars == <<file, marker, lock, once, runner, next, thread>>

Entries == 1 .. Files

Init ==
  /\ file = [i \in Entries |-> "absent"]
  /\ marker = FALSE
  /\ lock = NoOne
  /\ once = [p \in Processes |-> "unset"]
  /\ runner = [p \in Processes |-> "none"]
  /\ next = [p \in Processes |-> 1]
  /\ thread = [t \in Threads |-> "new"]

-----------------------------------------------------------------------------
\* EnsureTtMetalRuntimeReady: the first thread runs the initialisation.
Enter(t) ==
  LET p == ProcessOf[t]
  IN /\ thread[t] = "new"
     /\ once[p] = "unset"
     /\ once' = [once EXCEPT ![p] = "running"]
     /\ runner' = [runner EXCEPT ![p] = "lock"]
     /\ thread' = [thread EXCEPT ![t] = "calling"]
     /\ UNCHANGED <<file, marker, lock, next>>

\* A thread that comes later, or waited for the first one.
Pass(t) ==
  /\ thread[t] = "new"
  /\ once[ProcessOf[t]] = "done"
  /\ thread' = [thread EXCEPT ![t] = "returned"]
  /\ UNCHANGED <<file, marker, lock, once, runner, next>>

\* flock(LOCK_EX).
TakeLock(p) ==
  /\ runner[p] = "lock"
  /\ lock = NoOne
  /\ lock' = p
  /\ runner' = [runner EXCEPT ![p] = "check"]
  /\ UNCHANGED <<file, marker, once, next, thread>>

\* exists(marker) decides whether to extract, from the first entry on.
CheckMarker(p) ==
  /\ runner[p] = "check"
  /\ runner' = [runner EXCEPT ![p] = IF marker THEN "unlock" ELSE "extract"]
  /\ next' = [next EXCEPT ![p] = 1]
  /\ UNCHANGED <<file, marker, lock, once, thread>>

\* archive_read_extract begins to write an entry, over whatever is there.
OpenEntry(p) ==
  /\ runner[p] = "extract"
  /\ file' = [file EXCEPT ![next[p]] = "partial"]
  /\ runner' = [runner EXCEPT ![p] = "write"]
  /\ UNCHANGED <<marker, lock, once, next, thread>>

CloseEntry(p) ==
  /\ runner[p] = "write"
  /\ file' = [file EXCEPT ![next[p]] = "whole"]
  /\ runner' = [runner EXCEPT ![p] = IF next[p] = Files THEN "mark" ELSE "extract"]
  /\ next' = [next EXCEPT ![p] = IF @ = Files THEN @ ELSE @ + 1]
  /\ UNCHANGED <<marker, lock, once, thread>>

CreateMarker(p) ==
  /\ runner[p] = "mark"
  /\ marker' = TRUE
  /\ runner' = [runner EXCEPT ![p] = "unlock"]
  /\ UNCHANGED <<file, lock, once, next, thread>>

\* ~ScopedFileLock, setenv, and call_once is over; its thread returns.
Finish(p) ==
  /\ runner[p] = "unlock"
  /\ lock' = NoOne
  /\ once' = [once EXCEPT ![p] = "done"]
  /\ runner' = [runner EXCEPT ![p] = "none"]
  /\ thread' = [t \in Threads |->
       IF ProcessOf[t] = p /\ thread[t] = "calling" THEN "returned" ELSE thread[t]]
  /\ UNCHANGED <<file, marker, next>>

\* Mutant: a failure to extract an entry is noticed after the marker is made.
FailAfterMarking(p) ==
  /\ MayFail
  /\ runner[p] \in {"extract", "write", "mark"}
  /\ marker' = TRUE
  /\ lock' = NoOne
  /\ once' = [once EXCEPT ![p] = "unset"]
  /\ runner' = [runner EXCEPT ![p] = "none"]
  /\ thread' = [t \in Threads |->
       IF ProcessOf[t] = p /\ thread[t] = "calling" THEN "thrown" ELSE thread[t]]
  /\ UNCHANGED <<file, next>>

\* An exception leaves MaterializeEmbeddedRuntimeRoot: the lock is dropped, the
\* once_flag stays unset and the next thread tries again.
Fail(p) ==
  /\ MayFail
  /\ runner[p] \in {"lock", "extract", "write", "mark"}
  /\ lock' = IF lock = p THEN NoOne ELSE lock
  /\ once' = [once EXCEPT ![p] = "unset"]
  /\ runner' = [runner EXCEPT ![p] = "none"]
  /\ thread' = [t \in Threads |->
       IF ProcessOf[t] = p /\ thread[t] = "calling" THEN "thrown" ELSE thread[t]]
  /\ UNCHANGED <<file, marker, next>>

\* Mutant: the lock is a file that outlives its process.
DieLocked(p) ==
  /\ once[p] # "dead"
  /\ once' = [once EXCEPT ![p] = "dead"]
  /\ runner' = [runner EXCEPT ![p] = "none"]
  /\ thread' = [t \in Threads |-> IF ProcessOf[t] = p THEN "dead" ELSE thread[t]]
  /\ UNCHANGED <<file, marker, lock, next>>

\* The process dies; its lock goes with its file descriptors.
Die(p) ==
  /\ once[p] # "dead"
  /\ once' = [once EXCEPT ![p] = "dead"]
  /\ lock' = IF lock = p THEN NoOne ELSE lock
  /\ runner' = [runner EXCEPT ![p] = "none"]
  /\ thread' = [t \in Threads |-> IF ProcessOf[t] = p THEN "dead" ELSE thread[t]]
  /\ UNCHANGED <<file, marker, next>>

-----------------------------------------------------------------------------
Step(p) ==
  \/ TakeLock(p) \/ CheckMarker(p) \/ OpenEntry(p) \/ CloseEntry(p)
  \/ CreateMarker(p) \/ Finish(p)

Next ==
  \/ \E t \in Threads : Enter(t) \/ Pass(t)
  \/ \E p \in Processes : Step(p) \/ Fail(p) \/ Die(p)

Spec == Init /\ [][Next]_vars

FairSpec ==
  /\ Spec
  /\ \A t \in Threads : WF_vars(Enter(t) \/ Pass(t))
  /\ \A p \in Processes : WF_vars(Step(p))

-----------------------------------------------------------------------------
\* The values the variables take: next stays within the archive when the last entry is
\* closed and when an extraction starts over.
TypeOK ==
  /\ file \in [Entries -> {"absent", "partial", "whole"}]
  /\ marker \in BOOLEAN
  /\ lock \in Processes \cup {NoOne}
  /\ once \in [Processes -> {"unset", "running", "done", "dead"}]
  /\ runner \in [Processes -> {"none", "lock", "check", "extract", "write", "mark", "unlock"}]
  /\ next \in [Processes -> Entries]
  /\ thread \in [Threads -> {"new", "calling", "returned", "thrown", "dead"}]

Complete == \A i \in Entries : file[i] = "whole"

\* A thread that got through EnsureTtMetalRuntimeReady finds every file complete,
\* for as long as it runs and whatever other processes do: extract, fail or die
\* halfway ("instead of rewriting files that a running process may be reading").
ReadyMeansComplete ==
  \A t \in Threads : thread[t] = "returned" => Complete

\* The archive is written by one process at a time.
OneExtracts ==
  \A p, q \in Processes :
    runner[p] \in {"extract", "write", "mark"} /\ runner[q] \in {"extract", "write", "mark"}
      => p = q

\* Once the files are complete and marked nobody writes them again.
MarkedIsFinal == [][marker => marker' /\ file' = file]_vars

\* A thread gets through, throws or dies with its process: whoever dies holding
\* the lock, the others go on.
EveryThreadGetsThrough ==
  \A t \in Threads : thread[t] \in {"new", "calling"} ~> thread[t] \in {"returned", "thrown", "dead"}
=============================================================================
