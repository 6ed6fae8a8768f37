------------------------------ MODULE SliceReads ------------------------------
(***************************************************************************)
(* The other way a slot read of cache.py is done, when there is no read    *)
(* plan or no latch pool: an expert-read thread (ThreadPoolExecutor) runs  *)
(* _read_slab_inner or _read_slab_legacy, which hands slices of the expert *)
(* to a second executor and waits for them in order.  An exception ends    *)
(* the read at once, whatever the slices still do.                         *)
(***************************************************************************)
EXTENDS Integers, Sequences, FiniteSets

CONSTANTS
  Reads,      \* the expert reads in flight
  Slices,     \* the slices of an expert, numbered in the order they are handed out
  Inline,     \* those small enough to be read on the expert-read thread
  Readers,    \* expert-read threads (read_threads)
  Slicers,    \* slice threads (read_threads again, in an executor of their own)
  SlicesFail  \* a pread may raise

\* What SlotReads assumes of these constants.
SliceAssumption ==
  /\ Slices \subseteq Nat /\ Inline \subseteq Slices
  /\ {Readers, Slicers} \subseteq Nat \ {0}
  /\ SlicesFail \in BOOLEAN

VARIABLES
  at,     \* each read: "none", "queued", "issue" (handing out slices), "wait",
          \* "ok", "failed"
  slice,  \* each slice: "none", "queued", "reading", "ok", "failed"
  jobs,   \* the queue of the expert executor: reads, first in, first out
  tasks,  \* the queue of the slice executor: <<read, slice>>
  slab    \* "on", "drain" (a release waits for the reads), "freed"

vars == <<at, slice, jobs, tasks, slab>>

Running(r) == at[r] \in {"issue", "wait"}
Busy(S)    == Cardinality({x \in Reads \X S : slice[x[1]][x[2]] = "reading"})
Set(r, p, v) == slice' = [slice EXCEPT ![r][p] = v]

\* A thread of the expert executor takes the read.
Begin(r) ==
  /\ jobs # <<>> /\ Head(jobs) = r
  /\ Cardinality({q \in Reads : Running(q)}) < Readers
  /\ jobs' = Tail(jobs)
  /\ at'   = [at EXCEPT ![r] = "issue"]
  /\ UNCHANGED <<slice, tasks, slab>>

\* The loop over the components: a large one is queued for the slice pool, a
\* small one is read here; nothing follows one that failed.
Issue(r, p) ==
  /\ at[r] = "issue" /\ slice[r][p] = "none"
  /\ \A q \in Slices : q < p => slice[r][q] # "none"
  /\ \A q \in Inline : slice[r][q] # "reading"
  /\ Set(r, p, IF p \in Inline THEN "reading" ELSE "queued")
  /\ tasks' = IF p \in Inline THEN tasks ELSE Append(tasks, <<r, p>>)
  /\ UNCHANGED <<at, jobs, slab>>

\* Every slice is handed out.
Issued(r) ==
  /\ at[r] = "issue"
  /\ \A p \in Slices : slice[r][p] # "none"
  /\ \A p \in Inline : slice[r][p] = "ok"
  /\ at' = [at EXCEPT ![r] = "wait"]
  /\ UNCHANGED <<slice, jobs, tasks, slab>>

\* Mutant: slices run on the expert-read threads.
TakeSliceOnePool(r, p) ==
  /\ tasks # <<>> /\ Head(tasks) = <<r, p>>
  /\ Busy(Slices \ Inline) + Cardinality({q \in Reads : Running(q)}) < Readers
  /\ tasks' = Tail(tasks)
  /\ Set(r, p, "reading")
  /\ UNCHANGED <<at, jobs, slab>>

\* A thread of the slice executor takes a slice; _read_expert_slab never waits
\* inside that executor.
TakeSlice(r, p) ==
  /\ tasks # <<>> /\ Head(tasks) = <<r, p>>
  /\ Busy(Slices \ Inline) < Slicers
  /\ tasks' = Tail(tasks)
  /\ Set(r, p, "reading")
  /\ UNCHANGED <<at, jobs, slab>>

SliceDone(r, p) ==
  /\ slice[r][p] = "reading"
  /\ Set(r, p, "ok")
  /\ UNCHANGED <<at, jobs, tasks, slab>>

\* A pread raises.  An inline one ends the read on the spot.
SliceFails(r, p) ==
  /\ SlicesFail /\ slice[r][p] = "reading"
  /\ Set(r, p, "failed")
  /\ at' = IF p \in Inline THEN [at EXCEPT ![r] = "failed"] ELSE at
  /\ UNCHANGED <<jobs, tasks, slab>>

\* Mutant: the first slice that is in ends the read.
EndAtFirst(r) ==
  /\ at[r] = "wait"
  /\ \E p \in Slices : slice[r][p] = "ok"
  /\ at' = [at EXCEPT ![r] = "ok"]
  /\ UNCHANGED <<slice, jobs, tasks, slab>>

\* j.result() for each slice: the read ends when all of them are in ...
EndOk(r) ==
  /\ at[r] = "wait"
  /\ \A p \in Slices : slice[r][p] = "ok"
  /\ at' = [at EXCEPT ![r] = "ok"]
  /\ UNCHANGED <<slice, jobs, tasks, slab>>

\* ... or at the first one that raises, whatever the ones after it still do.
EndFailed(r) ==
  /\ at[r] = "wait"
  /\ \E p \in Slices : /\ slice[r][p] = "failed"
                       /\ \A q \in Slices : q < p => slice[r][q] = "ok"
  /\ at' = [at EXCEPT ![r] = "failed"]
  /\ UNCHANGED <<slice, jobs, tasks, slab>>

\* _release_slab: wait for the Futures in flight, then hand the memory back.
Freeze ==
  /\ slab = "on"
  /\ slab' = "drain"
  /\ UNCHANGED <<at, slice, jobs, tasks>>

\* Mutant: the drain does not survive a read that failed.
ReleaseOnlyGood ==
  /\ slab = "drain"
  /\ \A r \in Reads : at[r] \in {"none", "ok"}
  /\ slab' = "freed"
  /\ UNCHANGED <<at, slice, jobs, tasks>>

Release ==
  /\ slab = "drain"
  /\ \A r \in Reads : at[r] \in {"none", "ok", "failed"}
  /\ slab' = "freed"
  /\ UNCHANGED <<at, slice, jobs, tasks>>

\* A read is submitted.  A finished one makes room for the next, which reuses
\* its identity once its slices are quiet; none starts while the slab is frozen
\* or gone.
Again(r) ==
  /\ slab = "on" /\ at[r] \in {"none", "ok", "failed"}
  /\ \A p \in Slices : slice[r][p] \notin {"queued", "reading"}
  /\ at'    = [at EXCEPT ![r] = "queued"]
  /\ slice' = [slice EXCEPT ![r] = [p \in Slices |-> "none"]]
  /\ jobs'  = Append(jobs, r)
  /\ UNCHANGED <<tasks, slab>>

\* leave_prefill: new memory.
Rebuild ==
  /\ slab = "freed"
  /\ slab' = "on"
  /\ UNCHANGED <<at, slice, jobs, tasks>>

Init ==
  /\ at = [r \in Reads |-> "none"]
  /\ slice = [r \in Reads |-> [p \in Slices |-> "none"]]
  /\ jobs = <<>> /\ tasks = <<>>
  /\ slab = "on"

Thread(r) ==
  \/ Begin(r) \/ Issued(r) \/ EndOk(r) \/ EndFailed(r)
  \/ \E p \in Slices : Issue(r, p) \/ TakeSlice(r, p) \/ SliceDone(r, p) \/ SliceFails(r, p)

Next ==
  \/ \E r \in Reads : Thread(r) \/ Again(r)
  \/ Freeze \/ Release \/ Rebuild

Spec == Init /\ [][Next]_vars

\* Executor threads keep running: each read in hand is carried on, its slices
\* included.  The executors' queues are first in, first out, so that is enough.
Fairness == WF_vars(Release) /\ \A r \in Reads : WF_vars(Thread(r))

FairSpec == Spec /\ Fairness

(***************************************************************************)
(* Properties.                                                             *)
(***************************************************************************)
TypeOK ==
  /\ at \in [Reads -> {"none", "queued", "issue", "wait", "ok", "failed"}]
  /\ slice \in [Reads -> [Slices -> {"none", "queued", "reading", "ok", "failed"}]]
  /\ jobs \in Seq(Reads) /\ tasks \in Seq(Reads \X Slices)
  /\ slab \in {"on", "drain", "freed"}

\* A read that ended well has all of its slices in place, and none of them is
\* still being written: the slot can be computed on.
ResultIsWhole ==
  \A r \in Reads : at[r] = "ok" => \A p \in Slices : slice[r][p] = "ok"

\* Nothing writes into memory that has been handed back (_release_slab: "a
\* failed read has nothing in flight either way").
FreedQuiet ==
  slab = "freed" => \A r \in Reads, p \in Slices : slice[r][p] \notin {"queued", "reading"}

\* Every read ends, though the threads that wait for slices fill one executor
\* and the slices queue for the other (_read_expert_slab: "nested waits inside
\* one pool would deadlock it").
ReadsEnd == \A r \in Reads : (at[r] = "queued") ~> (at[r] \in {"ok", "failed"})

\* The release of the slab terminates.
DrainEnds == (slab = "drain") ~> (slab = "freed")

=============================================================================
