------------------------------ MODULE SlotLatch ------------------------------
(***************************************************************************)
(* How one slot read of cache.py ends: an expert's components are pushed   *)
(* onto a pool of reader threads as jobs, the jobs count down one latch    *)
(* (_SlotLatch), and the last one resolves the expert's Future, on which a *)
(* fetch, a prefetch callback or the release of the slab waits.            *)
(*                                                                         *)
(* The Python pool (_ReadPool) takes one job per component; the native     *)
(* pool (_native_read.c) takes one job for the whole expert.  The MLX      *)
(* thread pushes the jobs with the cache lock held.  `lock` is that lock;  *)
(* the latch's own lock covers one step, Count.  With slab verification (a  *)
(* debug mode) the cache also counts the writers of a slot.  Which pool a   *)
(* cache has, and whether it verifies, is settled when the cache is made:   *)
(* `build` never changes.                                                   *)
(*                                                                         *)
(* A read here is its Future: it can be used for another read once nobody  *)
(* refers to it.                                                           *)
(***************************************************************************)
EXTENDS Integers, Sequences, FiniteSets

CONSTANTS
  Reads,       \* the expert reads, one Future each
  Guesses,     \* those with a staging callback
  Parts,       \* the components of an expert, numbered in plan order
  Workers,     \* the threads of the pool
  MLX,         \* the thread that submits reads and releases the slab
  Nobody,      \* no thread, no read
  Builds,      \* the builds to look at: [native, verify : BOOLEAN]
  PartsFail,   \* a component read may raise
  PushesFail   \* submit_expert may raise

\* What SlotReads assumes of these constants.
LatchAssumption ==
  /\ IsFiniteSet(Parts) /\ Parts # {} /\ Parts \subseteq Nat
  /\ Guesses \subseteq Reads
  /\ MLX \notin Workers /\ Nobody \notin Workers \cup {MLX} \cup Reads
  /\ Builds \subseteq [native : BOOLEAN, verify : BOOLEAN]
  /\ {PartsFail, PushesFail} \subseteq BOOLEAN

VARIABLES
  build,    \* the pool in use, and whether the cache verifies its slots
  lock,     \* who holds the cache lock
  mlx,      \* what the MLX thread is doing
  current,  \* the read it is submitting
  unsent,   \* the jobs of that read it still has to push
  queue,    \* the pool's queue of jobs, first in, first out
  worker,   \* what each reader thread is doing
  left,     \* _left, per read
  exc,      \* _exc, per read: a job has failed
  fut,      \* the state of each Future
  landed,   \* the components whose bytes are in the slot
  writing   \* _writing, per read

vars == <<build, lock, mlx, current, unsent, queue, worker, left, exc, fut, landed, writing>>

\* The jobs a read is pushed as; a job is a set of components.
Jobs == IF build.native THEN {Parts} ELSE {{p} : p \in Parts}

Stages == {"reading", "count", "quiet", "resolve", "callback"}
Idle   == [at |-> "idle", read |-> Nobody, job |-> {}, rest |-> {}, failed |-> FALSE]

\* A job has been pushed, or taken, and has not been counted down yet.
Pending(r, j) ==
  \/ current = r /\ j \in unsent
  \/ \E i \in 1..Len(queue) : queue[i] = <<r, j>>
  \/ \E w \in Workers : worker[w].read = r /\ worker[w].job = j
                        /\ worker[w].at \in {"reading", "count"}

Referred(r) == \E w \in Workers : worker[w].read = r

(***************************************************************************)
(* The MLX thread.                                                         *)
(***************************************************************************)
\* _submit_slab: the latch is made for all the jobs before any is pushed.
Submit(r) ==
  /\ mlx = "idle" /\ lock \in {Nobody, MLX} /\ fut[r] = "none"
  /\ mlx'     = "push"
  /\ lock'    = MLX
  /\ current' = r
  /\ unsent'  = Jobs
  /\ left'    = [left EXCEPT ![r] = Cardinality(Jobs)]
  /\ exc'     = [exc EXCEPT ![r] = FALSE]
  /\ fut'     = [fut EXCEPT ![r] = "pending"]
  /\ landed'  = [landed EXCEPT ![r] = {}]
  /\ writing' = [writing EXCEPT ![r] = IF build.verify THEN @ + 1 ELSE @]
  /\ UNCHANGED <<build, queue, worker>>

\* The next job onto the queue; after the last one the read is in _inflight.
Push(j) ==
  /\ mlx = "push" /\ j \in unsent
  /\ \A i \in unsent \ {j} : \A p \in j, q \in i : p < q
  /\ unsent'  = unsent \ {j}
  /\ queue'   = Append(queue, <<current, j>>)
  /\ mlx'     = IF unsent = {j} THEN "idle" ELSE "push"
  /\ current' = IF unsent = {j} THEN Nobody ELSE current
  /\ UNCHANGED <<build, lock, worker, left, exc, fut, landed, writing>>

\* Mutant: the exception of submit_expert is swallowed.
PushForgets ==
  /\ mlx = "push" /\ build.native /\ PushesFail
  /\ unsent'  = {}
  /\ mlx'     = "idle"
  /\ current' = Nobody
  /\ UNCHANGED <<build, lock, queue, worker, left, exc, fut, landed, writing>>

\* submit_expert raises: latch.done(e) on this thread, which still holds the
\* cache lock.  The count goes to zero.  When the cache verifies, on_done takes
\* that lock again: threading.Lock is not reentrant, and nothing follows.
PushFails ==
  /\ mlx = "push" /\ build.native /\ PushesFail
  /\ unsent' = {}
  /\ exc'  = [exc EXCEPT ![current] = TRUE]
  /\ left' = [left EXCEPT ![current] = @ - 1]
  /\ mlx'  = IF build.verify THEN "on_done" ELSE "resolve"
  /\ UNCHANGED <<build, lock, current, queue, worker, fut, landed, writing>>

\* set_exception on the MLX thread.
PushResolve ==
  /\ mlx = "resolve"
  /\ fut' = [fut EXCEPT ![current] = "failed"]
  /\ mlx' = "idle"
  /\ current' = Nobody
  /\ UNCHANGED <<build, lock, unsent, queue, worker, left, exc, landed, writing>>

\* Every read of this fetch or prefetch is submitted.
Unlock ==
  /\ mlx = "idle" /\ lock = MLX
  /\ lock' = Nobody
  /\ UNCHANGED <<build, mlx, current, unsent, queue, worker, left, exc, fut, landed, writing>>

\* Mutant: the drain waits with the cache lock held.
FreezeHoldsLock ==
  /\ mlx = "idle" /\ lock = Nobody
  /\ mlx'  = "drain"
  /\ lock' = MLX
  /\ UNCHANGED <<build, current, unsent, queue, worker, left, exc, fut, landed, writing>>

\* _release_slab: freeze under the lock, then wait with the lock released for
\* every Future in flight ...
Freeze ==
  /\ mlx = "idle" /\ lock = Nobody
  /\ mlx' = "drain"
  /\ UNCHANGED <<build, lock, current, unsent, queue, worker, left, exc, fut, landed, writing>>

\* Mutant: the memory goes without waiting for the reads in flight.
ReleaseAtOnce ==
  /\ mlx = "drain" /\ lock = Nobody
  /\ mlx' = "freed"
  /\ UNCHANGED <<build, lock, current, unsent, queue, worker, left, exc, fut, landed, writing>>

\* ... and hand the memory back.
Release ==
  /\ mlx = "drain" /\ lock = Nobody
  /\ \A r \in Reads : fut[r] # "pending"
  /\ mlx' = "freed"
  /\ UNCHANGED <<build, lock, current, unsent, queue, worker, left, exc, fut, landed, writing>>

\* leave_prefill: new memory.
Rebuild ==
  /\ mlx = "freed" /\ lock = Nobody
  /\ mlx' = "idle"
  /\ UNCHANGED <<build, lock, current, unsent, queue, worker, left, exc, fut, landed, writing>>

\* A fetch takes the result, or nobody ever will: the Future is gone.
Drop(r) ==
  /\ mlx = "idle" /\ fut[r] \in {"ok", "failed"} /\ ~Referred(r)
  /\ fut' = [fut EXCEPT ![r] = "none"]
  /\ UNCHANGED <<build, lock, mlx, current, unsent, queue, worker, left, exc, landed, writing>>

(***************************************************************************)
(* A reader thread.                                                        *)
(***************************************************************************)
\* _run, worker_main: a job is taken off the queue.
Take(w) ==
  /\ worker[w] = Idle /\ queue # <<>>
  /\ queue'  = Tail(queue)
  /\ worker' = [worker EXCEPT ![w] =
       [at |-> "reading", read |-> Head(queue)[1], job |-> Head(queue)[2],
        rest |-> Head(queue)[2], failed |-> FALSE]]
  /\ UNCHANGED <<build, lock, mlx, current, unsent, left, exc, fut, landed, writing>>

\* A component is in place; after the last one latch.done() is next.
ReadPart(w, p) ==
  LET me == worker[w]
  IN /\ me.at = "reading" /\ p \in me.rest /\ \A q \in me.rest : p <= q
     /\ landed' = [landed EXCEPT ![me.read] = @ \cup {p}]
     /\ worker' = [worker EXCEPT ![w].rest = @ \ {p},
                                 ![w].at = IF me.rest = {p} THEN "count" ELSE "reading"]
     /\ UNCHANGED <<build, lock, mlx, current, unsent, queue, left, exc, fut, writing>>

\* pread raises: the rest of the job is left out and latch.done(e) is next.
PartFails(w) ==
  /\ PartsFail /\ worker[w].at = "reading"
  /\ worker' = [worker EXCEPT ![w].rest = {}, ![w].failed = TRUE, ![w].at = "count"]
  /\ UNCHANGED <<build, lock, mlx, current, unsent, queue, left, exc, fut, landed, writing>>

\* Mutant: the first failure resolves the Future at once.
CountFailsFast(w) ==
  LET r    == worker[w].read
      last == left[r] <= 1 \/ worker[w].failed
  IN /\ worker[w].at = "count"
     /\ exc'  = [exc EXCEPT ![r] = @ \/ worker[w].failed]
     /\ left' = [left EXCEPT ![r] = @ - 1]
     /\ worker' = [worker EXCEPT ![w] =
          IF ~last THEN Idle
          ELSE [@ EXCEPT !.at = IF build.verify THEN "quiet" ELSE "resolve"]]
     /\ UNCHANGED <<build, lock, mlx, current, unsent, queue, fut, landed, writing>>

\* done(), the part under the latch's lock: remember the failure and count
\* down; whoever counts the last job goes on to resolve the Future.
Count(w) ==
  LET r    == worker[w].read
      last == left[r] <= 1
  IN /\ worker[w].at = "count"
     /\ exc'  = [exc EXCEPT ![r] = @ \/ worker[w].failed]
     /\ left' = [left EXCEPT ![r] = @ - 1]
     /\ worker' = [worker EXCEPT ![w] =
          IF ~last THEN Idle
          ELSE [@ EXCEPT !.at = IF build.verify THEN "quiet" ELSE "resolve"]]
     /\ UNCHANGED <<build, lock, mlx, current, unsent, queue, fut, landed, writing>>

\* on_done takes the cache lock and drops it again.
OnDone(w) ==
  /\ worker[w].at = "quiet" /\ lock = Nobody
  /\ writing' = [writing EXCEPT ![worker[w].read] = @ - 1]
  /\ worker'  = [worker EXCEPT ![w].at = "resolve"]
  /\ UNCHANGED <<build, lock, mlx, current, unsent, queue, left, exc, fut, landed>>

\* set_result or set_exception, outside the latch's lock.  A guess's callback
\* runs next on this thread.
Resolve(w) ==
  LET r == worker[w].read
  IN /\ worker[w].at = "resolve"
     /\ fut' = [fut EXCEPT ![r] = IF exc[r] THEN "failed" ELSE "ok"]
     /\ worker' = [worker EXCEPT ![w] =
          IF r \in Guesses THEN [@ EXCEPT !.at = "callback"] ELSE Idle]
     /\ UNCHANGED <<build, lock, mlx, current, unsent, queue, left, exc, landed, writing>>

\* _attach_staging's callback takes the cache lock and drops it again.
Callback(w) ==
  /\ worker[w].at = "callback" /\ lock = Nobody
  /\ worker' = [worker EXCEPT ![w] = Idle]
  /\ UNCHANGED <<build, lock, mlx, current, unsent, queue, left, exc, fut, landed, writing>>

Init ==
  /\ build \in Builds
  /\ lock = Nobody /\ mlx = "idle" /\ current = Nobody
  /\ unsent = {} /\ queue = <<>>
  /\ worker = [w \in Workers |-> Idle]
  /\ left = [r \in Reads |-> 0] /\ exc = [r \in Reads |-> FALSE]
  /\ fut = [r \in Reads |-> "none"]
  /\ landed = [r \in Reads |-> {}]
  /\ writing = [r \in Reads |-> 0]

\* What the MLX thread does because the model asks for it ...
Ask == (\E r \in Reads : Submit(r) \/ Drop(r)) \/ Freeze \/ Rebuild

\* ... and what it does to get that done.
Go == (\E j \in Jobs : Push(j)) \/ PushFails \/ PushResolve \/ Unlock \/ Release

Reader(w) ==
  \/ Take(w)
  \/ \E p \in Parts : ReadPart(w, p)
  \/ PartFails(w) \/ Count(w) \/ OnDone(w) \/ Resolve(w) \/ Callback(w)

Next == Ask \/ Go \/ \E w \in Workers : Reader(w)

Spec == Init /\ [][Next]_vars

\* The MLX thread finishes what it started and reader threads keep running.
\* A thread that finds the cache lock free again and again gets it (strong
\* fairness).
Fairness ==
  /\ WF_vars(Go)
  /\ \A w \in Workers : WF_vars(Reader(w)) /\ SF_vars(OnDone(w) \/ Callback(w))

FairSpec == Spec /\ Fairness

(***************************************************************************)
(* Properties.                                                             *)
(***************************************************************************)
TypeOK ==
  /\ build \in Builds
  /\ lock \in {Nobody, MLX}
  /\ mlx \in {"idle", "push", "on_done", "resolve", "drain", "freed"}
  /\ current \in Reads \cup {Nobody}
  /\ unsent \subseteq Jobs
  /\ queue \in Seq(Reads \X Jobs)
  /\ \A w \in Workers :
       \/ worker[w] = Idle
       \/ worker[w] \in [at : Stages, read : Reads, job : Jobs, rest : SUBSET Parts,
                         failed : BOOLEAN]
  /\ left \in [Reads -> Nat]
  /\ exc \in [Reads -> BOOLEAN]
  /\ fut \in [Reads -> {"none", "pending", "ok", "failed"}]
  /\ landed \in [Reads -> SUBSET Parts]
  /\ writing \in [Reads -> Nat]

\* Once a Future has resolved, also with a failure, no component of its read is
\* being read or will be: the slot may be read by others or handed out again
\* (_SlotLatch: "later components still count down").
ResolvedQuiet ==
  \A r \in Reads : fut[r] # "pending" => \A j \in Jobs : ~Pending(r, j)

\* A Future that resolved with a result stands for an expert that is there
\* whole; one failed component is never lost in the count.
ResultIsWhole ==
  \A r \in Reads : fut[r] = "ok" => landed[r] = Parts

\* When the slab's memory has been handed back, no thread writes into it.
FreedQuiet ==
  mlx = "freed" => \A w \in Workers : worker[w].at # "reading"

\* The writer count check_slots looks at is right when it matters: positive
\* while a component is being read, zero when the Future has resolved.
WritersCounted ==
  build.verify =>
    /\ \A w \in Workers : worker[w].at = "reading" => writing[worker[w].read] > 0
    /\ \A r \in Reads : fut[r] # "pending" => writing[r] = 0

\* A Future is resolved once: a second set_result or set_exception would raise
\* on the reader thread, after the latch.
ResolvedOnce ==
  [][\A w \in Workers : Resolve(w) => fut[worker[w].read] = "pending"]_vars

\* Every read that is started resolves, so a fetch, or the release of the slab,
\* that waits for it goes on (_SlotLatch: "so a failed read cannot wedge a
\* fetch"; _submit_slab: "so fetch still resolves instead of wedging the
\* inflight table").
ReadsResolve == \A r \in Reads : (fut[r] = "pending") ~> (fut[r] \in {"ok", "failed"})

\* The release of the slab terminates: it waits with the lock released.
DrainEnds == (mlx = "drain") ~> (mlx = "freed")

=============================================================================
