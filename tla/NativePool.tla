----------------------------- MODULE NativePool -----------------------------
(* The native reader pool (_native_read.c): a ring buffer of jobs under one     *)
(* mutex, workers that read without the GIL and take it to call the latch, and  *)
(* the two ways a pool ends, shutdown() and the destructor of its capsule.      *)
(*                                                                              *)
(* What a job reads, and whether it fails, is SlotLatch's matter.  The Python    *)
(* threads are one process here: the GIL lets one of them run.                  *)
EXTENDS Integers, FiniteSets, Sequences

CONSTANTS
    Workers,    \* the worker threads
    Cap,        \* q_cap of a new pool (64)
    MaxJobs,    \* bound: jobs submitted
    DropsBusy,  \* TRUE: the last reference may go while jobs are left
    None

ASSUME PoolAssumption ==
    /\ IsFiniteSet(Workers) /\ Workers # {}
    /\ Cap \in Nat \ {0} /\ MaxJobs \in Nat /\ DropsBusy \in BOOLEAN
    /\ "python" \notin Workers /\ None \notin Workers \cup (1..MaxJobs)

VARIABLES
    q,         \* queue, q_cap, q_head, q_tail, q_len
    stop,      \* stop
    pc,        \* worker -> where it is in worker_main
    job,       \* worker -> its job
    gil,       \* who holds the GIL
    python,    \* what the Python side does
    next,      \* the next job's number
    finished   \* jobs whose latch has been called

vars == <<q, stop, pc, job, gil, python, next, finished>>

Jobs == 1..MaxJobs

Init ==
    /\ q = [cells |-> [i \in 0..(Cap - 1) |-> None], cap |-> Cap, head |-> 0, tail |-> 0, len |-> 0]
    /\ stop = FALSE
    /\ pc = [w \in Workers |-> "check"]
    /\ job = [w \in Workers |-> None]
    /\ gil = "python"
    /\ python = "running"
    /\ next = 1
    /\ finished = {}

(* ---------------------------------------------------------- the ring buffer *)

\* Mutant: the cells are copied as they lie, the head with them.
GrownAsItLies(r) ==
    [cells |-> [i \in 0..(2 * r.cap - 1) |-> IF i < r.cap THEN r.cells[i] ELSE None],
     cap |-> 2 * r.cap, head |-> 0, tail |-> r.len, len |-> r.len]

\* queue_push, full: twice the cells, laid out from the head.
Grown(r) ==
    [cells |-> [i \in 0..(2 * r.cap - 1) |-> IF i < r.len THEN r.cells[(r.head + i) % r.cap] ELSE None],
     cap |-> 2 * r.cap, head |-> 0, tail |-> r.len, len |-> r.len]

Pushed(r, j) ==
    LET g == IF r.len = r.cap THEN Grown(r) ELSE r
    IN  [g EXCEPT !.cells[g.tail] = j, !.tail = (@ + 1) % g.cap, !.len = @ + 1]

\* queue_pop.
Popped(r) == [r EXCEPT !.cells[r.head] = None, !.head = (@ + 1) % r.cap, !.len = @ - 1]

(* ------------------------------------------------------------------ workers *)

\* pthread_cond_signal wakes a worker, if one waits; pthread_cond_broadcast all.
Signalled ==
    LET asleep == {w \in Workers : pc[w] = "asleep"} IN
    IF asleep = {} THEN {pc} ELSE {[pc EXCEPT ![w] = "check"] : w \in asleep}

AllWoken == [w \in Workers |-> IF pc[w] = "asleep" THEN "check" ELSE pc[w]]

\* worker_main under the mutex: sleep, leave or take the oldest job.
Sleep(w) ==
    /\ pc[w] = "check" /\ q.len = 0 /\ ~stop
    /\ pc' = [pc EXCEPT ![w] = "asleep"]
    /\ UNCHANGED <<q, stop, job, gil, python, next, finished>>

\* Mutant: a worker leaves at the shut-down whatever is queued.
MayLeaveAtOnce == stop

\* A worker leaves at the shut-down once the queue is empty.
MayLeave == stop /\ q.len = 0

Leave(w) ==
    /\ pc[w] = "check" /\ MayLeave
    /\ pc' = [pc EXCEPT ![w] = "left"]
    /\ UNCHANGED <<q, stop, job, gil, python, next, finished>>

Take(w) ==
    /\ pc[w] = "check" /\ q.len > 0 /\ ~MayLeave
    /\ job' = [job EXCEPT ![w] = q.cells[q.head]]
    /\ q' = Popped(q)
    /\ pc' = [pc EXCEPT ![w] = "read"]
    /\ UNCHANGED <<stop, gil, python, next, finished>>

\* The preads of the job, without the GIL.
Read(w) ==
    /\ pc[w] = "read"
    /\ pc' = [pc EXCEPT ![w] = "done"]
    /\ UNCHANGED <<q, stop, job, gil, python, next, finished>>

\* finish_job: PyGILState_Ensure, latch.done, PyGILState_Release.
TakeGil(w) ==
    /\ pc[w] = "done" /\ gil = None
    /\ gil' = w
    /\ pc' = [pc EXCEPT ![w] = "call"]
    /\ UNCHANGED <<q, stop, job, python, next, finished>>

Finish(w) ==
    /\ pc[w] = "call"
    /\ gil' = None
    /\ finished' = finished \cup {job[w]}
    /\ job' = [job EXCEPT ![w] = None]
    /\ pc' = [pc EXCEPT ![w] = "check"]
    /\ UNCHANGED <<q, stop, python, next>>

(* --------------------------------------------------------------- Python side *)

\* submit_expert: the mutex is held for the push and the signal.
Submit ==
    /\ python = "running" /\ gil = "python" /\ next <= MaxJobs /\ ~stop
    /\ q' = Pushed(q, next)
    /\ pc' \in Signalled
    /\ next' = next + 1
    /\ UNCHANGED <<stop, job, gil, python, finished>>

\* The ring buffer is full and malloc fails: submit raises.
SubmitFails ==
    /\ python = "running" /\ gil = "python" /\ next <= MaxJobs /\ ~stop /\ q.len = q.cap
    /\ next' = next + 1
    /\ UNCHANGED <<q, stop, pc, job, gil, python, finished>>

\* The GIL changes hands between Python threads, and at every blocking call.
ReleaseGil ==
    /\ python = "running" /\ gil = "python"
    /\ gil' = None
    /\ UNCHANGED <<q, stop, pc, job, python, next, finished>>

ResumeGil ==
    /\ python = "running" /\ gil = None
    /\ gil' = "python"
    /\ UNCHANGED <<q, stop, pc, job, python, next, finished>>

\* Mutant: the workers are joined with the GIL held.
JoinsHoldingGil == "python"

\* Py_BEGIN_ALLOW_THREADS around the joins of shutdown.
JoinsWith == None

Shutdown ==
    /\ python = "running" /\ gil = "python"
    /\ stop' = TRUE
    /\ pc' = AllWoken
    /\ gil' = JoinsWith
    /\ python' = "joining"
    /\ UNCHANGED <<q, job, next, finished>>

Busy == q.len > 0 \/ \E w \in Workers : pc[w] \in {"read", "done", "call"}

\* pool_dealloc, from the destructor of the capsule: the GIL stays where it is.
Dropped ==
    /\ python = "running" /\ gil = "python"
    /\ Busy => DropsBusy
    /\ stop' = TRUE
    /\ pc' = AllWoken
    /\ python' = "joining"
    /\ UNCHANGED <<q, job, gil, next, finished>>

Joined ==
    /\ python = "joining" /\ \A w \in Workers : pc[w] = "left"
    /\ gil \in {None, "python"}
    /\ gil' = "python"
    /\ python' = "joined"
    /\ UNCHANGED <<q, stop, pc, job, next, finished>>

Work(w) == Sleep(w) \/ Leave(w) \/ Take(w) \/ Read(w)

Next ==
    \/ \E w \in Workers : Work(w) \/ TakeGil(w) \/ Finish(w)
    \/ Submit \/ SubmitFails \/ ReleaseGil \/ ResumeGil \/ Shutdown \/ Dropped \/ Joined

Spec == Init /\ [][Next]_vars

\* Threads run; the interpreter makes a thread give the GIL up, and every
\* thread that asks for it gets it in turn.
FairSpec ==
    /\ Spec
    /\ \A w \in Workers : WF_vars(Work(w)) /\ SF_vars(TakeGil(w)) /\ WF_vars(Finish(w))
    /\ WF_vars(ReleaseGil) /\ WF_vars(Joined)

(* --------------------------------------------------------------- properties *)

\* The queue as a sequence.
Queued == [i \in 1..q.len |-> q.cells[(q.head + i - 1) % q.cap]]

Running == {job[w] : w \in Workers} \ {None}

Q == INSTANCE JobQueue WITH waiting <- Queued, running <- Running, open <- ~stop

\* The ring buffer is a queue: through wrapping round and growing while it is
\* wrapped, jobs start in the order they were submitted in, each one once.
ImplementsQueue == Q!Spec

\* A job that was accepted is finished, whether it was waiting, being read or at
\* the GIL when the pool was told to stop: no Future is left unresolved.
JobsFinish == \A j \in Jobs : (j \in Running \/ \E i \in 1..q.len : Queued[i] = j) ~> j \in finished

\* A shut-down comes to its end: no worker that needs the GIL is waited for by
\* a thread that holds it.
StopEnds == stop ~> python = "joined"
=============================================================================
