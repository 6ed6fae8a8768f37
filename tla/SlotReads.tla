------------------------------ MODULE SlotReads ------------------------------
(***************************************************************************)
(* The two ways an expert gets into its slot, side by side: through the    *)
(* latch and a reader pool (SlotLatch), or through the expert and slice    *)
(* executors (SliceReads).  ExpertCache settles which one when it is made:  *)
(* `path` never changes.  What a fetch and the release of the slab may      *)
(* expect of a read is the same on both, and is stated here.                *)
(***************************************************************************)
EXTENDS Integers, Sequences, FiniteSets

CONSTANTS
  Reads, Guesses, Parts, Workers, MLX, Nobody, Builds, PartsFail, PushesFail,
  Slices, Inline, Readers, Slicers, SlicesFail

VARIABLES
  path,   \* "latch" or "slices"
  build, lock, mlx, current, unsent, queue, worker, left, exc, fut, landed, writing,
  at, slice, jobs, tasks, slab

latch  == <<build, lock, mlx, current, unsent, queue, worker, left, exc, fut, landed, writing>>
slices == <<at, slice, jobs, tasks, slab>>
vars   == <<path, latch, slices>>

L == INSTANCE SlotLatch
S == INSTANCE SliceReads

ASSUME ReadsAssumption == L!LatchAssumption /\ S!SliceAssumption

\* _make_read_pool, and a layout without a read plan.
Init ==
  /\ path \in {"latch", "slices"}
  /\ L!Init
  /\ S!Init

ByLatch  == path = "latch" /\ L!Next /\ UNCHANGED <<path, slices>>
BySlices == path = "slices" /\ S!Next /\ UNCHANGED <<path, latch>>

Next == ByLatch \/ BySlices

Spec == Init /\ [][Next]_vars

\* The path that is not used has nothing to do, so its fairness asks nothing.
FairSpec == Spec /\ L!Fairness /\ S!Fairness

(***************************************************************************)
(* Properties.                                                             *)
(***************************************************************************)
\* Three ways to know that nobody writes into a slot: the Future of its read has
\* resolved, also with a failure (_SlotLatch: "later components still count
\* down"); the slab's memory has been handed back; the writer count that
\* check_slots looks at is zero.
NobodyWrites == L!ResolvedQuiet /\ L!FreedQuiet /\ L!WritersCounted

\* A read that resolved with a result has every component in its slot: a failed
\* one is never lost in the count, and none is still on its way.
ResultIsWhole == L!ResultIsWhole /\ S!ResultIsWhole

\* A Future is resolved once: a second set_result or set_exception would raise
\* on the reader thread, after the latch.
ResolvedOnce == L!ResolvedOnce

\* A read that is started and has not ended; a release that waits for reads.
InFlight(r) == IF path = "latch" THEN fut[r] = "pending"
                                 ELSE at[r] \in {"queued", "issue", "wait"}
Draining    == IF path = "latch" THEN mlx = "drain" ELSE slab = "drain"

\* Every read that is started resolves, with failing components, a failing
\* push, and slices that wait for threads (_submit_slab: "so fetch still
\* resolves instead of wedging the inflight table"; _read_expert_slab: "nested
\* waits inside one pool would deadlock it").
ReadsResolve == \A r \in Reads : InFlight(r) ~> ~InFlight(r)

\* The release of the slab terminates: it waits with the cache lock released.
DrainEnds == Draining ~> ~Draining
=============================================================================
