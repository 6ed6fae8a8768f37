--------------------------- MODULE SlotReadsProofs ---------------------------
(* Proofs about SlotReads: for any number of reads in flight, components and   *)
(* threads, a read that ended well is whole, and nobody writes into a slot      *)
(* whose read has ended.                                                        *)
EXTENDS SlotReads, SequencesExt, FunctionTheorems, FiniteSetTheorems, SequenceTheorems, TLAPS

-----------------------------------------------------------------------------
(* The latch path.                                                            *)

\* Jobs that are not counted down yet: <<read, job>>, at one of three places.
Unsent    == {<<current, j>> : j \in unsent}
Queued    == ToSet(queue)
Counting(w) == worker[w].at \in {"reading", "count"}
HeldBy(w) == <<worker[w].read, worker[w].job>>
Held      == {HeldBy(w) : w \in {v \in Workers : Counting(v)}}
Out       == Unsent \cup Queued \cup Held

\* The jobs of a read that are.
Open(r) == {j \in L!Jobs : <<r, j>> \in Out}

\* The thread that is about to resolve the read.
Ending(w) == worker[w].at \in {"quiet", "resolve"}

WorkerStates ==
  [at : L!Stages \cup {"idle"}, read : Reads \cup {Nobody}, job : SUBSET Parts,
   rest : SUBSET Parts, failed : BOOLEAN]

LatchTypes ==
  /\ build \in Builds
  /\ mlx \in {"idle", "push", "on_done", "resolve", "drain", "freed"}
  /\ current \in Reads \cup {Nobody}
  /\ unsent \subseteq L!Jobs
  /\ queue \in Seq(Reads \X L!Jobs)
  /\ worker \in [Workers -> WorkerStates]
  /\ \A w \in Workers : worker[w].at # "idle" => worker[w].read \in Reads /\ worker[w].job \in L!Jobs
  /\ left \in [Reads -> Int]
  /\ exc \in [Reads -> BOOLEAN]
  /\ fut \in [Reads -> {"none", "pending", "ok", "failed"}]
  /\ landed \in [Reads -> SUBSET Parts]
  /\ writing \in [Reads -> Int]

\* A job is at one place.
OnePlace ==
  /\ Unsent \cap Queued = {} /\ Unsent \cap Held = {} /\ Queued \cap Held = {}
  /\ IsInjective(queue)
  /\ \A v, w \in Workers : v # w /\ Counting(v) /\ Counting(w) => HeldBy(v) # HeldBy(w)

\* What the MLX thread is at.
Pushing ==
  /\ mlx \notin {"push", "on_done", "resolve"} => current = Nobody
  /\ mlx # "push" => unsent = {}
  /\ mlx \in {"push", "on_done", "resolve"} => current \in Reads /\ fut[current] = "pending"
  /\ mlx = "push" => unsent # {}
  /\ mlx \in {"on_done", "resolve"} =>
       /\ Open(current) = {} /\ exc[current]
       /\ \A w \in Workers : Ending(w) => worker[w].read # current
  /\ mlx = "freed" => \A r \in Reads : fut[r] # "pending"

\* The latch counts the jobs that are not counted down, and one thread ends a read.
Counted ==
  /\ \A r \in Reads : fut[r] = "pending" => left[r] = Cardinality(Open(r))
  /\ \A r \in Reads : fut[r] # "pending" => Open(r) = {}
  /\ \A w \in Workers : Ending(w) => fut[worker[w].read] = "pending" /\ Open(worker[w].read) = {}
  /\ \A v, w \in Workers : v # w /\ Ending(v) /\ Ending(w) => worker[v].read # worker[w].read

\* Components land, or the failure is remembered.
Landing(w) ==
  /\ worker[w].at = "reading" => /\ worker[w].rest \subseteq worker[w].job
                                 /\ worker[w].job \ worker[w].rest \subseteq landed[worker[w].read]
                                 /\ ~worker[w].failed
  /\ worker[w].at = "count" => worker[w].failed \/ worker[w].job \subseteq landed[worker[w].read]

Landed ==
  /\ \A w \in Workers : Landing(w)
  /\ \A r \in Reads : fut[r] = "pending" /\ ~exc[r] =>
       \A j \in L!Jobs : j \notin Open(r) => j \subseteq landed[r]
  /\ \A r \in Reads : fut[r] = "ok" => landed[r] = Parts

\* The writer count is one until on_done.
Closing(r) == \E w \in Workers : worker[w].at = "resolve" /\ worker[w].read = r

Writers ==
  build.verify =>
    /\ mlx # "resolve"
    /\ \A r \in Reads :
         writing[r] = IF fut[r] = "pending" /\ ~Closing(r) THEN 1 ELSE 0

LatchInv == LatchTypes /\ OnePlace /\ Pushing /\ Counted /\ Landed /\ Writers

-----------------------------------------------------------------------------
(* The jobs of a read are finitely many, and not none.                        *)

LEMMA SameCounting ==
  \A X : (L!IsFiniteSet(X) <=> IsFiniteSet(X)) /\ L!Cardinality(X) = Cardinality(X)
<1>1. \A X : L!IsFiniteSet(X) <=> IsFiniteSet(X)
  BY DEF L!IsFiniteSet, IsFiniteSet
<1>2. \A X : L!Cardinality(X) = Cardinality(X)
  BY DEF L!Cardinality, Cardinality
<1> QED
  BY <1>1, <1>2

LEMMA JobsFinite == IsFiniteSet(L!Jobs) /\ L!Jobs # {}
<1>1. IsFiniteSet(Parts) /\ Parts # {}
  BY ReadsAssumption, SameCounting DEF L!LatchAssumption
<1>2. CASE build.native
  BY <1>2, FS_Singleton DEF L!Jobs
<1>3. CASE ~build.native
  <2> DEFINE T == {{p} : p \in Parts}
             f == [p \in Parts |-> {p}]
  <2>1. f \in Surjection(Parts, T)
    BY DEF Surjection
  <2>2. IsFiniteSet(T)
    BY <1>1, <2>1, FS_Surjection
  <2> QED
    BY <1>1, <1>3, <2>2 DEF L!Jobs
<1> QED
  BY <1>2, <1>3

LEMMA JobsCover ==
  /\ \A j \in L!Jobs : j \subseteq Parts
  /\ \A p \in Parts : \E j \in L!Jobs : p \in j
<1>1. CASE build.native
  BY <1>1 DEF L!Jobs
<1>2. CASE ~build.native
  <2>1. L!Jobs = {{p} : p \in Parts}
    BY <1>2 DEF L!Jobs
  <2>2. ASSUME NEW j \in L!Jobs PROVE j \subseteq Parts
    <3>1. PICK p \in Parts : j = {p}
      BY <2>1
    <3> QED
      BY <3>1
  <2>3. ASSUME NEW p \in Parts PROVE \E j \in L!Jobs : p \in j
    <3>1. {p} \in L!Jobs /\ p \in {p}
      BY <2>1
    <3> QED
      BY <3>1
  <2> QED
    BY <2>2, <2>3
<1> QED
  BY <1>1, <1>2

LEMMA JobsKept == build' = build => L!Jobs' = L!Jobs
  BY DEF L!Jobs

LEMMA OpenFinite ==
  ASSUME NEW r
  PROVE  IsFiniteSet(Open(r)) /\ Cardinality(Open(r)) \in Nat
<1>1. Open(r) \subseteq L!Jobs
  BY DEF Open
<1> QED
  BY <1>1, JobsFinite, FS_Subset, FS_CardinalityType

-----------------------------------------------------------------------------
(* A queue whose elements are there once, as a set.                           *)

LEMMA SetOfSeq ==
  ASSUME NEW T, NEW s \in Seq(T)
  PROVE  /\ Len(s) \in Nat /\ ToSet(s) = {s[i] : i \in 1..Len(s)} /\ ToSet(s) \subseteq T
         /\ IsInjective(s) <=> \A i, j \in 1..Len(s) : i # j => s[i] # s[j]
<1>1. Len(s) \in Nat /\ DOMAIN s = 1..Len(s) /\ \A i \in 1..Len(s) : s[i] \in T
  BY LenProperties, ElementOfSeq
<1> QED
  BY <1>1 DEF ToSet, IsInjective

\* What SlotLatch calls pending.
LEMMA PendingIsOpen ==
  ASSUME LatchTypes, NEW r \in Reads, NEW j \in L!Jobs
  PROVE  L!Pending(r, j) <=> j \in Open(r)
<1>1. Queued = {queue[i] : i \in 1..Len(queue)}
  BY SetOfSeq DEF LatchTypes, Queued
<1> QED
  BY <1>1 DEF L!Pending, Open, Out, Unsent, Held, HeldBy, Counting

LEMMA Appended ==
  ASSUME NEW T, NEW s \in Seq(T), NEW e \in T, IsInjective(s), e \notin ToSet(s)
  PROVE  /\ Append(s, e) \in Seq(T) /\ ToSet(Append(s, e)) = ToSet(s) \cup {e}
         /\ IsInjective(Append(s, e))
<1> DEFINE t == Append(s, e)
<1>1. /\ t \in Seq(T) /\ Len(t) = Len(s) + 1 /\ Len(s) \in Nat
      /\ \A i \in 1..Len(s) : t[i] = s[i]
      /\ t[Len(s) + 1] = e
  BY AppendProperties, LenProperties
<1> HIDE DEF t
<1>2. \A i \in 1..Len(t) : i \in 1..Len(s) \/ i = Len(s) + 1
  BY <1>1
<1>3. Len(s) + 1 \in 1..Len(t) /\ \A i \in 1..Len(s) : i \in 1..Len(t)
  BY <1>1
<1>4. ToSet(s) = {s[i] : i \in 1..Len(s)} /\ ToSet(t) = {t[i] : i \in 1..Len(t)}
  BY <1>1, SetOfSeq
<1>5. ToSet(t) = ToSet(s) \cup {e}
  BY <1>1, <1>2, <1>3, <1>4
<1>6. ASSUME NEW i \in 1..Len(t), NEW j \in 1..Len(t), i # j PROVE t[i] # t[j]
  <2>1. \A a, b \in 1..Len(s) : a # b => s[a] # s[b]
    BY SetOfSeq
  <2>2. \A a \in 1..Len(s) : s[a] # e
    BY <1>4
  <2> QED
    BY <1>1, <1>2, <1>6, <2>1, <2>2
<1>7. IsInjective(t)
  BY <1>1, <1>6, SetOfSeq
<1> QED
  BY <1>1, <1>5, <1>7 DEF t

LEMMA Taken ==
  ASSUME NEW T, NEW s \in Seq(T), s # <<>>, IsInjective(s)
  PROVE  /\ Tail(s) \in Seq(T) /\ Head(s) \in T /\ Head(s) \in ToSet(s)
         /\ ToSet(Tail(s)) = ToSet(s) \ {Head(s)} /\ IsInjective(Tail(s))
<1> DEFINE t == Tail(s)
           e == Head(s)
<1>1. /\ t \in Seq(T) /\ Len(t) = Len(s) - 1 /\ Len(s) \in Nat /\ Len(s) > 0
      /\ \A i \in 1..Len(t) : t[i] = s[i + 1]
      /\ e = s[1] /\ s[1] \in T
  BY HeadTailProperties, EmptySeq, LenProperties
<1> HIDE DEF t, e
<1>2. \A i \in 1..Len(t) : i + 1 \in 1..Len(s) /\ i + 1 # 1
  BY <1>1
<1>3. \A i \in 1..Len(s) : i = 1 \/ (i - 1 \in 1..Len(t) /\ (i - 1) + 1 = i)
  BY <1>1
<1>4. 1 \in 1..Len(s)
  BY <1>1
<1>5. ToSet(s) = {s[i] : i \in 1..Len(s)} /\ ToSet(t) = {t[i] : i \in 1..Len(t)}
  BY <1>1, SetOfSeq
<1>6. \A a, b \in 1..Len(s) : a # b => s[a] # s[b]
  BY SetOfSeq
<1>7. ToSet(t) \subseteq ToSet(s) \ {e}
  BY <1>1, <1>2, <1>4, <1>5, <1>6
<1>8. ToSet(s) \ {e} \subseteq ToSet(t)
  <2> SUFFICES ASSUME NEW i \in 1..Len(s), s[i] # e PROVE s[i] \in ToSet(t)
    BY <1>5
  <2>1. i - 1 \in 1..Len(t) /\ t[i - 1] = s[i]
    BY <1>1, <1>3
  <2> QED
    BY <1>5, <2>1
<1>9. IsInjective(t)
  <2>1. \A i, j \in 1..Len(t) : i # j => i + 1 # j + 1
    BY <1>1
  <2>2. \A i, j \in 1..Len(t) : i # j => t[i] # t[j]
    BY <1>1, <1>2, <1>6, <2>1
  <2> QED
    BY <1>1, <2>2, SetOfSeq
<1> QED
  BY <1>1, <1>4, <1>5, <1>7, <1>8, <1>9 DEF t, e

-----------------------------------------------------------------------------
(* What the actions do to the jobs that are out.                              *)

LEMMA OpenKept ==
  ASSUME build' = build, Out' = Out
  PROVE  \A r \in Reads : Open(r)' = Open(r)
  BY JobsKept DEF Open

LEMMA OpenLess ==
  ASSUME build' = build, NEW r \in Reads, NEW j, Out' = Out \ {<<r, j>>}
  PROVE  \A q \in Reads : Open(q)' = IF q = r THEN Open(q) \ {j} ELSE Open(q)
  BY JobsKept DEF Open

\* A worker goes on with its job.
LEMMA HeldOn ==
  ASSUME NEW w \in Workers, NEW x, worker \in [Workers -> WorkerStates],
         worker' = [worker EXCEPT ![w] = x],
         Counting(w), x.at \in {"reading", "count"},
         x.read = worker[w].read, x.job = worker[w].job
  PROVE  /\ Held' = Held
         /\ \A v \in Workers : (Counting(v)' <=> Counting(v)) /\ HeldBy(v)' = HeldBy(v)
<1>1. \A v \in Workers : worker'[v] = IF v = w THEN x ELSE worker[v]
  OBVIOUS
<1>2. \A v \in Workers : (Counting(v)' <=> Counting(v)) /\ HeldBy(v)' = HeldBy(v)
  BY <1>1 DEF Counting, HeldBy
<1> QED
  BY <1>2 DEF Held

\* A worker counts its job down.
LEMMA HeldLess ==
  ASSUME NEW w \in Workers, NEW x, worker \in [Workers -> WorkerStates],
         worker' = [worker EXCEPT ![w] = x],
         Counting(w), x.at \notin {"reading", "count"},
         \A u, v \in Workers : u # v /\ Counting(u) /\ Counting(v) => HeldBy(u) # HeldBy(v)
  PROVE  /\ Held' = Held \ {HeldBy(w)}
         /\ \A v \in Workers : v # w => (Counting(v)' <=> Counting(v)) /\ HeldBy(v)' = HeldBy(v)
         /\ ~Counting(w)'
<1>1. \A v \in Workers : worker'[v] = IF v = w THEN x ELSE worker[v]
  OBVIOUS
<1>2. \A v \in Workers : v # w => (Counting(v)' <=> Counting(v)) /\ HeldBy(v)' = HeldBy(v)
  BY <1>1 DEF Counting, HeldBy
<1>3. ~Counting(w)'
  BY <1>1 DEF Counting
<1> QED
  BY <1>2, <1>3 DEF Held

\* A worker that holds no job moves.
LEMMA HeldSame ==
  ASSUME NEW w \in Workers, NEW x, worker \in [Workers -> WorkerStates],
         worker' = [worker EXCEPT ![w] = x],
         ~Counting(w), x.at \notin {"reading", "count"}
  PROVE  /\ Held' = Held
         /\ \A v \in Workers : v # w => (Counting(v)' <=> Counting(v)) /\ HeldBy(v)' = HeldBy(v)
         /\ ~Counting(w)'
<1>1. \A v \in Workers : worker'[v] = IF v = w THEN x ELSE worker[v]
  OBVIOUS
<1>2. \A v \in Workers : v # w => (Counting(v)' <=> Counting(v)) /\ HeldBy(v)' = HeldBy(v)
  BY <1>1 DEF Counting, HeldBy
<1>3. ~Counting(w)'
  BY <1>1 DEF Counting
<1> QED
  BY <1>2, <1>3 DEF Held

\* No worker moves.
LEMMA HeldStill ==
  ASSUME worker' = worker
  PROVE  /\ Held' = Held
         /\ \A w \in Workers : /\ (Counting(w)' <=> Counting(w)) /\ HeldBy(w)' = HeldBy(w)
                               /\ (Ending(w)' <=> Ending(w))
         /\ \A r \in Reads : Closing(r)' <=> Closing(r)
  BY DEF Held, Counting, HeldBy, Ending, Closing

-----------------------------------------------------------------------------
(* The MLX thread's steps.                                                    *)

LEMMA LatchInit == L!Init => LatchInv
<1> SUFFICES ASSUME L!Init PROVE LatchInv
  OBVIOUS
<1>1. /\ queue = <<>> /\ unsent = {} /\ current = Nobody /\ mlx = "idle"
      /\ \A w \in Workers : worker[w] = L!Idle
      /\ \A r \in Reads : fut[r] = "none" /\ writing[r] = 0
  BY DEF L!Init
<1>2. \A w \in Workers : worker[w].at = "idle"
  BY <1>1 DEF L!Idle
<1>3. Unsent = {} /\ Queued = {} /\ Held = {} /\ Out = {}
  BY <1>1, <1>2 DEF Unsent, Queued, ToSet, Held, Out, Counting
<1>4. \A r \in Reads : Open(r) = {}
  BY <1>3 DEF Open
<1>5. LatchTypes
  <2>1. L!Idle \in WorkerStates
    BY DEF L!Idle, WorkerStates
  <2>2. worker \in [Workers -> WorkerStates]
    BY <2>1 DEF L!Init
  <2> QED
    BY <1>1, <1>2, <2>2 DEF LatchTypes, L!Init
<1>6. OnePlace
  BY <1>1, <1>2, <1>3 DEF OnePlace, IsInjective, Counting
<1>7. Pushing
  BY <1>1 DEF Pushing
<1>8. Counted
  BY <1>1, <1>2, <1>4 DEF Counted, Ending
<1>9. Landed
  BY <1>1, <1>2 DEF Landed, Landing
<1>10. Writers
  BY <1>1, <1>2 DEF Writers
<1> QED
  BY <1>5, <1>6, <1>7, <1>8, <1>9, <1>10 DEF LatchInv

LEMMA SubmitKeeps ==
  ASSUME LatchInv, NEW r \in Reads, L!Submit(r)
  PROVE  LatchInv'
<1> USE DEF LatchInv
<1>1. /\ mlx = "idle" /\ fut[r] = "none" /\ mlx' = "push" /\ current' = r /\ unsent' = L!Jobs
      /\ left' = [left EXCEPT ![r] = Cardinality(L!Jobs)] /\ exc' = [exc EXCEPT ![r] = FALSE]
      /\ fut' = [fut EXCEPT ![r] = "pending"] /\ landed' = [landed EXCEPT ![r] = {}]
      /\ writing' = [writing EXCEPT ![r] = IF build.verify THEN @ + 1 ELSE @]
      /\ build' = build /\ queue' = queue /\ worker' = worker
  BY SameCounting DEF L!Submit
<1>2. current = Nobody /\ unsent = {} /\ Unsent = {}
  BY <1>1 DEF Pushing, Unsent
<1>3. L!Jobs' = L!Jobs /\ L!Jobs # {} /\ Cardinality(L!Jobs) \in Nat
  BY <1>1, JobsKept, JobsFinite, FS_CardinalityType
<1>4. Open(r) = {}
  BY <1>1 DEF Counted
<1>5. Unsent' = {<<r, j>> : j \in L!Jobs} /\ Queued' = Queued /\ Held' = Held
  BY <1>1, HeldStill DEF Unsent, Queued
<1>6. Queued \subseteq Reads \X L!Jobs /\ Held \subseteq Reads \X L!Jobs
  BY SetOfSeq DEF LatchTypes, Queued, Held, HeldBy, Counting
<1>7. \A j \in L!Jobs : <<r, j>> \notin Queued \cup Held
  BY <1>4 DEF Open, Out
<1>8. Out' = Out \cup {<<r, j>> : j \in L!Jobs}
  BY <1>2, <1>5 DEF Out
<1>9. \A q \in Reads : Open(q)' = IF q = r THEN L!Jobs ELSE Open(q)
  BY <1>3, <1>8 DEF Open
<1>10. LatchTypes'
  BY <1>1, <1>3 DEF LatchTypes
<1>11. OnePlace'
  <2>1. Unsent' \cap Queued' = {} /\ Unsent' \cap Held' = {} /\ Queued' \cap Held' = {}
    BY <1>5, <1>7 DEF OnePlace
  <2> QED
    BY <1>1, <2>1, HeldStill DEF OnePlace
<1>12. Pushing'
  BY <1>1, <1>3 DEF Pushing, LatchTypes
<1>13. \A w \in Workers : Ending(w) => worker[w].read # r
  BY <1>1 DEF Counted
<1>14. Counted'
  <2>1. \A q \in Reads : fut'[q] = IF q = r THEN "pending" ELSE fut[q]
    BY <1>1 DEF LatchTypes
  <2>2. \A q \in Reads : left'[q] = IF q = r THEN Cardinality(L!Jobs) ELSE left[q]
    BY <1>1 DEF LatchTypes
  <2>3. \A w \in Workers : Ending(w) => worker[w].read \in Reads
    BY DEF LatchTypes, Ending
  <2>4. \A w \in Workers : Ending(w) =>
          Open(worker[w].read)' = Open(worker[w].read) /\ worker'[w] = worker[w]
    BY <1>1, <1>9, <1>13, <2>3
  <2>5. \A w \in Workers : Ending(w)' <=> Ending(w)
    BY <1>1, HeldStill
  <2>6. \A q \in Reads : fut'[q] = "pending" => left'[q] = Cardinality(Open(q)')
    BY <1>9, <2>1, <2>2 DEF Counted
  <2>7. \A q \in Reads : fut'[q] # "pending" => Open(q)' = {}
    BY <1>9, <2>1 DEF Counted
  <2>8. \A w \in Workers :
          Ending(w)' => fut'[worker'[w].read] = "pending" /\ Open(worker[w].read)' = {}
    BY <1>1, <1>13, <2>1, <2>3, <2>4, <2>5 DEF Counted
  <2> QED
    BY <1>1, <2>5, <2>6, <2>7, <2>8 DEF Counted
<1>15. Landed'
  <2>1. \A w \in Workers : Counting(w) => worker[w].read # r
    <3> SUFFICES ASSUME NEW w \in Workers, Counting(w), worker[w].read = r PROVE FALSE
      OBVIOUS
    <3>1. HeldBy(w) \in Held /\ worker[w].job \in L!Jobs
      BY DEF Held, LatchTypes, Counting
    <3> QED
      BY <1>7, <3>1 DEF HeldBy
  <2>2. \A w \in Workers : Counting(w) => worker[w].read \in Reads
    BY DEF LatchTypes, Counting
  <2>3. \A w \in Workers : Landing(w)'
    BY <1>1, <2>1, <2>2 DEF Landed, Landing, Counting, LatchTypes
  <2>4. \A q \in Reads : fut'[q] = "pending" /\ ~exc'[q] =>
          \A j \in L!Jobs' : j \notin Open(q)' => j \subseteq landed'[q]
    BY <1>1, <1>3, <1>9 DEF Landed, LatchTypes
  <2>5. \A q \in Reads : fut'[q] = "ok" => landed'[q] = Parts
    BY <1>1 DEF Landed, LatchTypes
  <2> QED
    BY <2>3, <2>4, <2>5 DEF Landed
<1>16. Writers'
  <2>1. ~Closing(r)
    BY <1>13 DEF Closing, Ending
  <2>2. \A q \in Reads : Closing(q)' <=> Closing(q)
    BY <1>1, HeldStill
  <2> QED
    BY <1>1, <2>1, <2>2 DEF Writers, LatchTypes
<1> QED
  BY <1>10, <1>11, <1>12, <1>14, <1>15, <1>16

\* What only moves a job, or the MLX thread, leaves the reads as they are.
LEMMA ReadsKept ==
  ASSUME LatchInv, build' = build, Out' = Out, worker' = worker, left' = left, exc' = exc,
         fut' = fut, landed' = landed
  PROVE  /\ \A r \in Reads : Open(r)' = Open(r)
         /\ Counted' /\ Landed'
         /\ (build.verify => mlx' # "resolve") /\ writing' = writing => Writers'
<1> USE DEF LatchInv
<1>1. L!Jobs' = L!Jobs
  BY JobsKept
<1>2. \A r \in Reads : Open(r)' = Open(r)
  BY OpenKept
<1>3. \A w \in Workers : /\ (Ending(w)' <=> Ending(w)) /\ (Landing(w)' <=> Landing(w))
                         /\ (Ending(w) => worker[w].read \in Reads)
  BY DEF Ending, Landing, LatchTypes
<1>4. Counted'
  BY <1>2, <1>3 DEF Counted
<1>5. Landed'
  BY <1>1, <1>2, <1>3 DEF Landed
<1>6. (build.verify => mlx' # "resolve") /\ writing' = writing => Writers'
  BY HeldStill DEF Writers
<1> QED
  BY <1>2, <1>4, <1>5, <1>6

LEMMA PushKeeps ==
  ASSUME LatchInv, NEW j \in L!Jobs, L!Push(j)
  PROVE  LatchInv'
<1> USE DEF LatchInv
<1> DEFINE e == <<current, j>>
<1>1. /\ mlx = "push" /\ j \in unsent /\ unsent' = unsent \ {j} /\ queue' = Append(queue, e)
      /\ mlx' = (IF unsent = {j} THEN "idle" ELSE "push")
      /\ current' = (IF unsent = {j} THEN Nobody ELSE current)
  BY DEF L!Push
<1>2. /\ build' = build /\ worker' = worker /\ left' = left /\ exc' = exc /\ fut' = fut
      /\ landed' = landed /\ writing' = writing
  BY DEF L!Push
<1>3. L!Jobs' = L!Jobs
  BY <1>2, JobsKept
<1>4. current \in Reads /\ fut[current] = "pending"
  BY <1>1 DEF Pushing
<1>5. e \in Unsent /\ e \notin Queued /\ e \notin Held /\ e \in Reads \X L!Jobs
  BY <1>1, <1>4 DEF Unsent, OnePlace
<1>6. Unsent' = Unsent \ {e}
  BY <1>1 DEF Unsent
<1>7. /\ queue' \in Seq(Reads \X L!Jobs) /\ Queued' = Queued \cup {e}
      /\ IsInjective(queue')
  <2>1. queue \in Seq(Reads \X L!Jobs) /\ IsInjective(queue)
    BY DEF LatchTypes, OnePlace
  <2>2. e \in Reads \X L!Jobs /\ e \notin ToSet(queue)
    BY <1>5 DEF Queued
  <2> HIDE DEF e
  <2> QED
    BY <1>1, <2>1, <2>2, Appended DEF Queued
<1>8. Held' = Held
  BY <1>2, HeldStill
<1>9. Out' = Out
  BY <1>5, <1>6, <1>7, <1>8 DEF Out
<1>10. LatchTypes'
  BY <1>1, <1>2, <1>3, <1>4, <1>7 DEF LatchTypes
<1>11. OnePlace'
  <2>1. Unsent' \cap Queued' = {} /\ Unsent' \cap Held' = {} /\ Queued' \cap Held' = {}
    BY <1>5, <1>6, <1>7, <1>8 DEF OnePlace
  <2> QED
    BY <1>2, <1>7, <2>1, HeldStill DEF OnePlace
<1>12. Pushing'
  BY <1>1, <1>2, <1>4 DEF Pushing
<1>13. Counted' /\ Landed' /\ Writers'
  BY <1>1, <1>2, <1>9, ReadsKept
<1> QED
  BY <1>10, <1>11, <1>12, <1>13

LEMMA PushFailsKeeps ==
  ASSUME LatchInv, L!PushFails
  PROVE  LatchInv'
<1> USE DEF LatchInv
<1> DEFINE e == <<current, Parts>>
<1>1. /\ mlx = "push" /\ build.native /\ unsent' = {}
      /\ exc' = [exc EXCEPT ![current] = TRUE]
      /\ left' = [left EXCEPT ![current] = @ - 1]
      /\ mlx' = (IF build.verify THEN "on_done" ELSE "resolve")
  BY DEF L!PushFails
<1>2. /\ build' = build /\ current' = current /\ queue' = queue /\ worker' = worker
      /\ fut' = fut /\ landed' = landed /\ writing' = writing
  BY DEF L!PushFails
<1>3. L!Jobs' = L!Jobs /\ L!Jobs = {Parts}
  BY <1>1, <1>2, JobsKept DEF L!Jobs
<1>4. current \in Reads /\ fut[current] = "pending" /\ unsent = {Parts}
  BY <1>1, <1>3 DEF Pushing, LatchTypes
<1>5. Unsent = {e} /\ Unsent' = {} /\ Queued' = Queued /\ Held' = Held
  BY <1>1, <1>2, <1>4, HeldStill DEF Unsent, Queued
<1>6. Out' = Out \ {e} /\ e \in Out
  BY <1>5 DEF Out, OnePlace
<1>7. \A q \in Reads : Open(q)' = IF q = current THEN Open(q) \ {Parts} ELSE Open(q)
  BY <1>2, <1>4, <1>6, OpenLess
<1>8. Open(current) = {Parts} /\ Open(current)' = {}
  BY <1>2, <1>3, <1>4, <1>6, <1>7 DEF Open
<1>9. left[current] = 1 /\ Cardinality({}) = 0
  BY <1>4, <1>8, FS_Singleton, FS_EmptySet DEF Counted
<1>10. /\ \A q \in Reads : left'[q] = IF q = current THEN 0 ELSE left[q]
       /\ \A q \in Reads : exc'[q] = IF q = current THEN TRUE ELSE exc[q]
  BY <1>1, <1>4, <1>9 DEF LatchTypes
<1>11. \A w \in Workers : Ending(w) => worker[w].read # current /\ worker[w].read \in Reads
  BY <1>8 DEF Counted, Ending, LatchTypes
<1>12. LatchTypes'
  BY <1>1, <1>2, <1>3, <1>4, <1>10 DEF LatchTypes
<1>13. OnePlace'
  BY <1>2, <1>5, HeldStill DEF OnePlace
<1>14. Pushing'
  BY <1>1, <1>2, <1>4, <1>8, <1>10, <1>11, HeldStill DEF Pushing
<1>15. Counted'
  BY <1>2, <1>4, <1>7, <1>8, <1>9, <1>10, <1>11, HeldStill DEF Counted
<1>16. Landed'
  <2>1. \A w \in Workers : Landing(w)'
    BY <1>2 DEF Landed, Landing
  <2> QED
    BY <1>2, <1>3, <1>7, <1>10, <2>1 DEF Landed
<1>17. Writers'
  BY <1>1, <1>2, HeldStill DEF Writers
<1> QED
  BY <1>12, <1>13, <1>14, <1>15, <1>16, <1>17

LEMMA PushResolveKeeps ==
  ASSUME LatchInv, L!PushResolve
  PROVE  LatchInv'
<1> USE DEF LatchInv
<1>1. /\ mlx = "resolve" /\ mlx' = "idle" /\ current' = Nobody
      /\ fut' = [fut EXCEPT ![current] = "failed"]
  BY DEF L!PushResolve
<1>2. /\ build' = build /\ unsent' = unsent /\ queue' = queue /\ worker' = worker
      /\ left' = left /\ exc' = exc /\ landed' = landed /\ writing' = writing
  BY DEF L!PushResolve
<1>3. /\ current \in Reads /\ unsent = {} /\ Open(current) = {}
      /\ \A w \in Workers : Ending(w) => worker[w].read # current /\ worker[w].read \in Reads
  BY <1>1 DEF Pushing, Ending, LatchTypes
<1>4. Unsent = {} /\ Unsent' = {} /\ Queued' = Queued /\ Held' = Held /\ Out' = Out
  BY <1>2, <1>3, HeldStill DEF Unsent, Queued, Out
<1>5. \A q \in Reads : Open(q)' = Open(q)
  BY <1>2, <1>4, OpenKept
<1>6. \A q \in Reads : fut'[q] = IF q = current THEN "failed" ELSE fut[q]
  BY <1>1, <1>3 DEF LatchTypes
<1>7. L!Jobs' = L!Jobs
  BY <1>2, JobsKept
<1>8. LatchTypes'
  BY <1>1, <1>2, <1>3, <1>7 DEF LatchTypes
<1>9. OnePlace'
  BY <1>2, <1>4, HeldStill DEF OnePlace
<1>10. Pushing'
  BY <1>1, <1>2, <1>3 DEF Pushing
<1>11. Counted'
  BY <1>2, <1>3, <1>5, <1>6, HeldStill DEF Counted
<1>12. Landed'
  <2>1. \A w \in Workers : Landing(w)'
    BY <1>2 DEF Landed, Landing
  <2> QED
    BY <1>2, <1>5, <1>6, <1>7, <2>1 DEF Landed
<1>13. Writers'
  BY <1>1, <1>2 DEF Writers
<1> QED
  BY <1>8, <1>9, <1>10, <1>11, <1>12, <1>13

\* The lock, and the memory of the slab.
LEMMA SlabKeeps ==
  ASSUME LatchInv, L!Unlock \/ L!Freeze \/ L!Release \/ L!Rebuild
  PROVE  LatchInv'
<1> USE DEF LatchInv
<1>1. /\ build' = build /\ current' = current /\ unsent' = unsent /\ queue' = queue
      /\ worker' = worker /\ left' = left /\ exc' = exc /\ fut' = fut /\ landed' = landed
      /\ writing' = writing
  BY DEF L!Unlock, L!Freeze, L!Release, L!Rebuild
<1>2. mlx \in {"idle", "drain", "freed"} /\ mlx' \in {"idle", "drain", "freed"}
  BY DEF L!Unlock, L!Freeze, L!Release, L!Rebuild
<1>3. mlx' = "freed" => \A r \in Reads : fut[r] # "pending"
  BY DEF L!Unlock, L!Freeze, L!Release, L!Rebuild
<1>4. Unsent' = Unsent /\ Queued' = Queued /\ Held' = Held /\ Out' = Out
  BY <1>1, HeldStill DEF Unsent, Queued, Out
<1>5. L!Jobs' = L!Jobs
  BY <1>1, JobsKept
<1>6. LatchTypes'
  BY <1>1, <1>2, <1>5 DEF LatchTypes
<1>7. OnePlace'
  BY <1>1, <1>4, HeldStill DEF OnePlace
<1>8. Pushing'
  BY <1>1, <1>2, <1>3 DEF Pushing
<1>9. Counted' /\ Landed' /\ Writers'
  BY <1>1, <1>2, <1>4, ReadsKept
<1> QED
  BY <1>6, <1>7, <1>8, <1>9

LEMMA DropKeeps ==
  ASSUME LatchInv, NEW r \in Reads, L!Drop(r)
  PROVE  LatchInv'
<1> USE DEF LatchInv
<1>1. /\ mlx = "idle" /\ fut[r] \in {"ok", "failed"} /\ fut' = [fut EXCEPT ![r] = "none"]
      /\ mlx' = mlx /\ current' = current
  BY DEF L!Drop
<1>2. /\ build' = build /\ unsent' = unsent /\ queue' = queue /\ worker' = worker
      /\ left' = left /\ exc' = exc /\ landed' = landed /\ writing' = writing
  BY DEF L!Drop
<1>3. Unsent' = Unsent /\ Queued' = Queued /\ Held' = Held /\ Out' = Out
  BY <1>1, <1>2, HeldStill DEF Unsent, Queued, Out
<1>4. \A q \in Reads : Open(q)' = Open(q)
  BY <1>2, <1>3, OpenKept
<1>5. \A q \in Reads : fut'[q] = IF q = r THEN "none" ELSE fut[q]
  BY <1>1 DEF LatchTypes
<1>6. L!Jobs' = L!Jobs
  BY <1>2, JobsKept
<1>7. \A w \in Workers : Ending(w) => worker[w].read # r /\ worker[w].read \in Reads
  BY <1>1 DEF Counted, Ending, LatchTypes
<1>8. LatchTypes'
  BY <1>1, <1>2, <1>6 DEF LatchTypes
<1>9. OnePlace'
  BY <1>2, <1>3, HeldStill DEF OnePlace
<1>10. Pushing'
  BY <1>1, <1>2 DEF Pushing
<1>11. Counted'
  BY <1>1, <1>2, <1>4, <1>5, <1>7, HeldStill DEF Counted
<1>12. Landed'
  <2>1. \A w \in Workers : Landing(w)'
    BY <1>2 DEF Landed, Landing
  <2> QED
    BY <1>2, <1>4, <1>5, <1>6, <2>1 DEF Landed
<1>13. Writers'
  BY <1>1, <1>2, <1>5, HeldStill DEF Writers
<1> QED
  BY <1>8, <1>9, <1>10, <1>11, <1>12, <1>13

-----------------------------------------------------------------------------
(* The reader threads' steps.                                                 *)

LEMMA TakeKeeps ==
  ASSUME LatchInv, NEW w \in Workers, L!Take(w)
  PROVE  LatchInv'
<1> USE DEF LatchInv
<1> DEFINE e == Head(queue)
           x == [at |-> "reading", read |-> e[1], job |-> e[2], rest |-> e[2], failed |-> FALSE]
<1>1. /\ worker[w].at = "idle" /\ queue # <<>> /\ queue' = Tail(queue)
      /\ worker' = [worker EXCEPT ![w] = x]
  BY DEF L!Take, L!Idle
<1>2. /\ build' = build /\ mlx' = mlx /\ current' = current /\ unsent' = unsent
      /\ left' = left /\ exc' = exc /\ fut' = fut /\ landed' = landed /\ writing' = writing
  BY DEF L!Take
<1>3. L!Jobs' = L!Jobs
  BY <1>2, JobsKept
<1>4. /\ queue' \in Seq(Reads \X L!Jobs) /\ e \in Reads \X L!Jobs /\ e \in Queued
      /\ Queued' = Queued \ {e}
      /\ IsInjective(queue')
  <2>1. queue \in Seq(Reads \X L!Jobs) /\ IsInjective(queue)
    BY DEF LatchTypes, OnePlace
  <2> HIDE DEF e
  <2> QED
    BY <1>1, <2>1, Taken DEF Queued, e
<1>5. e[1] \in Reads /\ e[2] \in L!Jobs /\ e = <<e[1], e[2]>> /\ e[2] \subseteq Parts
  BY <1>4, JobsCover
<1>6. e \notin Unsent /\ e \notin Held
  BY <1>4 DEF OnePlace
<1> HIDE DEF e
<1>7. \A v \in Workers : worker'[v] = IF v = w THEN x ELSE worker[v]
  BY <1>1 DEF LatchTypes
<1>8. /\ Counting(w)' /\ ~Counting(w) /\ HeldBy(w)' = e
      /\ \A v \in Workers : v # w => (Counting(v)' <=> Counting(v)) /\ HeldBy(v)' = HeldBy(v)
  BY <1>1, <1>5, <1>7 DEF Counting, HeldBy
<1>9. Held' = Held \cup {e}
  BY <1>8 DEF Held
<1>10. Unsent' = Unsent
  BY <1>2 DEF Unsent
<1>11. Out' = Out
  BY <1>4, <1>9, <1>10 DEF Out
<1>12. \A q \in Reads : Open(q)' = Open(q)
  BY <1>2, <1>11, OpenKept
<1>13. \A v \in Workers : (Ending(v)' <=> Ending(v)) /\ (Ending(v) => worker'[v] = worker[v])
  BY <1>1, <1>7 DEF Ending
<1>14. LatchTypes'
  <2>1. x \in WorkerStates
    BY <1>5 DEF WorkerStates, L!Stages
  <2>2. worker' \in [Workers -> WorkerStates]
    BY <1>1, <2>1 DEF LatchTypes
  <2>3. \A v \in Workers :
          worker'[v].at # "idle" => worker'[v].read \in Reads /\ worker'[v].job \in L!Jobs
    <3> SUFFICES ASSUME NEW v \in Workers, worker'[v].at # "idle"
                 PROVE  worker'[v].read \in Reads /\ worker'[v].job \in L!Jobs
      OBVIOUS
    <3>1. CASE v = w
      BY <1>5, <1>7, <3>1
    <3>2. CASE v # w
      BY <1>7, <3>2 DEF LatchTypes
    <3> QED
      BY <3>1, <3>2
  <2> QED
    BY <1>2, <1>3, <1>4, <2>2, <2>3 DEF LatchTypes
<1>15. OnePlace'
  <2>1. Unsent' \cap Queued' = {} /\ Unsent' \cap Held' = {} /\ Queued' \cap Held' = {}
    BY <1>4, <1>6, <1>9, <1>10 DEF OnePlace
  <2>2. \A v \in Workers : Counting(v) => HeldBy(v) # e
    BY <1>6 DEF Held
  <2>3. \A u, v \in Workers : u # v /\ Counting(u)' /\ Counting(v)' => HeldBy(u)' # HeldBy(v)'
    BY <1>8, <2>2 DEF OnePlace
  <2> QED
    BY <1>4, <2>1, <2>3 DEF OnePlace
<1>16. Pushing'
  <2>1. current \in Reads => Open(current)' = Open(current)
    BY <1>2, <1>12
  <2> QED
    BY <1>2, <1>13, <2>1 DEF Pushing
<1>17. Counted'
  <2>1. \A v \in Workers : Ending(v) => Open(worker[v].read)' = Open(worker[v].read)
    BY <1>12, <1>13 DEF Ending, LatchTypes
  <2> QED
    BY <1>2, <1>12, <1>13, <2>1 DEF Counted
<1>18. Landed'
  <2>1. \A v \in Workers : Landing(v)'
    BY <1>2, <1>5, <1>7 DEF Landed, Landing
  <2> QED
    BY <1>2, <1>3, <1>12, <2>1 DEF Landed
<1>19. Writers'
  <2>1. \A q \in Reads : Closing(q)' <=> Closing(q)
    BY <1>1, <1>7 DEF Closing
  <2> QED
    BY <1>2, <2>1 DEF Writers
<1> QED
  BY <1>14, <1>15, <1>16, <1>17, <1>18, <1>19

\* A component is in place, or the read of one fails: the job is still this worker's.
LEMMA ReadingKeeps ==
  ASSUME LatchInv, NEW w \in Workers,
         L!PartFails(w) \/ \E p \in Parts : L!ReadPart(w, p)
  PROVE  LatchInv'
<1> USE DEF LatchInv
<1> DEFINE r == worker[w].read
           x == worker'[w]
<1>1. /\ worker[w].at = "reading" /\ Counting(w)
      /\ build' = build /\ mlx' = mlx /\ current' = current /\ unsent' = unsent
      /\ queue' = queue /\ left' = left /\ exc' = exc /\ fut' = fut /\ writing' = writing
  BY DEF L!PartFails, L!ReadPart, Counting
<1>2. /\ worker' = [worker EXCEPT ![w] = x] /\ x \in WorkerStates
      /\ x.at \in {"reading", "count"} /\ x.read = r /\ x.job = worker[w].job
  <2>1. worker \in [Workers -> WorkerStates]
    BY DEF LatchTypes
  <2>2. CASE L!PartFails(w)
    <3>1. worker' = [worker EXCEPT ![w] = [worker[w] EXCEPT !.rest = {}, !.failed = TRUE, !.at = "count"]]
      BY <2>1, <2>2 DEF L!PartFails
    <3> QED
      BY <2>1, <3>1 DEF WorkerStates, L!Stages
  <2>3. CASE \E p \in Parts : L!ReadPart(w, p)
    <3>1. PICK p \in Parts : L!ReadPart(w, p)
      BY <2>3
    <3> DEFINE at1 == IF worker[w].rest = {p} THEN "count" ELSE "reading"
    <3>2. worker' = [worker EXCEPT ![w] = [worker[w] EXCEPT !.rest = @ \ {p}, !.at = at1]]
      BY <2>1, <3>1 DEF L!ReadPart
    <3>3. at1 \in {"reading", "count"} /\ worker[w] \in WorkerStates
      BY <2>1
    <3> QED
      BY <2>1, <3>2, <3>3 DEF WorkerStates, L!Stages
  <2> QED
    BY <2>2, <2>3
<1>3. r \in Reads /\ worker[w].job \in L!Jobs /\ L!Jobs' = L!Jobs
  BY <1>1, JobsKept DEF LatchTypes
<1>4. worker \in [Workers -> WorkerStates]
  BY DEF LatchTypes
<1>5. /\ landed' \in [Reads -> SUBSET Parts]
      /\ \A q \in Reads : landed[q] \subseteq landed'[q] /\ (q # r => landed'[q] = landed[q])
      /\ Landing(w)'
  <2>1. /\ worker[w].rest \subseteq worker[w].job /\ worker[w].job \ worker[w].rest \subseteq landed[r]
        /\ ~worker[w].failed
    BY <1>1 DEF Landed, Landing
  <2>2. CASE L!PartFails(w)
    <3>1. landed' = landed /\ x.at = "count" /\ x.failed
      BY <1>4, <2>2 DEF L!PartFails, WorkerStates
    <3> QED
      BY <3>1 DEF LatchTypes, Landing
  <2>3. CASE \E p \in Parts : L!ReadPart(w, p)
    <3>1. PICK p \in Parts : L!ReadPart(w, p)
      BY <2>3
    <3> DEFINE at1 == IF worker[w].rest = {p} THEN "count" ELSE "reading"
    <3>2. /\ p \in worker[w].rest /\ landed' = [landed EXCEPT ![r] = @ \cup {p}]
          /\ worker' = [worker EXCEPT ![w] = [worker[w] EXCEPT !.rest = @ \ {p}, !.at = at1]]
      BY <1>4, <3>1 DEF L!ReadPart
    <3>3. worker[w] \in WorkerStates /\ x = [worker[w] EXCEPT !.rest = @ \ {p}, !.at = at1]
      BY <1>4, <3>2
    <3>4. /\ p \in worker[w].rest /\ landed' = [landed EXCEPT ![r] = @ \cup {p}]
          /\ x.rest = worker[w].rest \ {p} /\ x.failed = worker[w].failed /\ x.at = at1
      <4> HIDE DEF x, at1
      <4>1. /\ x.rest = worker[w].rest \ {p} /\ x.failed = worker[w].failed /\ x.at = at1
        BY <3>3 DEF WorkerStates
      <4> QED
        BY <3>2, <4>1
    <3>5. landed \in [Reads -> SUBSET Parts]
      BY DEF LatchTypes
    <3>6. landed'[r] = landed[r] \cup {p}
      BY <1>3, <3>4, <3>5
    <3>7. x.job \ x.rest \subseteq landed'[r] /\ x.rest \subseteq x.job /\ ~x.failed
      BY <1>2, <2>1, <3>4, <3>6
    <3>8. x.at = "count" => x.job \subseteq landed'[r]
      BY <3>4, <3>7
    <3>9. Landing(w)'
      BY <1>2, <3>7, <3>8 DEF Landing
    <3> QED
      BY <1>3, <3>4, <3>5, <3>9
  <2> QED
    BY <2>2, <2>3
<1> HIDE DEF r, x
<1>6. Held' = Held /\ \A v \in Workers : (Counting(v)' <=> Counting(v)) /\ HeldBy(v)' = HeldBy(v)
  BY <1>1, <1>2, <1>4, HeldOn DEF r
<1>7. Unsent' = Unsent /\ Queued' = Queued
  BY <1>1 DEF Unsent, Queued
<1>8. Out' = Out
  BY <1>6, <1>7 DEF Out
<1>9. \A q \in Reads : Open(q)' = Open(q)
  BY <1>1, <1>8, OpenKept
<1>10. fut[r] = "pending"
  <2>1. HeldBy(w) \in Out
    BY <1>1 DEF Held, Out
  <2>2. Open(r) # {}
    BY <1>3, <2>1 DEF Open, HeldBy, r
  <2> QED
    BY <1>3, <2>2 DEF Counted
<1>11. \A v \in Workers : worker'[v] = IF v = w THEN x ELSE worker[v]
  BY <1>2, <1>4
<1>12. \A v \in Workers : (Ending(v)' <=> Ending(v)) /\ (Ending(v) => worker'[v] = worker[v])
  BY <1>1, <1>2, <1>11 DEF Ending
<1>13. LatchTypes'
  <2>1. worker' \in [Workers -> WorkerStates]
    BY <1>2, <1>4
  <2>2. \A v \in Workers :
          worker'[v].at # "idle" => worker'[v].read \in Reads /\ worker'[v].job \in L!Jobs
    BY <1>2, <1>3, <1>11 DEF LatchTypes
  <2> QED
    BY <1>1, <1>3, <1>5, <2>1, <2>2 DEF LatchTypes
<1>14. OnePlace'
  BY <1>1, <1>6, <1>7 DEF OnePlace
<1>15. Pushing'
  <2>1. current \in Reads => Open(current)' = Open(current)
    BY <1>1, <1>9
  <2> QED
    BY <1>1, <1>12, <2>1 DEF Pushing
<1>16. Counted'
  <2>1. \A v \in Workers : Ending(v) => Open(worker[v].read)' = Open(worker[v].read)
    BY <1>9, <1>12 DEF Ending, LatchTypes
  <2> QED
    BY <1>1, <1>9, <1>12, <2>1 DEF Counted
<1>17. Landed'
  <2>1. ASSUME NEW v \in Workers PROVE Landing(v)'
    <3>1. CASE v = w
      BY <1>5, <3>1
    <3>2. CASE v # w
      <4>1. worker'[v] = worker[v]
        BY <1>11, <3>2
      <4>2. worker[v].at # "idle" => landed[worker[v].read] \subseteq landed'[worker[v].read]
        BY <1>5 DEF LatchTypes
      <4> QED
        BY <4>1, <4>2 DEF Landed, Landing
    <3> QED
      BY <3>1, <3>2
  <2>2. \A q \in Reads : fut'[q] = "pending" /\ ~exc'[q] =>
          \A j \in L!Jobs' : j \notin Open(q)' => j \subseteq landed'[q]
    <3> SUFFICES ASSUME NEW q \in Reads, fut[q] = "pending", ~exc[q],
                        NEW j \in L!Jobs, j \notin Open(q)
                 PROVE  j \subseteq landed'[q]
      BY <1>1, <1>3, <1>9
    <3>1. j \subseteq landed[q] /\ landed[q] \subseteq landed'[q]
      BY <1>5 DEF Landed
    <3> QED
      BY <3>1
  <2>3. \A q \in Reads : fut'[q] = "ok" => landed'[q] = Parts
    BY <1>1, <1>5, <1>10 DEF Landed
  <2> QED
    BY <2>1, <2>2, <2>3 DEF Landed
<1>18. Writers'
  <2>1. \A q \in Reads : Closing(q)' <=> Closing(q)
    BY <1>1, <1>2, <1>11 DEF Closing
  <2> QED
    BY <1>1, <2>1 DEF Writers
<1> QED
  BY <1>13, <1>14, <1>15, <1>16, <1>17, <1>18

\* The count is the number of jobs that are out, so the last job is known by it.
LEMMA CountKeeps ==
  ASSUME LatchInv, NEW w \in Workers, L!Count(w)
  PROVE  LatchInv'
<1> USE DEF LatchInv
<1> DEFINE r == worker[w].read
           j == worker[w].job
           last == left[r] <= 1
           x == IF ~last THEN L!Idle
                ELSE [worker[w] EXCEPT !.at = IF build.verify THEN "quiet" ELSE "resolve"]
<1>1. /\ worker[w].at = "count" /\ Counting(w) /\ worker' = [worker EXCEPT ![w] = x]
      /\ exc' = [exc EXCEPT ![r] = @ \/ worker[w].failed]
      /\ left' = [left EXCEPT ![r] = @ - 1]
  BY DEF L!Count, Counting
<1>2. /\ build' = build /\ mlx' = mlx /\ current' = current /\ unsent' = unsent
      /\ queue' = queue /\ fut' = fut /\ landed' = landed /\ writing' = writing
  BY DEF L!Count
<1>3. r \in Reads /\ j \in L!Jobs /\ L!Jobs' = L!Jobs
  BY <1>1, <1>2, JobsKept DEF LatchTypes
<1>4. worker \in [Workers -> WorkerStates]
  BY DEF LatchTypes
<1>5. /\ x \in WorkerStates /\ x.at \in {"idle", "quiet", "resolve"}
      /\ x.at # "idle" => x.read = r /\ x.job = j
      /\ x.at # "idle" <=> last
      /\ x.at = "resolve" => ~build.verify
  BY <1>4 DEF WorkerStates, L!Stages, L!Idle
<1> HIDE DEF x
<1>6. \A v \in Workers : worker'[v] = IF v = w THEN x ELSE worker[v]
  BY <1>1, <1>4
<1>7. HeldBy(w) = <<r, j>> /\ HeldBy(w) \in Held /\ HeldBy(w) \notin Unsent \cup Queued
  BY <1>1 DEF Held, HeldBy, OnePlace
<1>8. /\ Held' = Held \ {<<r, j>>} /\ ~Counting(w)'
      /\ \A v \in Workers : v # w => (Counting(v)' <=> Counting(v)) /\ HeldBy(v)' = HeldBy(v)
  <2>1. x.at \notin {"reading", "count"}
    BY <1>5
  <2> QED
    BY <1>1, <1>4, <1>7, <2>1, HeldLess DEF OnePlace
<1>9. Unsent' = Unsent /\ Queued' = Queued
  BY <1>2 DEF Unsent, Queued
<1>10. Out' = Out \ {<<r, j>>} /\ <<r, j>> \in Out
  BY <1>7, <1>8, <1>9 DEF Out
<1>11. /\ \A q \in Reads : Open(q)' = IF q = r THEN Open(q) \ {j} ELSE Open(q)
       /\ j \in Open(r)
  BY <1>2, <1>3, <1>10, OpenLess DEF Open
<1>12. fut[r] = "pending" /\ left[r] = Cardinality(Open(r))
  BY <1>3, <1>11 DEF Counted
<1>13. /\ Cardinality(Open(r) \ {j}) = left[r] - 1 /\ Cardinality(Open(r) \ {j}) \in Nat
       /\ last <=> Open(r) \ {j} = {}
  <2>1. IsFiniteSet(Open(r)) /\ Cardinality(Open(r)) \in Nat
    BY OpenFinite
  <2>2. IsFiniteSet(Open(r) \ {j}) /\ Cardinality(Open(r) \ {j}) = Cardinality(Open(r)) - 1
    BY <1>11, <2>1, FS_RemoveElement
  <2>3. /\ Cardinality(Open(r) \ {j}) \in Nat
        /\ Cardinality(Open(r) \ {j}) = 0 <=> Open(r) \ {j} = {}
    BY <2>2, FS_CardinalityType, FS_EmptySet
  <2> QED
    BY <1>12, <2>1, <2>2, <2>3
<1>14. /\ \A q \in Reads : left'[q] = IF q = r THEN left[r] - 1 ELSE left[q]
       /\ \A q \in Reads : exc'[q] = IF q = r THEN exc[r] \/ worker[w].failed ELSE exc[q]
  BY <1>1, <1>3 DEF LatchTypes
<1>15. /\ \A v \in Workers : v # w => (Ending(v)' <=> Ending(v)) /\ worker'[v] = worker[v]
       /\ Ending(w)' <=> last
  BY <1>5, <1>6 DEF Ending
<1>16. \A v \in Workers : Ending(v) => worker[v].read # r /\ worker[v].read \in Reads
  BY <1>11 DEF Counted, Ending, LatchTypes
<1>17. LatchTypes'
  <2>1. worker' \in [Workers -> WorkerStates]
    BY <1>1, <1>4, <1>5
  <2>2. ASSUME NEW v \in Workers, worker'[v].at # "idle"
        PROVE  worker'[v].read \in Reads /\ worker'[v].job \in L!Jobs
    BY <1>3, <1>5, <1>6, <2>2 DEF LatchTypes
  <2>3. left' \in [Reads -> Int]
    BY <1>1, <1>3 DEF LatchTypes
  <2>4. exc' \in [Reads -> BOOLEAN]
    <3>1. (exc[r] \/ worker[w].failed) \in BOOLEAN /\ exc \in [Reads -> BOOLEAN]
      BY DEF LatchTypes
    <3> QED
      BY <1>1, <3>1
  <2> QED
    BY <1>2, <1>3, <2>1, <2>2, <2>3, <2>4 DEF LatchTypes
<1>18. OnePlace'
  <2>1. Unsent' \cap Queued' = {} /\ Unsent' \cap Held' = {} /\ Queued' \cap Held' = {}
    BY <1>8, <1>9 DEF OnePlace
  <2>2. \A u, v \in Workers : u # v /\ Counting(u)' /\ Counting(v)' => HeldBy(u)' # HeldBy(v)'
    BY <1>8 DEF OnePlace
  <2> QED
    BY <1>2, <2>1, <2>2 DEF OnePlace
<1>19. Pushing'
  <2>1. mlx \in {"on_done", "resolve"} => current # r
    BY <1>11 DEF Pushing
  <2>2. mlx \in {"on_done", "resolve"} =>
          /\ Open(current)' = {} /\ exc'[current]
          /\ \A v \in Workers : Ending(v)' => worker'[v].read # current
    BY <1>2, <1>5, <1>6, <1>11, <1>14, <1>15, <2>1 DEF Pushing
  <2> QED
    BY <1>2, <2>2 DEF Pushing
<1>20. Counted'
  <2>1. \A q \in Reads : fut'[q] = "pending" => left'[q] = Cardinality(Open(q)')
    BY <1>2, <1>11, <1>13, <1>14 DEF Counted
  <2>2. \A q \in Reads : fut'[q] # "pending" => Open(q)' = {}
    BY <1>2, <1>11 DEF Counted
  <2>3. ASSUME NEW v \in Workers, Ending(v)'
        PROVE  fut'[worker'[v].read] = "pending" /\ Open(worker[v].read)' = {}
    <3>1. CASE v = w
      <4>1. worker'[v].read = r /\ last
        BY <1>5, <1>6, <1>15, <2>3, <3>1
      <4> QED
        BY <1>2, <1>3, <1>11, <1>12, <1>13, <4>1
    <3>2. CASE v # w
      <4>1. Ending(v) /\ worker'[v] = worker[v]
        BY <1>15, <2>3, <3>2
      <4> QED
        BY <1>2, <1>11, <1>16, <4>1 DEF Counted
    <3> QED
      BY <3>1, <3>2
  <2>4. \A u, v \in Workers : u # v /\ Ending(u)' /\ Ending(v)' => worker'[u].read # worker'[v].read
    BY <1>5, <1>6, <1>15, <1>16 DEF Counted
  <2> QED
    BY <2>1, <2>2, <2>3, <2>4 DEF Counted
<1>21. Landed'
  <2>1. \A v \in Workers : Landing(v)'
    <3>1. \A v \in Workers : worker'[v] = worker[v] \/ worker'[v].at \notin {"reading", "count"}
      BY <1>5, <1>6
    <3> QED
      BY <1>2, <3>1 DEF Landed, Landing
  <2>2. ASSUME NEW q \in Reads, fut'[q] = "pending", ~exc'[q],
               NEW i \in L!Jobs, i \notin Open(q)'
        PROVE  i \subseteq landed'[q]
    <3>1. ~exc[q]
      BY <1>14, <2>2
    <3>2. CASE i \in Open(q)
      <4>1. q = r /\ i = j /\ ~worker[w].failed
        BY <1>11, <1>14, <2>2, <3>2
      <4> QED
        BY <1>1, <1>2, <4>1 DEF Landed, Landing
    <3>3. CASE i \notin Open(q)
      BY <1>2, <2>2, <3>1, <3>3 DEF Landed
    <3> QED
      BY <3>2, <3>3
  <2> QED
    BY <1>2, <1>3, <2>1, <2>2 DEF Landed
<1>22. Writers'
  <2>1. build.verify => \A q \in Reads : Closing(q)' <=> Closing(q)
    BY <1>1, <1>5, <1>6 DEF Closing
  <2> QED
    BY <1>2, <2>1 DEF Writers
<1> QED
  BY <1>17, <1>18, <1>19, <1>20, <1>21, <1>22

\* What a thread does after the count: on_done, the Future, the callback.
LEMMA AfterwardsKeeps ==
  ASSUME LatchInv, NEW w \in Workers, L!OnDone(w) \/ L!Resolve(w) \/ L!Callback(w)
  PROVE  LatchInv'
<1> USE DEF LatchInv
<1> DEFINE r == worker[w].read
           x == worker'[w]
<1>1. /\ build' = build /\ mlx' = mlx /\ current' = current /\ unsent' = unsent
      /\ queue' = queue /\ left' = left /\ exc' = exc /\ landed' = landed
  BY DEF L!OnDone, L!Resolve, L!Callback
<1>2. /\ worker[w].at \in {"quiet", "resolve", "callback"}
      /\ worker \in [Workers -> WorkerStates] /\ worker[w] \in WorkerStates
  BY DEF L!OnDone, L!Resolve, L!Callback, LatchTypes
<1>3. r \in Reads /\ worker[w].job \in L!Jobs /\ L!Jobs' = L!Jobs
  BY <1>1, <1>2, JobsKept DEF LatchTypes
<1>4. /\ worker' = [worker EXCEPT ![w] = x] /\ x \in WorkerStates
      /\ x.at \in {"idle", "resolve", "callback"}
      /\ x.at # "idle" => x.read = r /\ x.job = worker[w].job
      /\ x.at = "resolve" <=> L!OnDone(w)
  <2>1. CASE L!OnDone(w)
    <3>1. worker' = [worker EXCEPT ![w] = [worker[w] EXCEPT !.at = "resolve"]]
      BY <1>2, <2>1 DEF L!OnDone
    <3> QED
      BY <1>2, <2>1, <3>1 DEF WorkerStates, L!Stages
  <2>2. CASE L!Resolve(w)
    <3>1. /\ worker' = [worker EXCEPT ![w] = IF r \in Guesses THEN [worker[w] EXCEPT !.at = "callback"]
                                             ELSE L!Idle]
          /\ ~L!OnDone(w)
      BY <1>2, <2>2 DEF L!Resolve, L!OnDone
    <3> QED
      BY <1>2, <3>1 DEF WorkerStates, L!Stages, L!Idle
  <2>3. CASE L!Callback(w)
    <3>1. worker' = [worker EXCEPT ![w] = L!Idle] /\ ~L!OnDone(w)
      BY <2>3 DEF L!Callback, L!OnDone
    <3> QED
      BY <1>2, <3>1 DEF WorkerStates, L!Stages, L!Idle
  <2> QED
    BY <2>1, <2>2, <2>3
<1> HIDE DEF x
<1>5. \A v \in Workers : worker'[v] = IF v = w THEN x ELSE worker[v]
  BY <1>2, <1>4
<1>6. /\ Held' = Held /\ ~Counting(w)' /\ ~Counting(w)
      /\ \A v \in Workers : v # w => (Counting(v)' <=> Counting(v)) /\ HeldBy(v)' = HeldBy(v)
  <2>1. ~Counting(w) /\ x.at \notin {"reading", "count"}
    BY <1>2, <1>4 DEF Counting
  <2> QED
    BY <1>2, <1>4, <2>1, HeldSame
<1>7. Unsent' = Unsent /\ Queued' = Queued
  BY <1>1 DEF Unsent, Queued
<1>8. Out' = Out
  BY <1>6, <1>7 DEF Out
<1>9. \A q \in Reads : Open(q)' = Open(q)
  BY <1>1, <1>8, OpenKept
<1>10. /\ \A v \in Workers : v # w => (Ending(v)' <=> Ending(v)) /\ worker'[v] = worker[v]
       /\ Ending(w)' <=> L!OnDone(w)
  BY <1>4, <1>5 DEF Ending
<1>11. Ending(w) <=> ~L!Callback(w)
  BY <1>2 DEF Ending, L!OnDone, L!Resolve, L!Callback
<1>12. \A v \in Workers : v # w /\ Ending(v) /\ Ending(w) => worker[v].read # r
  BY DEF Counted
<1>13. Ending(w) => fut[r] = "pending" /\ Open(r) = {}
  BY DEF Counted
<1>14. /\ L!Resolve(w) => \A q \in Reads :
            fut'[q] = IF q = r THEN (IF exc[r] THEN "failed" ELSE "ok") ELSE fut[q]
       /\ ~L!Resolve(w) => fut' = fut
       /\ fut' \in [Reads -> {"none", "pending", "ok", "failed"}]
  BY <1>3 DEF L!OnDone, L!Resolve, L!Callback, LatchTypes
<1>15. /\ L!OnDone(w) => \A q \in Reads : writing'[q] = IF q = r THEN writing[r] - 1 ELSE writing[q]
       /\ ~L!OnDone(w) => writing' = writing
       /\ writing' \in [Reads -> Int]
  BY <1>3 DEF L!OnDone, L!Resolve, L!Callback, LatchTypes
<1>16. \A q \in Reads : fut'[q] = "pending" => fut[q] = "pending"
  BY <1>14
<1>17. LatchTypes'
  <2>1. worker' \in [Workers -> WorkerStates]
    BY <1>2, <1>4
  <2>2. ASSUME NEW v \in Workers, worker'[v].at # "idle"
        PROVE  worker'[v].read \in Reads /\ worker'[v].job \in L!Jobs
    BY <1>3, <1>4, <1>5, <2>2 DEF LatchTypes
  <2> QED
    BY <1>1, <1>3, <1>14, <1>15, <2>1, <2>2 DEF LatchTypes
<1>18. OnePlace'
  <2>1. \A u, v \in Workers : u # v /\ Counting(u)' /\ Counting(v)' => HeldBy(u)' # HeldBy(v)'
    BY <1>6 DEF OnePlace
  <2> QED
    BY <1>1, <1>6, <1>7, <2>1 DEF OnePlace
<1>19. Pushing'
  <2>1. ASSUME mlx \in {"push", "on_done", "resolve"} PROVE fut'[current] = "pending"
    <3>1. L!Resolve(w) => current # r
      <4>1. Ending(w) => Open(r) = {}
        BY <1>13
      <4>2. mlx = "push" => Open(current) # {}
        BY DEF Pushing, LatchTypes, Open, Out, Unsent
      <4> QED
        BY <1>11, <2>1, <4>1, <4>2 DEF Pushing, L!Resolve, L!Callback
    <3> QED
      BY <1>14, <2>1, <3>1 DEF Pushing
  <2>2. ASSUME mlx \in {"on_done", "resolve"}
        PROVE  Open(current)' = {} /\ \A v \in Workers : Ending(v)' => worker'[v].read # current
    <3>1. Open(current)' = {}
      BY <1>1, <1>9, <2>2 DEF Pushing
    <3>2. \A v \in Workers : Ending(v)' => Ending(v) /\ worker'[v].read = worker[v].read
      BY <1>4, <1>5, <1>10, <1>11 DEF L!OnDone, L!Callback
    <3> QED
      BY <2>2, <3>1, <3>2 DEF Pushing
  <2>3. mlx = "freed" => \A q \in Reads : fut'[q] # "pending"
    BY <1>16 DEF Pushing
  <2> QED
    BY <1>1, <2>1, <2>2, <2>3 DEF Pushing
<1>20. Counted'
  <2>1. \A q \in Reads : fut'[q] = "pending" => left'[q] = Cardinality(Open(q)')
    BY <1>1, <1>9, <1>16 DEF Counted
  <2>2. \A q \in Reads : fut'[q] # "pending" => Open(q)' = {}
    <3>1. L!Resolve(w) => Ending(w)
      BY DEF L!Resolve, Ending
    <3> QED
      BY <1>9, <1>13, <1>14, <3>1 DEF Counted
  <2>3. \A v \in Workers : Ending(v)' => Ending(v) /\ worker'[v].read = worker[v].read
    BY <1>4, <1>5, <1>10, <1>11 DEF L!OnDone, L!Callback
  <2>4. ASSUME NEW v \in Workers, Ending(v)'
        PROVE  fut'[worker'[v].read] = "pending" /\ Open(worker[v].read)' = {}
    <3>1. /\ Ending(v) /\ worker'[v].read = worker[v].read /\ worker[v].read \in Reads
          /\ fut[worker[v].read] = "pending" /\ Open(worker[v].read) = {}
      BY <2>3, <2>4 DEF Counted, Ending, LatchTypes
    <3>2. L!Resolve(w) => Ending(w) /\ v # w
      BY <1>10, <2>4 DEF L!Resolve, L!OnDone, Ending
    <3>3. L!Resolve(w) => worker[v].read # r
      BY <1>12, <3>1, <3>2
    <3> QED
      BY <1>9, <1>14, <3>1, <3>3
  <2>5. \A u, v \in Workers : u # v /\ Ending(u)' /\ Ending(v)' => worker'[u].read # worker'[v].read
    BY <2>3 DEF Counted
  <2> QED
    BY <2>1, <2>2, <2>4, <2>5 DEF Counted
<1>21. Landed'
  <2>1. \A v \in Workers : Landing(v)'
    <3>1. \A v \in Workers : worker'[v] = worker[v] \/ worker'[v].at \notin {"reading", "count"}
      BY <1>4, <1>5
    <3> QED
      BY <1>1, <3>1 DEF Landed, Landing
  <2>2. \A q \in Reads : fut'[q] = "pending" /\ ~exc'[q] =>
          \A j \in L!Jobs' : j \notin Open(q)' => j \subseteq landed'[q]
    BY <1>1, <1>3, <1>9, <1>16 DEF Landed
  <2>3. ASSUME NEW q \in Reads, fut'[q] = "ok" PROVE landed'[q] = Parts
    <3>1. CASE fut[q] = "ok"
      BY <1>1, <3>1 DEF Landed
    <3>2. CASE fut[q] # "ok"
      <4>1. L!Resolve(w) /\ q = r /\ ~exc[q] /\ Ending(w)
        BY <1>14, <2>3, <3>2 DEF L!Resolve, Ending
      <4>2. fut[q] = "pending" /\ Open(q) = {}
        BY <1>13, <4>1
      <4>3. \A j \in L!Jobs : j \subseteq landed[q]
        BY <4>1, <4>2 DEF Landed
      <4>4. Parts \subseteq landed[q] /\ landed[q] \subseteq Parts
        BY <4>3, JobsCover DEF LatchTypes
      <4> QED
        BY <1>1, <4>4
    <3> QED
      BY <3>1, <3>2
  <2> QED
    BY <2>1, <2>2, <2>3 DEF Landed
<1>22. Writers'
  <2> SUFFICES ASSUME build.verify, NEW q \in Reads
               PROVE  writing'[q] = IF fut'[q] = "pending" /\ ~Closing(q)' THEN 1 ELSE 0
    BY <1>1 DEF Writers
  <2>1. writing[q] = IF fut[q] = "pending" /\ ~Closing(q) THEN 1 ELSE 0
    BY DEF Writers
  <2>2. q # r => (Closing(q)' <=> Closing(q))
    BY <1>4, <1>5 DEF Closing
  <2>3. CASE L!OnDone(w)
    <3>1. worker[w].at = "quiet" /\ Ending(w)
      BY <2>3 DEF L!OnDone, Ending
    <3>2. ~Closing(r) /\ fut[r] = "pending"
      BY <1>12, <1>13, <3>1 DEF Closing, Ending
    <3>3. q = r => Closing(q)'
      BY <1>4, <1>5, <2>3 DEF Closing
    <3>4. fut' = fut
      BY <2>3 DEF L!OnDone
    <3> QED
      BY <1>15, <2>1, <2>2, <2>3, <3>2, <3>3, <3>4
  <2>4. CASE L!Resolve(w)
    <3>1. worker[w].at = "resolve" /\ writing' = writing
      BY <2>4 DEF L!Resolve
    <3>2. Closing(r)
      BY <3>1 DEF Closing
    <3>3. fut'[q] = IF q = r THEN (IF exc[r] THEN "failed" ELSE "ok") ELSE fut[q]
      BY <1>14, <2>4
    <3> QED
      BY <2>1, <2>2, <3>1, <3>2, <3>3
  <2>5. CASE L!Callback(w)
    <3>1. worker[w].at = "callback" /\ x.at # "resolve" /\ writing' = writing /\ fut' = fut
      BY <1>4, <2>5 DEF L!Callback, L!OnDone
    <3>2. Closing(q)' <=> Closing(q)
      BY <1>5, <3>1 DEF Closing
    <3> QED
      BY <2>1, <3>1, <3>2
  <2> QED
    BY <2>3, <2>4, <2>5
<1> QED
  BY <1>17, <1>18, <1>19, <1>20, <1>21, <1>22

LEMMA LatchStep == LatchInv /\ L!Next => LatchInv'
<1> SUFFICES ASSUME LatchInv, L!Next PROVE LatchInv'
  OBVIOUS
<1>1. CASE \E r \in Reads : L!Submit(r) \/ L!Drop(r)
  BY <1>1, SubmitKeeps, DropKeeps
<1>2. CASE \E j \in L!Jobs : L!Push(j)
  BY <1>2, PushKeeps
<1>3. CASE L!PushFails \/ L!PushResolve
  BY <1>3, PushFailsKeeps, PushResolveKeeps
<1>4. CASE L!Unlock \/ L!Freeze \/ L!Release \/ L!Rebuild
  BY <1>4, SlabKeeps
<1>5. CASE \E w \in Workers : L!Reader(w)
  <2>1. PICK w \in Workers : L!Reader(w)
    BY <1>5
  <2> QED
    BY <2>1, TakeKeeps, ReadingKeeps, CountKeeps, AfterwardsKeeps DEF L!Reader
<1> QED
  BY <1>1, <1>2, <1>3, <1>4, <1>5 DEF L!Next, L!Ask, L!Go

LEMMA LatchStill == LatchInv /\ latch' = latch => LatchInv'
<1> SUFFICES ASSUME LatchInv, latch' = latch PROVE LatchInv'
  OBVIOUS
<1>1. /\ build' = build /\ lock' = lock /\ mlx' = mlx /\ current' = current /\ unsent' = unsent
      /\ queue' = queue /\ worker' = worker /\ left' = left /\ exc' = exc /\ fut' = fut
      /\ landed' = landed /\ writing' = writing
  BY DEF latch
<1>2. L!Jobs' = L!Jobs
  BY <1>1, JobsKept
<1>3. Unsent' = Unsent /\ Queued' = Queued /\ Held' = Held /\ Out' = Out
  BY <1>1, HeldStill DEF Unsent, Queued, Out
<1>4. LatchTypes'
  BY <1>1, <1>2 DEF LatchInv, LatchTypes
<1>5. OnePlace'
  BY <1>1, <1>3, HeldStill DEF LatchInv, OnePlace
<1>6. Pushing'
  <2>1. current \in Reads => Open(current)' = Open(current)
    BY <1>1, <1>3, OpenKept
  <2> QED
    BY <1>1, <2>1, HeldStill DEF LatchInv, Pushing
<1>7. Counted' /\ Landed' /\ Writers'
  BY <1>1, <1>3, ReadsKept DEF LatchInv, Writers
<1> QED
  BY <1>4, <1>5, <1>6, <1>7 DEF LatchInv

LEMMA LatchQuiet == LatchInv => NobodyWrites /\ L!ResultIsWhole
<1> SUFFICES ASSUME LatchInv PROVE NobodyWrites /\ L!ResultIsWhole
  OBVIOUS
<1> USE DEF LatchInv
<1>1. ASSUME NEW w \in Workers, worker[w].at = "reading"
      PROVE  /\ worker[w].read \in Reads /\ Open(worker[w].read) # {}
             /\ fut[worker[w].read] = "pending"
  <2>1. worker[w].read \in Reads /\ worker[w].job \in L!Jobs /\ HeldBy(w) \in Out
    BY <1>1 DEF LatchTypes, Out, Held, Counting
  <2>2. worker[w].job \in Open(worker[w].read)
    BY <2>1 DEF Open, HeldBy
  <2> QED
    BY <2>1, <2>2 DEF Counted
<1>2. L!ResolvedQuiet
  BY PendingIsOpen DEF L!ResolvedQuiet, Counted
<1>3. L!FreedQuiet
  BY <1>1 DEF L!FreedQuiet, Pushing
<1>4. L!WritersCounted
  <2> SUFFICES ASSUME build.verify
               PROVE  /\ \A w \in Workers : worker[w].at = "reading" => writing[worker[w].read] > 0
                      /\ \A r \in Reads : fut[r] # "pending" => writing[r] = 0
    BY DEF L!WritersCounted
  <2>1. \A r \in Reads : Closing(r) => Open(r) = {}
    BY DEF Closing, Counted, Ending
  <2> QED
    BY <1>1, <2>1 DEF Writers
<1>5. L!ResultIsWhole
  BY DEF L!ResultIsWhole, Landed
<1> QED
  BY <1>2, <1>3, <1>4, <1>5 DEF NobodyWrites

-----------------------------------------------------------------------------
(* The executor path: what waits for a slice thread is queued, once.          *)

SliceStates == {"none", "queued", "reading", "ok", "failed"}
Waiting(x)  == slice[x[1]][x[2]] = "queued"

SliceInv ==
  /\ S!TypeOK
  /\ \A x \in ToSet(tasks) : Waiting(x)
  /\ IsInjective(tasks)
  /\ S!ResultIsWhole

LEMMA SliceInit == S!Init => SliceInv
  BY EmptySeq DEF S!Init, SliceInv, S!TypeOK, S!ResultIsWhole, ToSet, IsInjective

LEMMA SliceStill == SliceInv /\ slices' = slices => SliceInv'
  BY DEF slices, SliceInv, S!TypeOK, S!ResultIsWhole, Waiting

LEMMA TasksTyped == SliceInv => ToSet(tasks) \subseteq Reads \X Slices
  BY SetOfSeq DEF SliceInv, S!TypeOK

\* One slice changes.
LEMMA SliceSet ==
  ASSUME SliceInv, NEW r \in Reads, NEW p \in Slices, NEW v \in SliceStates, S!Set(r, p, v)
  PROVE  /\ slice' \in [Reads -> [Slices -> SliceStates]]
         /\ \A q \in Reads, i \in Slices :
              slice'[q][i] = IF q = r /\ i = p THEN v ELSE slice[q][i]
         /\ \A x \in ToSet(tasks) : x # <<r, p>> => Waiting(x)'
<1>1. slice \in [Reads -> [Slices -> SliceStates]]
  BY DEF SliceInv, S!TypeOK, SliceStates
<1>2. slice' \in [Reads -> [Slices -> SliceStates]]
  BY <1>1 DEF S!Set
<1>3. \A q \in Reads, i \in Slices :
        slice'[q][i] = IF q = r /\ i = p THEN v ELSE slice[q][i]
  BY <1>1 DEF S!Set
<1>4. ASSUME NEW x \in ToSet(tasks), x # <<r, p>> PROVE Waiting(x)'
  <2>1. x[1] \in Reads /\ x[2] \in Slices /\ x = <<x[1], x[2]>>
    BY TasksTyped
  <2> QED
    BY <1>3, <1>4, <2>1 DEF SliceInv, Waiting
<1> QED
  BY <1>2, <1>3, <1>4

\* The reads move, their slices do not.
LEMMA ReadMoves ==
  ASSUME SliceInv, NEW r \in Reads, S!Begin(r) \/ S!Issued(r) \/ S!EndOk(r) \/ S!EndFailed(r)
  PROVE  SliceInv'
<1>1. slice' = slice /\ tasks' = tasks /\ slab' = slab
  BY DEF S!Begin, S!Issued, S!EndOk, S!EndFailed
<1>2. PICK v \in {"issue", "wait", "ok", "failed"} :
        /\ at' = [at EXCEPT ![r] = v]
        /\ v = "ok" => \A p \in Slices : slice[r][p] = "ok"
  BY DEF S!Begin, S!Issued, S!EndOk, S!EndFailed
<1>3. jobs' \in Seq(Reads)
  <2>1. jobs \in Seq(Reads)
    BY DEF SliceInv, S!TypeOK
  <2>2. jobs # <<>> => Tail(jobs) \in Seq(Reads)
    BY <2>1, HeadTailProperties
  <2> QED
    BY <2>1, <2>2 DEF S!Begin, S!Issued, S!EndOk, S!EndFailed
<1>4. S!TypeOK'
  BY <1>1, <1>2, <1>3 DEF SliceInv, S!TypeOK
<1>5. S!ResultIsWhole'
  BY <1>1, <1>2 DEF SliceInv, S!TypeOK, S!ResultIsWhole
<1> QED
  BY <1>1, <1>4, <1>5 DEF SliceInv, Waiting

\* A slice is handed out.
LEMMA IssueKeeps ==
  ASSUME SliceInv, NEW r \in Reads, NEW p \in Slices, S!Issue(r, p)
  PROVE  SliceInv'
<1> DEFINE e == <<r, p>>
           v == IF p \in Inline THEN "reading" ELSE "queued"
<1>1. /\ at[r] = "issue" /\ slice[r][p] = "none" /\ S!Set(r, p, v)
      /\ tasks' = (IF p \in Inline THEN tasks ELSE Append(tasks, e))
      /\ at' = at /\ jobs' = jobs /\ slab' = slab
  BY DEF S!Issue
<1>2. v \in SliceStates /\ (p \notin Inline => v = "queued")
  BY DEF SliceStates
<1>3. e \in Reads \X Slices /\ e \notin ToSet(tasks)
  BY <1>1 DEF SliceInv, Waiting
<1>4. tasks \in Seq(Reads \X Slices) /\ IsInjective(tasks)
  BY DEF SliceInv, S!TypeOK
<1>5. /\ tasks' \in Seq(Reads \X Slices) /\ IsInjective(tasks')
      /\ ToSet(tasks') = ToSet(tasks) \cup (IF p \in Inline THEN {} ELSE {e})
  <2> HIDE DEF e
  <2> QED
    BY <1>1, <1>3, <1>4, Appended
<1> HIDE DEF v
<1>6. /\ slice' \in [Reads -> [Slices -> SliceStates]]
      /\ \A q \in Reads, i \in Slices :
           slice'[q][i] = IF q = r /\ i = p THEN v ELSE slice[q][i]
      /\ \A x \in ToSet(tasks) : x # e => Waiting(x)'
  BY <1>1, <1>2, SliceSet
<1>7. \A x \in ToSet(tasks') : Waiting(x)'
  <2>1. p \notin Inline => Waiting(e)'
    BY <1>2, <1>6 DEF Waiting
  <2> QED
    BY <1>3, <1>5, <1>6, <2>1
<1>8. S!TypeOK'
  BY <1>1, <1>5, <1>6 DEF SliceInv, S!TypeOK, SliceStates
<1>9. S!ResultIsWhole'
  BY <1>1, <1>6 DEF SliceInv, S!ResultIsWhole
<1> QED
  BY <1>5, <1>7, <1>8, <1>9 DEF SliceInv

\* A thread takes a slice.
LEMMA TakeSliceKeeps ==
  ASSUME SliceInv, NEW r \in Reads, NEW p \in Slices, S!TakeSlice(r, p)
  PROVE  SliceInv'
<1> DEFINE e == <<r, p>>
<1>1. /\ tasks # <<>> /\ Head(tasks) = e /\ tasks' = Tail(tasks) /\ S!Set(r, p, "reading")
      /\ at' = at /\ jobs' = jobs /\ slab' = slab
  BY DEF S!TakeSlice
<1>2. /\ tasks' \in Seq(Reads \X Slices) /\ IsInjective(tasks')
      /\ ToSet(tasks') = ToSet(tasks) \ {e} /\ e \in ToSet(tasks)
  <2>1. tasks \in Seq(Reads \X Slices) /\ IsInjective(tasks)
    BY DEF SliceInv, S!TypeOK
  <2> HIDE DEF e
  <2> QED
    BY <1>1, <2>1, Taken
<1>3. slice[r][p] = "queued"
  BY <1>2 DEF SliceInv, Waiting
<1>4. /\ slice' \in [Reads -> [Slices -> SliceStates]]
      /\ \A q \in Reads, i \in Slices :
           slice'[q][i] = IF q = r /\ i = p THEN "reading" ELSE slice[q][i]
      /\ \A x \in ToSet(tasks) : x # e => Waiting(x)'
  <2>1. "reading" \in SliceStates
    BY DEF SliceStates
  <2> QED
    BY <1>1, <2>1, SliceSet
<1>5. S!TypeOK'
  BY <1>1, <1>2, <1>4 DEF SliceInv, S!TypeOK, SliceStates
<1>6. S!ResultIsWhole'
  BY <1>1, <1>3, <1>4 DEF SliceInv, S!ResultIsWhole
<1> QED
  BY <1>2, <1>4, <1>5, <1>6 DEF SliceInv

\* A slice is in, or its read fails.
LEMMA SliceEnds ==
  ASSUME SliceInv, NEW r \in Reads, NEW p \in Slices, S!SliceDone(r, p) \/ S!SliceFails(r, p)
  PROVE  SliceInv'
<1>1. /\ slice[r][p] = "reading" /\ tasks' = tasks /\ jobs' = jobs /\ slab' = slab
      /\ at' = at \/ at' = [at EXCEPT ![r] = "failed"]
  BY DEF S!SliceDone, S!SliceFails
<1>2. PICK v \in {"ok", "failed"} : S!Set(r, p, v)
  BY DEF S!SliceDone, S!SliceFails
<1>3. /\ slice' \in [Reads -> [Slices -> SliceStates]]
      /\ \A q \in Reads, i \in Slices :
           slice'[q][i] = IF q = r /\ i = p THEN v ELSE slice[q][i]
      /\ \A x \in ToSet(tasks) : x # <<r, p>> => Waiting(x)'
  <2>1. v \in SliceStates
    BY DEF SliceStates
  <2> QED
    BY <1>2, <2>1, SliceSet
<1>4. <<r, p>> \notin ToSet(tasks)
  BY <1>1 DEF SliceInv, Waiting
<1>5. S!TypeOK'
  BY <1>1, <1>3 DEF SliceInv, S!TypeOK, SliceStates
<1>6. S!ResultIsWhole'
  <2>1. at[r] # "ok"
    BY <1>1 DEF SliceInv, S!ResultIsWhole
  <2> SUFFICES ASSUME NEW q \in Reads, at'[q] = "ok", NEW i \in Slices PROVE slice'[q][i] = "ok"
    BY DEF S!ResultIsWhole
  <2>2. at[q] = "ok" /\ q # r
    BY <1>1, <2>1 DEF SliceInv, S!TypeOK
  <2> QED
    BY <1>3, <2>2 DEF SliceInv, S!ResultIsWhole
<1> QED
  BY <1>1, <1>3, <1>4, <1>5, <1>6 DEF SliceInv

\* A read starts over, with none of its slices queued.
LEMMA AgainKeeps ==
  ASSUME SliceInv, NEW r \in Reads, S!Again(r)
  PROVE  SliceInv'
<1>1. /\ \A p \in Slices : slice[r][p] # "queued"
      /\ at' = [at EXCEPT ![r] = "queued"]
      /\ slice' = [slice EXCEPT ![r] = [p \in Slices |-> "none"]]
      /\ jobs' = Append(jobs, r) /\ tasks' = tasks /\ slab' = slab
  BY DEF S!Again
<1>2. jobs' \in Seq(Reads)
  BY <1>1, AppendProperties DEF SliceInv, S!TypeOK
<1>3. S!TypeOK'
  BY <1>1, <1>2 DEF SliceInv, S!TypeOK
<1>4. ASSUME NEW x \in ToSet(tasks) PROVE Waiting(x)'
  <2>1. x[1] \in Reads /\ x[2] \in Slices /\ slice[x[1]][x[2]] = "queued"
    BY TasksTyped DEF SliceInv, Waiting
  <2> QED
    BY <1>1, <2>1 DEF SliceInv, S!TypeOK, Waiting
<1>5. S!ResultIsWhole'
  BY <1>1 DEF SliceInv, S!TypeOK, S!ResultIsWhole
<1> QED
  BY <1>1, <1>3, <1>4, <1>5 DEF SliceInv

LEMMA SliceStep == SliceInv /\ S!Next => SliceInv'
<1> SUFFICES ASSUME SliceInv, S!Next PROVE SliceInv'
  OBVIOUS
<1>1. ASSUME NEW r \in Reads, S!Thread(r) PROVE SliceInv'
  BY <1>1, ReadMoves, IssueKeeps, TakeSliceKeeps, SliceEnds DEF S!Thread
<1>2. ASSUME NEW r \in Reads, S!Again(r) PROVE SliceInv'
  BY <1>2, AgainKeeps
<1>3. CASE S!Freeze \/ S!Release \/ S!Rebuild
  BY <1>3 DEF S!Freeze, S!Release, S!Rebuild, SliceInv, S!TypeOK, S!ResultIsWhole, Waiting
<1> QED
  BY <1>1, <1>2, <1>3 DEF S!Next

-----------------------------------------------------------------------------
(* Both together.                                                             *)

LEMMA BothInvariants == Spec => [](LatchInv /\ SliceInv)
<1>1. Init => LatchInv /\ SliceInv
  BY LatchInit, SliceInit DEF Init
<1>2. LatchInv /\ SliceInv /\ [Next]_vars => LatchInv' /\ SliceInv'
  <2> SUFFICES ASSUME LatchInv, SliceInv, [Next]_vars PROVE LatchInv' /\ SliceInv'
    OBVIOUS
  <2>1. CASE ByLatch
    BY <2>1, LatchStep, SliceStill DEF ByLatch
  <2>2. CASE BySlices
    BY <2>2, LatchStill, SliceStep DEF BySlices
  <2>3. CASE UNCHANGED vars
    BY <2>3, LatchStill, SliceStill DEF vars
  <2> QED
    BY <2>1, <2>2, <2>3 DEF Next
<1> QED
  BY <1>1, <1>2, PTL DEF Spec

\* Nobody writes into a slot whose Future has resolved, into memory that has been
\* handed back, or where check_slots counts no writer, for any number of reads,
\* components and threads, on either pool, whatever fails (_SlotLatch, on_done,
\* _release_slab).
THEOREM ResolvedIsQuiet == Spec => []NobodyWrites
<1>1. LatchInv => NobodyWrites
  BY LatchQuiet
<1> QED
  BY <1>1, BothInvariants, PTL

\* A read that resolved with a result is whole in its slot: the latch loses no
\* failure in its count, and the executor path waits for every slice (done,
\* _read_slab_inner).
THEOREM ResolvedIsWhole == Spec => []ResultIsWhole
<1>1. LatchInv /\ SliceInv => ResultIsWhole
  BY LatchQuiet DEF ResultIsWhole, SliceInv
<1> QED
  BY <1>1, BothInvariants, PTL

\* A Future is resolved once: a thread is about to resolve a read only while the
\* Future is pending, and no other thread is (done, set_result, set_exception).
THEOREM ResolvedOnlyOnce == Spec => ResolvedOnce
<1>1. LatchInv => \A w \in Workers : L!Resolve(w) => fut[worker[w].read] = "pending"
  BY DEF LatchInv, Counted, Ending, L!Resolve
<1>2. LatchInv => [\A w \in Workers : L!Resolve(w) => fut[worker[w].read] = "pending"]_L!vars
  BY <1>1
<1> QED
  BY <1>2, BothInvariants, PTL DEF ResolvedOnce, L!ResolvedOnce

=============================================================================
