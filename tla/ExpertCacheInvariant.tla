------------------------- MODULE ExpertCacheInvariant -------------------------
(***************************************************************************)
(* The inductive invariant of ExpertCache: who may refer to a slot, and     *)
(* what keeps the slot from being reused while it is referred to.  It holds *)
(* for every value of the constants until one of two races is lost, which   *)
(* the code leaves open: Overtakes and Snatches.                            *)
(***************************************************************************)
EXTENDS ExpertCache

\* A thread that waited for a read takes its result before the read's callback has
\* run: the callback then stages or installs an expert that is somewhere else already
\* (hazard H1; only with CallbackLag).
Overtakes == \E k \in cb : Consume(k) \/ Drain(k)

\* A callback gives away the slot of an expert that a prefill fetching on top of the
\* slab waits for or has collected: such a fetch pins nothing (hazard H14; only with
\* SoftOnSlab).
Snatches ==
  /\ pc = "wait" /\ mode = "soft"
  /\ \E k \in Experts : Callback(k)
  /\ \E k \in due \cup In(got) : slotOf[k] \in Slots /\ slotOf'[k] # slotOf[k]

Race == Overtakes \/ Snatches

\* The shape of each stage of the MLX thread.  What a loop under the lock still
\* has to submit is unknown to the cache; what it still has to install is
\* everything that was collected.
Stages ==
  /\ pc \in {"idle", "wait", "drain"} => todo = {}
  /\ pc \in {"submit", "spec"} =>
       \A k \in todo : /\ lru[k] = None /\ raw[k] = None /\ got[k] = None
                       /\ k \notin inflight \cup due
  /\ pc = "install" => todo = In(got)
  /\ pc \in {"idle", "spec", "drain"} => In(got) = {}
  /\ pc \in {"idle", "spec", "install"} => due = {}
  /\ pc = "drain" =>
       /\ slab = "on"
       /\ \A k \in inflight \ due : st[k] \in {"ok", "failed"} /\ k \notin cb
  /\ pc \in {"submit", "wait", "install"} => mode \in {"lru", "soft"}
  /\ pc = "spec" => mode \in {"now", "stage"}

\* A read has a Future exactly as long as somebody refers to it, and an expert
\* is resident, staged, collected or being read, but only one of them (resident
\* and collected excepted: an install_now callback may come first).
Futures ==
  /\ cb \subseteq inflight /\ now \subseteq cb
  /\ \A k \in Experts : st[k] # "none" <=> k \in inflight \cup due
  /\ \A k \in Experts : st[k] # "none" <=> dest[k] # None
  /\ \A k \in Experts : st[k] = "reading" => k \in inflight
  /\ \A k \in inflight : lru[k] = None /\ raw[k] = None /\ got[k] = None
  /\ \A k \in In(raw) : lru[k] = None /\ got[k] = None
  /\ \A k \in In(got) : k \notin due

\* A read into a slot owns it, and once it has landed the slot holds the expert.
Owns(k) ==
  dest[k] \in Slots =>
    /\ slotOf[k] = dest[k]
    /\ st[k] = "ok" => bytes[dest[k]] = k

\* What a decode fetch waits for or has collected is pinned, so that a callback cannot
\* give the slot away first.  A prefill's fetch pins nothing.
Held(s) == mode = "lru" => s \in pinned

\* Every read somebody refers to owns its slot.
ReadsOwn ==
  /\ \A k \in inflight : Owns(k)
  /\ pc \in {"submit", "wait"} =>
       \A k \in due : Owns(k) /\ (dest[k] \in Slots => Held(dest[k]))

\* So does an entry the fetch has collected.
GotOwns ==
  \A k \in Experts : got[k] \in Slots =>
    slotOf[k] = got[k] /\ bytes[got[k]] = k /\ Held(got[k])

\* What the pending graph of a fetch reads: resident and pinned for a decode fetch.
\* A prefill's is evaluated before the fetch is over; until then its slots may change
\* owner but nothing is read into them.  (The graph of a flow layer pins nothing;
\* nothing else here depends on what is pending.)
UsedPinned ==
  IF mode = "soft"
    THEN /\ pc \in {"idle", "drain"} => used = Empty
         /\ \A k \in Experts : used[k] \in Slots =>
              bytes[used[k]] = k /\ \A j \in Experts : st[j] = "reading" => dest[j] # used[k]
    ELSE \A k \in Experts : used[k] \in Slots => lru[k] = used[k] /\ used[k] \in pinned

\* Without a slab nothing names a slot.
NoSlab ==
  slab # "on" =>
    /\ \A k \in Experts : {lru[k], raw[k], got[k], used[k], dest[k]} \cap Slots = {}
    /\ slotOf = Empty /\ pinned = {}

Owned ==
  /\ TypeOK
  /\ Stages
  /\ Futures
  /\ ReadsOwn
  /\ GotOwns
  /\ NoSlab
  /\ NoSharedSlot
  /\ ResidentIntact
  /\ GuessIntact
  /\ NoLooseResident

IInv == Owned /\ UsedPinned

=============================================================================
