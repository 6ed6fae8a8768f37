----------------------------- MODULE ExpertCache -----------------------------
(***************************************************************************)
(* The expert cache of expert_stream/cache.py: which experts of a MoE      *)
(* model are in memory, which slot of the slab each one occupies, and how  *)
(* disk reads started by the model (MLX) thread, and finished on reader    *)
(* threads, move experts in and out of slots.                              *)
(*                                                                         *)
(* Threads.  One MLX thread runs fetch, prefetch, relieve_pressure,        *)
(* enter_prefill and leave_prefill, one call at a time; `pc` says where it *)
(* stands.  Reader threads finish reads (ReadDone, ReadFail) and then run  *)
(* the completion callback of a speculative read (Callback).  The cache    *)
(* has one non-reentrant lock.  A critical section without a loop is one   *)
(* action; the loops that run under the lock are unrolled, one iteration   *)
(* per action, and pc \in Locked keeps every other thread out meanwhile.   *)
(*                                                                         *)
(* An expert here is the code's key (layer_key, expert_id).  Every expert  *)
(* has the same size (slabs require it), so the byte budgets and byte caps *)
(* of the code are counted in experts.  The order of the two OrderedDicts  *)
(* is abstracted: the eviction victim is any unpinned resident expert and  *)
(* the "oldest" staged guess is any guess other than the one just staged.  *)
(***************************************************************************)
EXTENDS Integers, FiniteSets

CONSTANTS
  Experts,        \* the cache keys
  Slots,          \* the slots of the slab at its full size
  None,           \* "no entry", "no slot"
  Loose,          \* an entry held as loose mx arrays, outside the slab
  Junk,           \* slab bytes that are not (or not yet) an expert
  MaxWant,        \* most experts one fetch or prefetch asks for
  DecodeBudget,   \* _slab_budget: residents allowed while decoding
  PrefillBudget,  \* PREFILL_CACHE_GB: residents allowed during a big prefill
  Reserve,        \* slots held back from the budget when the slab is rebuilt
  MinSlots,       \* fewest slots a rebuilt slab has
  Staging,        \* staging_bytes: unclaimed guesses kept
  SpecCap,        \* _spec_inflight_cap: reads in flight that stop speculation
  CallbackLag,    \* a thread waiting for a read may run before its callback
  SoftOnSlab,     \* a prefill may run while the slab is up (short prompts)
  ReadsFail,      \* reads may fail
  BigPrefill,     \* a prompt of PREFILL_SHRINK_TOKENS or more may arrive
  PredictInstall  \* EXPERT_STREAM_PREDICT_INSTALL

ASSUME CacheAssumption ==
  /\ IsFiniteSet(Experts) /\ IsFiniteSet(Slots)
  /\ None \notin Slots \cup {Loose}
  /\ Loose \notin Slots
  /\ Junk \notin Experts
  /\ {MaxWant, DecodeBudget, PrefillBudget, Staging, SpecCap} \subseteq Nat \ {0}
  /\ {Reserve, MinSlots} \subseteq Nat
  /\ {CallbackLag, SoftOnSlab, ReadsFail, BigPrefill, PredictInstall} \subseteq BOOLEAN

VARIABLES
  pc,        \* what the MLX thread is doing
  mode,      \* the install mode of the fetch in progress
  todo,      \* experts the loop under the lock still has to handle
  due,       \* experts whose reads the MLX thread is waiting for
  got,       \* entries the fetch has collected and not yet installed
  used,      \* entries the last fetch returned: the pending graph reads them
  lru,       \* _lru: the resident entries
  raw,       \* _raw_ready: landed guesses nobody has claimed
  slotOf,    \* _slot_of
  free,      \* _free_slots, as the number of times a slot is on the list
  pinned,    \* _pinned
  inflight,  \* the domain of _inflight
  dest,      \* the entry the newest read of an expert resolves to
  st,        \* the state of that read's Future
  cb,        \* experts whose newest read has a callback that has not run
  now,       \* of those, the ones attached with install_now
  bytes,     \* slab memory: the expert whose weights a slot holds
  slab,      \* "on"; "off": lent to a prefill; "gone": rebuild failed
  budget,    \* budget_bytes
  saved      \* _decode_budget, 0 for None

mlx   == <<pc, mode, todo, due, got, used>>
table == <<lru, raw, slotOf, free, pinned>>
reads == <<inflight, dest, st, cb, now>>
size  == <<slab, budget, saved>>
vars  == <<mlx, table, reads, bytes, size>>

Entry  == Slots \cup {Loose, None}
Locked == {"submit", "spec", "install"}

(***************************************************************************)
(* Sets and small updates.                                                 *)
(***************************************************************************)
In(f)       == {k \in Experts : f[k] # None}        \* the keys of a dict
Without(f, S) == [k \in Experts |-> IF k \in S THEN None ELSE f[k]]
FreeSlots   == {s \in Slots : free[s] > 0}
SlotsOf(S)  == {slotOf[k] : k \in S} \ {None}
Freed(S)    == [s \in Slots |-> IF s \in S THEN free[s] + 1 ELSE free[s]]
Unpinned(S) == {k \in S : slotOf[k] \notin pinned}
AtMost(n, m) == IF n <= m THEN n ELSE m

\* _evict_to_budget: the experts it may evict when `resident` are installed.
\* Pinned experts are skipped and the last resident expert always stays.
Evictions(resident, limit) ==
  LET over == Cardinality(resident) - (IF limit > 1 THEN limit ELSE 1)
      can  == Unpinned(resident)
  IN {E \in SUBSET can :
        Cardinality(E) = IF over <= 0 THEN 0 ELSE AtMost(over, Cardinality(can))}

\* The MLX thread may observe the outcome of k's read.  Future.set_result wakes
\* waiting threads before it runs the callbacks, so with CallbackLag the waiting
\* thread can be first; without it the callback always is.
Visible(k) == CallbackLag \/ k \notin cb

\* A Future nothing refers to any more is forgotten.
Forget(S) ==
  /\ st'   = [k \in Experts |-> IF k \in S THEN "none" ELSE st[k]]
  /\ dest' = Without(dest, S)

\* Start a read of k into entry e (a slot, or Loose): the Future goes into
\* _inflight, and from here on a reader may be writing into the slot.
StartRead(k, e) ==
  /\ inflight' = inflight \cup {k}
  /\ dest'     = [dest EXCEPT ![k] = e]
  /\ st'       = [st EXCEPT ![k] = "reading"]
  /\ bytes'    = [s \in Slots |-> IF s = e THEN Junk ELSE bytes[s]]

\* _submit_run: a read into a buffer of its own, outside the slab.  The Futures
\* of one run resolve together in the code, in any order here.
StartLoose(k) == StartRead(k, Loose)

\* Mutant: the free list is not looked at before a slot is popped off it.
TakeAnySlot(k, s) ==
  /\ free'   = [free EXCEPT ![s] = @ - 1]
  /\ slotOf' = [slotOf EXCEPT ![k] = s]
  /\ pinned' = pinned \cup {s}

\* The slot handed to a read: off the free list, named by _slot_of, pinned.
TakeSlot(k, s) ==
  /\ free[s] > 0
  /\ free'   = [free EXCEPT ![s] = @ - 1]
  /\ slotOf' = [slotOf EXCEPT ![k] = s]
  /\ pinned' = pinned \cup {s}

\* Mutant: a dropped guess frees its slot even when a fetch has pinned it.
DropPinnedToo(D, staged) ==
  LET back == {k \in D : slotOf[k] # None}
  IN /\ raw'    = Without(staged, D)
     /\ free'   = Freed(SlotsOf(back))
     /\ slotOf' = Without(slotOf, back)

\* _drop_raw without a claim, for each k in D: a slot that is not pinned goes
\* back on the free list, a pinned one stays where it is.
DropGuesses(D, staged) ==
  LET back == Unpinned({k \in D : slotOf[k] # None})
  IN /\ raw'    = Without(staged, D)
     /\ free'   = Freed(SlotsOf(back))
     /\ slotOf' = Without(slotOf, back)

\* Mutant: an evicted expert's slot is freed but stays in _slot_of.
EvictKeysKeepOwner(E, resident) ==
  /\ lru'    = Without(resident, E)
  /\ free'   = Freed(SlotsOf(E))
  /\ UNCHANGED slotOf

\* _evict_key for each k in E; `resident` is the LRU the keys leave.
EvictKeys(E, resident) ==
  /\ lru'    = Without(resident, E)
  /\ free'   = Freed(SlotsOf(E))
  /\ slotOf' = Without(slotOf, E)

\* _release_slot: give back the slot of an entry that is not installed, unless
\* the resident copy of k is using that very slot.
ReleaseSlot(k, e) ==
  IF e \notin Slots \/ (slotOf[k] = e /\ lru[k] # None)
    THEN UNCHANGED <<free, slotOf, pinned>>
    ELSE /\ slotOf' = IF slotOf[k] = e THEN [slotOf EXCEPT ![k] = None] ELSE slotOf
         /\ pinned' = pinned \ {e}
         /\ free'   = Freed({e})

\* _install: duplicate; loose arrays while the slab is up; soft and no room;
\* otherwise resident, evicting down to the budget.
Install(k, e, m) ==
  IF lru[k] # None
    THEN ReleaseSlot(k, e) /\ UNCHANGED lru
  ELSE IF slab = "on" /\ e = Loose
    THEN UNCHANGED <<lru, free, slotOf, pinned>>
  ELSE IF m = "soft" /\ Cardinality(In(lru)) + 1 > budget
    THEN ReleaseSlot(k, e) /\ UNCHANGED lru
  ELSE /\ \E E \in Evictions(In(lru) \cup {k}, budget) :
            EvictKeys(E, [lru EXCEPT ![k] = e])
       /\ UNCHANGED pinned

Empty == [k \in Experts |-> None]

(***************************************************************************)
(* fetch: _begin, then _finish.                                            *)
(***************************************************************************)
SlabFetch == mode = "lru" /\ slab = "on"

\* Mutant: only staged and joined experts are pinned, not the resident ones.
FetchBeginPinsNoHits(S, m) ==
  LET hits   == S \cap In(lru)
      claims == (S \ hits) \cap In(raw)
      joins  == (S \ (hits \cup claims)) \cap inflight
      misses == S \ (hits \cup claims \cup joins)
  IN /\ pc = "idle"
     /\ S # {} /\ Cardinality(S) <= MaxWant
     /\ misses \cap cb = {}
     /\ m = "lru" => slab # "off" /\ saved = 0
     /\ m = "soft" /\ slab = "on" => SoftOnSlab
     /\ pc'   = IF misses = {} THEN "wait" ELSE "submit"
     /\ mode' = m
     /\ todo' = misses
     /\ due'  = joins
     /\ got'  = [k \in Experts |-> IF k \in claims THEN raw[k] ELSE None]
     /\ used' = [k \in Experts |-> IF k \in hits THEN lru[k] ELSE None]
     /\ raw'  = Without(raw, claims)
     /\ pinned' = IF m = "lru" /\ slab = "on" THEN SlotsOf(S \ (misses \cup hits)) ELSE pinned
     /\ UNCHANGED <<lru, slotOf, free, reads, bytes, size>>

\* _begin, its classification of the wanted experts.  Decode fetches install
\* as "lru" and call leave_prefill first, so they never find the slab lent;
\* prefill fetches install as "soft".  A decode fetch starts after the router
\* sync that evaluated every earlier layer: the previous graph is done and the
\* previous pins are dropped.  (A bound of the model, met by itself unless
\* CallbackLag: no second read of an expert starts before the callback of its
\* first one has run, here and in Prefetch.)
FetchBegin(S, m) ==
  LET hits   == S \cap In(lru)
      claims == (S \ hits) \cap In(raw)
      joins  == (S \ (hits \cup claims)) \cap inflight
      misses == S \ (hits \cup claims \cup joins)
  IN /\ pc = "idle"
     /\ S # {} /\ Cardinality(S) <= MaxWant
     /\ misses \cap cb = {}
     /\ m = "lru" => slab # "off" /\ saved = 0
     /\ m = "soft" /\ slab = "on" => SoftOnSlab
     /\ pc'   = IF misses = {} THEN "wait" ELSE "submit"
     /\ mode' = m
     /\ todo' = misses
     /\ due'  = joins
     /\ got'  = [k \in Experts |-> IF k \in claims THEN raw[k] ELSE None]
     /\ used' = [k \in Experts |-> IF k \in hits THEN lru[k] ELSE None]
     /\ raw'  = Without(raw, claims)
     /\ pinned' = IF m = "lru" /\ slab = "on" THEN SlotsOf(S \ misses) ELSE pinned
     /\ UNCHANGED <<lru, slotOf, free, reads, bytes, size>>

\* The next miss has been submitted; the last one ends the critical section.
Submitted(k) ==
  /\ todo' = todo \ {k}
  /\ due'  = due \cup {k}
  /\ pc'   = IF todo = {k} THEN "wait" ELSE "submit"
  /\ UNCHANGED <<mode, got, used>>

\* _submit_slab with a free slot.
SubmitToSlot(k, s) ==
  /\ pc = "submit" /\ k \in todo
  /\ SlabFetch
  /\ TakeSlot(k, s)
  /\ StartRead(k, s)
  /\ Submitted(k)
  /\ UNCHANGED <<lru, raw, cb, now, size>>

\* _alloc_slot with an empty free list: evict an unpinned resident expert ...
EvictForSlot(v) ==
  /\ pc = "submit" /\ SlabFetch /\ FreeSlots = {}
  /\ v \in Unpinned(In(lru))
  /\ EvictKeys({v}, lru)
  /\ UNCHANGED <<mlx, raw, pinned, reads, bytes, size>>

\* ... and when none can be evicted, give up a staged guess.
DropForSlot(v) ==
  /\ pc = "submit" /\ SlabFetch /\ FreeSlots = {}
  /\ Unpinned(In(lru)) = {}
  /\ v \in In(raw)
  /\ DropGuesses({v}, raw)
  /\ UNCHANGED <<mlx, lru, pinned, reads, bytes, size>>

\* The path without a slab, and the one a miss falls back to when no slot can be
\* had.
SubmitLoose(k) ==
  /\ pc = "submit" /\ k \in todo
  /\ SlabFetch => FreeSlots = {} /\ Unpinned(In(lru)) = {} /\ In(raw) = {}
  /\ StartLoose(k)
  /\ Submitted(k)
  /\ UNCHANGED <<table, cb, now, size>>

\* _finish, one turn of the as_completed loop: the read has landed.
Consume(k) ==
  /\ pc = "wait" /\ k \in due /\ st[k] = "ok" /\ Visible(k)
  /\ due'  = due \ {k}
  /\ got'  = [got EXCEPT ![k] = dest[k]]
  /\ raw'  = Without(raw, {k})
  /\ inflight' = inflight \ {k}
  /\ Forget({k} \ cb)
  /\ UNCHANGED <<pc, mode, todo, used, lru, slotOf, free, pinned, cb, now, bytes, size>>

\* fut.result() raises: the fetch is abandoned where it stands.
Abort(k) ==
  /\ pc = "wait" /\ k \in due /\ st[k] = "failed" /\ Visible(k)
  /\ pc'   = "idle"
  /\ due'  = {}
  /\ got'  = Empty
  /\ used' = Empty
  /\ Forget(due \ (inflight \cup cb))
  /\ UNCHANGED <<mode, todo, table, inflight, cb, now, bytes, size>>

\* Every read is in: take the lock and install what was collected.
FinishBegin ==
  /\ pc = "wait" /\ due = {}
  /\ todo' = In(got)
  /\ pc'   = IF In(got) = {} THEN "idle" ELSE "install"
  /\ used' = IF In(got) = {} /\ mode = "soft" THEN Empty ELSE used
  /\ UNCHANGED <<mode, due, got, table, reads, bytes, size>>

\* One turn of the install loop.  After a soft fetch the group's matmuls are
\* evaluated before anything else runs, so nothing of it stays pending.
InstallOne(k) ==
  LET last == todo = {k}
  IN /\ pc = "install" /\ k \in todo
     /\ Install(k, got[k], mode)
     /\ todo' = todo \ {k}
     /\ pc'   = IF last THEN "idle" ELSE "install"
     /\ got'  = [got EXCEPT ![k] = None]
     /\ used' = IF last /\ mode = "soft" THEN Empty ELSE [used EXCEPT ![k] = got[k]]
     /\ UNCHANGED <<mode, due, raw, reads, bytes, size>>

(***************************************************************************)
(* prefetch, prefetch_many: start reads nobody waits for.                  *)
(***************************************************************************)
\* _spec_blocked: staging is full of unclaimed guesses, which does not stop the
\* reads that install on arrival, or the readers are busy.
SpecBlocked(n) ==
  \/ ~n /\ Cardinality(In(raw)) >= Staging
  \/ Cardinality(inflight) >= SpecCap

\* _prefetch_locked reads nothing that is resident, staged or under way.
Unknown(S) == S \ (In(lru) \cup In(raw) \cup inflight)

\* _spec_blocked once, then the experts not already known.  `n` is install_now.
Prefetch(S, n) ==
  LET wanted == Unknown(S)
  IN /\ pc = "idle"
     /\ Cardinality(S) <= MaxWant /\ wanted # {}
     /\ wanted \cap cb = {}
     /\ n => PredictInstall /\ slab = "on"
     /\ ~SpecBlocked(n)
     /\ pc'   = "spec"
     /\ todo' = wanted
     /\ mode' = IF n THEN "now" ELSE "stage"
     /\ UNCHANGED <<due, got, used, table, reads, bytes, size>>

\* A guess has been submitted and its callback attached (_attach_staging).
Guessed(k) ==
  /\ todo' = todo \ {k}
  /\ pc'   = IF todo = {k} THEN "idle" ELSE "spec"
  /\ cb'   = cb \cup {k}
  /\ now'  = IF mode = "now" THEN now \cup {k} ELSE now
  /\ UNCHANGED <<mode, due, got, used>>

\* _submit_slab with evict_ok=False: free slots only.
SpecToSlot(k, s) ==
  /\ pc = "spec" /\ k \in todo /\ slab = "on"
  /\ TakeSlot(k, s)
  /\ StartRead(k, s)
  /\ Guessed(k)
  /\ UNCHANGED <<lru, raw, size>>

\* Mutant: speculation waits until no read is in flight before it gives up.
SpecWaits ==
  /\ pc = "spec" /\ slab = "on" /\ FreeSlots = {} /\ inflight = {}
  /\ pc'   = "idle"
  /\ todo' = {}
  /\ UNCHANGED <<mode, due, got, used, table, reads, bytes, size>>

\* No free slot: the rest of the guesses is given up.
SpecStop ==
  /\ pc = "spec" /\ slab = "on" /\ FreeSlots = {}
  /\ pc'   = "idle"
  /\ todo' = {}
  /\ UNCHANGED <<mode, due, got, used, table, reads, bytes, size>>

\* Without a slab a guess is a run read.
SpecLoose(k) ==
  /\ pc = "spec" /\ k \in todo /\ slab # "on"
  /\ StartLoose(k)
  /\ Guessed(k)
  /\ UNCHANGED <<table, size>>

(***************************************************************************)
(* Reader threads.                                                         *)
(***************************************************************************)
\* The read lands in its destination and the Future resolves.
ReadDone(k) ==
  /\ st[k] = "reading"
  /\ st'    = [st EXCEPT ![k] = "ok"]
  /\ bytes' = [s \in Slots |-> IF s = dest[k] THEN k ELSE bytes[s]]
  /\ UNCHANGED <<mlx, table, inflight, dest, cb, now, size>>

\* Mutant: the exception of a read is lost and its Future never resolves.
ReadVanishes(k) ==
  /\ ReadsFail /\ st[k] = "reading"
  /\ st' = [st EXCEPT ![k] = "none"]
  /\ UNCHANGED <<mlx, table, inflight, dest, cb, now, bytes, size>>

\* The read raises: whatever it wrote is not an expert.
ReadFail(k) ==
  /\ ReadsFail /\ st[k] = "reading"
  /\ st' = [st EXCEPT ![k] = "failed"]
  /\ UNCHANGED <<mlx, table, inflight, dest, cb, now, bytes, size>>

\* What every completion callback does, whatever the outcome of the read.
CallbackRuns(k) ==
  /\ k \in cb /\ pc \notin Locked
  /\ cb'  = cb \ {k}
  /\ now' = now \ {k}
  /\ inflight' = inflight \ {k}
  /\ Forget({k} \ due)

\* The read failed, or demand installed the expert first: nothing to keep.
CallbackIdle(k) ==
  /\ CallbackRuns(k)
  /\ st[k] = "failed" \/ (st[k] = "ok" /\ lru[k] # None)
  /\ UNCHANGED <<mlx, table, bytes, size>>

\* install_now: the guess becomes resident on the reader thread.
CallbackInstall(k) ==
  /\ CallbackRuns(k)
  /\ st[k] = "ok" /\ lru[k] = None
  /\ k \in now /\ dest[k] \in Slots
  /\ Install(k, dest[k], "lru")
  /\ UNCHANGED <<mlx, raw, bytes, size>>

\* Stage the guess and trim staging back to its cap, oldest first.
CallbackStage(k) ==
  LET staged == [raw EXCEPT ![k] = dest[k]]
      excess == Cardinality(In(staged)) - Staging
  IN /\ CallbackRuns(k)
     /\ st[k] = "ok" /\ lru[k] = None
     /\ k \notin now \/ dest[k] \notin Slots
     /\ \E D \in SUBSET (In(staged) \ {k}) :
          /\ Cardinality(D) = IF excess <= 0 THEN 0 ELSE excess
          /\ DropGuesses(D, staged)
     /\ UNCHANGED <<mlx, lru, pinned, bytes, size>>

(***************************************************************************)
(* relieve_pressure, enter_prefill, leave_prefill.                         *)
(***************************************************************************)
\* Between turns: abandon every staged guess.
RelievePressure ==
  /\ pc = "idle" /\ In(raw) # {}
  /\ DropGuesses(In(raw), raw)
  /\ UNCHANGED <<mlx, lru, pinned, reads, bytes, size>>

\* make_room_for: an allocation does not fit beside the slab, which is all or
\* nothing; whether that happens depends on sizes.  A prompt that is long enough
\* makes the slab yield in the same way.
MustYield == BigPrefill /\ slab = "on"

\* Mutant: the reads in flight are not waited for.
ReleaseAtOnce ==
  /\ pc = "idle" /\ MustYield
  /\ pc'  = "drain"
  /\ due' = {}
  /\ UNCHANGED <<mode, todo, got, used, table, reads, bytes, size>>

\* _release_slab: freeze, and wait for the reads in flight.
ReleaseBegin ==
  /\ pc = "idle" /\ MustYield
  /\ pc'  = "drain"
  /\ due' = inflight
  /\ UNCHANGED <<mode, todo, got, used, table, reads, bytes, size>>

\* One Future of the drain has resolved, well or badly.
Drain(k) ==
  /\ pc = "drain" /\ k \in due /\ st[k] \in {"ok", "failed"} /\ Visible(k)
  /\ due' = due \ {k}
  /\ Forget({k} \ (inflight \cup cb))
  /\ UNCHANGED <<pc, mode, todo, got, used, table, inflight, cb, now, bytes, size>>

\* _release_slab_locked, then enter_prefill's budget: everything that names a
\* slot goes, and the memory is handed back.
ReleaseEnd ==
  LET over == {k \in inflight : st[k] = "failed" \/ (st[k] = "ok" /\ dest[k] \in Slots)}
  IN /\ pc = "drain" /\ due = {}
     /\ pc'   = "idle"
     /\ used' = Empty
     /\ lru'  = Empty
     /\ raw'  = Empty
     /\ slotOf' = Empty
     /\ free' = [s \in Slots |-> 0]
     /\ pinned' = {}
     /\ inflight' = inflight \ over
     /\ Forget(over \ cb)
     /\ bytes'  = [s \in Slots |-> Junk]
     /\ slab'   = "off"
     /\ saved'  = IF saved = 0 THEN budget ELSE saved
     /\ budget' = AtMost(budget, PrefillBudget)
     /\ UNCHANGED <<mode, todo, due, got, cb, now>>

\* enter_prefill on a cache whose slab could not be rebuilt.
ShrinkBudget ==
  /\ pc = "idle" /\ BigPrefill /\ slab = "gone" /\ saved = 0
  /\ saved'  = budget
  /\ budget' = AtMost(budget, PrefillBudget)
  /\ \E E \in Evictions(In(lru), budget') : EvictKeys(E, lru)
  /\ UNCHANGED <<mlx, raw, pinned, reads, bytes, slab>>

\* _slots_that_fit: a slab trimmed to the slots N, which leave some over the
\* reserve.
SlotsThatFit(N) == Cardinality(N) >= MinSlots /\ Cardinality(N) > Reserve

\* leave_prefill with a slab to rebuild: nothing resident or staged survives.
\* The budget follows the size of the new slab.
RebuildSlab(N) ==
  /\ pc = "idle" /\ slab = "off"
  /\ SlotsThatFit(N)
  /\ lru' = Empty
  /\ raw' = Empty
  /\ slotOf' = Empty
  /\ free'   = [s \in Slots |-> IF s \in N THEN 1 ELSE 0]
  /\ slab'   = "on"
  /\ budget' = AtMost(DecodeBudget, Cardinality(N) - Reserve)
  /\ saved'  = 0
  /\ UNCHANGED <<mlx, pinned, reads, bytes>>

\* The allocation failed: the per-expert path from now on.
RebuildFails ==
  /\ pc = "idle" /\ slab = "off"
  /\ lru' = Empty
  /\ raw' = Empty
  /\ slab'   = "gone"
  /\ budget' = IF saved = 0 THEN budget ELSE saved
  /\ saved'  = 0
  /\ UNCHANGED <<mlx, slotOf, free, pinned, reads, bytes>>

\* leave_prefill with no slab to rebuild.
RestoreBudget ==
  /\ pc = "idle" /\ slab = "gone" /\ saved # 0
  /\ budget' = saved
  /\ saved'  = 0
  /\ UNCHANGED <<mlx, table, reads, bytes, slab>>

(***************************************************************************)
(* The specification.                                                      *)
(***************************************************************************)
\* enable_slabs: every slot free, the budget that of the slab.
SlabsEnabled ==
  /\ slab = "on"
  /\ bytes = [s \in Slots |-> Junk]
  /\ free = [s \in Slots |-> 1]
  /\ budget = DecodeBudget /\ saved = 0

\* The loader enables the slabs of a cache that has just been created.
Init ==
  /\ pc = "idle" /\ mode = "lru" /\ todo = {} /\ due = {}
  /\ got = Empty /\ used = Empty
  /\ lru = Empty /\ raw = Empty /\ slotOf = Empty
  /\ pinned = {}
  /\ inflight = {} /\ dest = Empty /\ st = [k \in Experts |-> "none"]
  /\ cb = {} /\ now = {}
  /\ SlabsEnabled

\* The calls the model makes on the cache.
Call ==
  \/ \E S \in SUBSET Experts, m \in {"lru", "soft"} : FetchBegin(S, m)
  \/ \E S \in SUBSET Experts, n \in BOOLEAN : Prefetch(S, n)
  \/ RelievePressure
  \/ ReleaseBegin
  \/ ShrinkBudget
  \/ \E N \in SUBSET Slots : RebuildSlab(N)
  \/ RebuildFails
  \/ RestoreBudget

\* The MLX thread inside a call.
Work ==
  \/ \E k \in Experts, s \in Slots : SubmitToSlot(k, s)
  \/ \E v \in Experts : EvictForSlot(v)
  \/ \E v \in Experts : DropForSlot(v)
  \/ \E k \in Experts : SubmitLoose(k)
  \/ \E k \in Experts : Consume(k)
  \/ \E k \in Experts : Abort(k)
  \/ FinishBegin
  \/ \E k \in Experts : InstallOne(k)
  \/ \E k \in Experts, s \in Slots : SpecToSlot(k, s)
  \/ SpecStop
  \/ \E k \in Experts : SpecLoose(k)
  \/ \E k \in Experts : Drain(k)
  \/ ReleaseEnd

Read(k)     == ReadDone(k) \/ ReadFail(k)
Callback(k) == CallbackIdle(k) \/ CallbackInstall(k) \/ CallbackStage(k)

Next ==
  \/ Call
  \/ Work
  \/ \E k \in Experts : Read(k)
  \/ \E k \in Experts : Callback(k)

Spec == Init /\ [][Next]_vars

\* A call that was made keeps running, a read that was started ends, and a
\* reader thread runs the callback of the read it finished.  Nothing makes the
\* model call the cache again.
Fairness ==
  /\ WF_vars(Work)
  /\ \A k \in Experts : WF_vars(Read(k)) /\ WF_vars(Callback(k))

FairSpec == Spec /\ Fairness

(***************************************************************************)
(* Properties.                                                             *)
(***************************************************************************)
\* Every variable has the type the code gives it.
TypeOK ==
  /\ pc \in {"idle", "submit", "wait", "install", "spec", "drain"}
  /\ mode \in {"lru", "soft", "now", "stage"}
  /\ {todo, due, inflight, cb, now} \subseteq SUBSET Experts
  /\ got \in [Experts -> Entry]
  /\ used \in [Experts -> Entry]
  /\ lru \in [Experts -> Entry]
  /\ raw \in [Experts -> Entry]
  /\ dest \in [Experts -> Entry]
  /\ slotOf \in [Experts -> Slots \cup {None}]
  /\ free \in [Slots -> Nat]
  /\ pinned \subseteq Slots
  /\ st \in [Experts -> {"none", "reading", "ok", "failed"}]
  /\ bytes \in [Slots -> Experts \cup {Junk}]
  /\ slab \in {"on", "off", "gone"}
  /\ budget \in Nat /\ saved \in Nat

\* A slot has one owner: it is on the free list at most once, _slot_of gives it
\* to at most one expert, and never both (check_slots: "the slot was handed out
\* twice - which silently corrupts output").
NoSharedSlot ==
  /\ \A s \in Slots : free[s] <= 1
  /\ \A k \in Experts : slotOf[k] # None => free[slotOf[k]] = 0
  /\ \A j, k \in Experts : slotOf[j] = slotOf[k] /\ slotOf[j] # None => j = k

\* What is resident is what it says: the slot of an LRU entry holds that
\* expert's weights, whole, and _slot_of agrees about the slot.
ResidentIntact ==
  \A k \in Experts : lru[k] \in Slots => slotOf[k] = lru[k] /\ bytes[lru[k]] = k

\* The same for a staged guess, which a later fetch installs without reading.
GuessIntact ==
  \A k \in Experts : raw[k] \in Slots => slotOf[k] = raw[k] /\ bytes[raw[k]] = k

\* The slots the last fetch returned still hold what it returned for as long as
\* the graph built on them may be unevaluated, that is until the next router
\* sync (_alloc_slot: "this must never return a slot some pending graph still
\* reads").
ComputeIntact ==
  \A k \in Experts : used[k] \in Slots => bytes[used[k]] = k

\* While the slab is lent or gone, no reader writes into its memory
\* (_release_slab: "Freeing the slab under them is a use-after-free").
NoWriteAfterFree ==
  slab # "on" => \A k \in Experts : st[k] = "reading" => dest[k] \notin Slots

\* While the slab is lent or gone, nothing the cache can hand out names a slot
\* (_release_slab_locked: "Every slot reference has to go with it").
NoStaleSlot ==
  slab # "on" =>
    \A k \in Experts : {lru[k], raw[k], got[k], used[k], slotOf[k]} \cap Slots = {}

\* While the slab is up nothing resident is loose, so a decode layer whose
\* experts are all resident is computed with one gather (_install: "split
\* between slab slots and loose arrays, which gather_qmm cannot address").
NoLooseResident ==
  slab = "on" => \A k \in Experts : lru[k] # Loose

\* A guess that leaves staging unclaimed, with no fetch waiting for it, gives
\* its slot back (relieve_pressure: "so slab slots held by unclaimed guesses come
\* back").
GuessSlotsComeBack ==
  [][slab' = "on" =>
       \A k \in Experts :
         raw[k] \in Slots /\ raw'[k] = None /\ got'[k] = None /\ k \notin due
           => free'[raw[k]] > 0]_vars

\* A fetch whose reads have failed leaves no failed read behind for the next
\* fetch to trip over (_submit_slab: "so fetch still resolves instead of wedging
\* the inflight table").
NoWedgedRead ==
  pc = "idle" => \A k \in inflight \ cb : st[k] # "failed"

\* Slots, readers and bytes as SlotStore sees them.
Holder == [s \in Slots |->
  IF \E k \in Experts : slotOf[k] = s THEN CHOOSE k \in Experts : slotOf[k] = s ELSE None]
Writing == {dest[k] : k \in {j \in Experts : st[j] = "reading"}} \ {Loose}

Store == INSTANCE SlotStore
  WITH Nobody <- None, holder <- Holder, writing <- Writing, content <- bytes

\* The cache implements the slab's promise: whatever fetches, guesses, callbacks,
\* evictions and releases do, they hand slots over only as SlotStore allows.
ImplementsSlotStore == Store!Spec

\* A fetch returns, with the experts or with an exception, however its reads
\* race the callbacks and whichever of them fail.
FetchReturns == (pc = "wait") ~> (pc = "idle")

\* enter_prefill gets its memory: the drain of the reads in flight terminates.
ReleaseReturns == (pc = "drain") ~> (slab = "off")

=============================================================================
