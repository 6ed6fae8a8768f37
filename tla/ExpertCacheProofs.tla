------------------------- MODULE ExpertCacheProofs -------------------------
(***************************************************************************)
(* Proofs about ExpertCache, and about FlowDecode, which extends it.        *)
(*                                                                          *)
(* IInv (module ExpertCacheInvariant) holds initially and every action      *)
(* preserves it: one lemma per action for its larger part Owned, in it one  *)
(* step per conjunct, the conjuncts the action does not disturb together;   *)
(* one lemma for UsedPinned.  The theorems read the properties off IInv.    *)
(* Then: the cache implements SlotStore; the tables of flow decode follow   *)
(* the cache; what a flow layer reads is not overwritten.                   *)
(*                                                                          *)
(* No constant is fixed.  Two races that the code leaves open break the     *)
(* ownership (module ExpertCacheInvariant); the theorems that depend on it  *)
(* say: always, or a race was lost.  The others hold whatever happens.      *)
(***************************************************************************)
EXTENDS ExpertCacheInvariant, FlowDecode, FiniteSetTheorems, TLAPS

\* fetch starts: hits, claims and joined reads are pinned before anything is submitted.
LEMMA FetchBeginStep ==
  ASSUME Owned, NEW S \in SUBSET Experts, NEW m \in {"lru", "soft"}, FetchBegin(S, m)
  PROVE  Owned'
<1> USE DEF Owned, FetchBegin
<1>1. TypeOK' BY DEF TypeOK, SlotsOf, Without, Entry, reads, size
<1>2. Stages' BY DEF Stages, In, Without, reads, size
<1>3. Futures' BY DEF TypeOK, Stages, Futures, In, Without, reads
<1>4. ReadsOwn'
    BY CacheAssumption DEF TypeOK, ReadsOwn, Held, Owns, NoSlab, SlotsOf, reads,
       CacheAssumption
<1>5. GotOwns'
    BY CacheAssumption DEF GotOwns, Held, NoSlab, GuessIntact, SlotsOf, CacheAssumption
<1>6. NoSlab' BY CacheAssumption DEF NoSlab, Without, reads, size, CacheAssumption
<1>7. GuessIntact' BY CacheAssumption DEF GuessIntact, Without, CacheAssumption
<1>8. NoSharedSlot' /\ ResidentIntact' /\ NoLooseResident'
    BY DEF NoSharedSlot, ResidentIntact, NoLooseResident, size
<1>9. QED BY <1>1, <1>2, <1>3, <1>4, <1>5, <1>6, <1>7, <1>8 DEF Owned

\* A miss takes a free slot, so no entry it could spoil names that slot.
LEMMA SubmitToSlotStep ==
  ASSUME Owned, NEW k \in Experts, NEW s \in Slots, SubmitToSlot(k, s)
  PROVE  Owned'
<1> USE DEF Owned, SubmitToSlot
<1>1. TypeOK' BY DEF TypeOK, Entry, size, TakeSlot, StartRead, Submitted
<1>2. Stages' BY DEF Stages, StartRead, Submitted, SlabFetch
<1>3. Futures'
    BY CacheAssumption DEF TypeOK, Stages, Futures, In, CacheAssumption, StartRead,
       Submitted
<1>4. ReadsOwn'
    BY CacheAssumption DEF TypeOK, ReadsOwn, Held, Owns, NoSharedSlot, CacheAssumption,
       TakeSlot, StartRead, Submitted
<1>5. GotOwns'
    BY CacheAssumption DEF Stages, GotOwns, Held, NoSharedSlot, CacheAssumption, TakeSlot,
       StartRead, Submitted
<1>6. NoSlab' BY DEF NoSlab, size, SlabFetch
<1>7. NoSharedSlot' BY DEF TypeOK, NoSharedSlot, TakeSlot
<1>8. ResidentIntact'
    BY CacheAssumption DEF Stages, NoSharedSlot, ResidentIntact, CacheAssumption,
       TakeSlot, StartRead
<1>9. GuessIntact'
    BY CacheAssumption DEF Stages, NoSharedSlot, GuessIntact, CacheAssumption,
       TakeSlot, StartRead
<1>10. NoLooseResident' BY DEF NoLooseResident, SlabFetch
<1>11. QED
    BY <1>1, <1>2, <1>3, <1>4, <1>5, <1>6, <1>7, <1>8, <1>9, <1>10 DEF Owned

\* A miss without a free slot evicts an expert the fetch has not pinned.
LEMMA EvictForSlotStep ==
  ASSUME Owned, NEW v \in Experts, EvictForSlot(v)
  PROVE  Owned'
<1> USE DEF Owned, EvictForSlot
<1>1. TypeOK' BY DEF TypeOK, Without, Freed, Entry, mlx, reads, size, EvictKeys
<1>2. Stages' BY DEF TypeOK, Stages, Without, mlx, reads, EvictKeys, SlabFetch
<1>3. Futures' BY DEF TypeOK, Futures, In, Without, mlx, reads, EvictKeys
<1>4. ReadsOwn'
    BY DEF TypeOK, Futures, ReadsOwn, Held, Owns, In, Without, Unpinned, mlx, reads,
       EvictKeys, SlabFetch
<1>5. GotOwns' BY DEF GotOwns, Held, Without, Unpinned, mlx, EvictKeys, SlabFetch
<1>6. NoSlab' BY DEF NoSlab, size, SlabFetch
<1>7. NoSharedSlot' BY DEF TypeOK, NoSharedSlot, SlotsOf, Without, Freed, EvictKeys
<1>8. ResidentIntact'
    BY CacheAssumption DEF ResidentIntact, Without, CacheAssumption, EvictKeys
<1>9. GuessIntact'
    BY DEF TypeOK, Futures, GuessIntact, In, Without, Unpinned, EvictKeys
<1>10. NoLooseResident'
    BY CacheAssumption DEF NoLooseResident, Without, CacheAssumption, EvictKeys,
       SlabFetch
<1>11. QED
    BY <1>1, <1>2, <1>3, <1>4, <1>5, <1>6, <1>7, <1>8, <1>9, <1>10 DEF Owned

\* With nothing to evict a staged guess is given up.
LEMMA DropForSlotStep ==
  ASSUME Owned, NEW v \in Experts, DropForSlot(v)
  PROVE  Owned'
<1> USE DEF Owned, DropForSlot
<1>1. TypeOK' BY DEF TypeOK, Without, Freed, Entry, mlx, reads, size, DropGuesses
<1>2. Stages' BY DEF TypeOK, Stages, Without, mlx, reads, DropGuesses, SlabFetch
<1>3. Futures' BY DEF TypeOK, Futures, In, Without, mlx, reads, DropGuesses
<1>4. ReadsOwn'
    BY DEF TypeOK, Futures, ReadsOwn, Held, Owns, In, Without, Unpinned, mlx, reads,
       DropGuesses, SlabFetch
<1>5. GotOwns' BY DEF GotOwns, Held, Without, Unpinned, mlx, DropGuesses, SlabFetch
<1>6. NoSlab' BY DEF NoSlab, size, SlabFetch
<1>7. NoSharedSlot'
    BY DEF TypeOK, NoSharedSlot, SlotsOf, Without, Freed, Unpinned, DropGuesses
<1>8. ResidentIntact' BY DEF ResidentIntact, In, Without, Unpinned, DropGuesses
<1>9. GuessIntact'
    BY CacheAssumption DEF GuessIntact, Without, Unpinned, CacheAssumption,
       DropGuesses
<1>10. NoLooseResident' BY DEF NoLooseResident, SlabFetch
<1>11. QED
    BY <1>1, <1>2, <1>3, <1>4, <1>5, <1>6, <1>7, <1>8, <1>9, <1>10 DEF Owned

\* Without a slot the expert is read into memory of its own.
LEMMA SubmitLooseStep ==
  ASSUME Owned, NEW k \in Experts, SubmitLoose(k)
  PROVE  Owned'
<1> USE DEF Owned, SubmitLoose, StartLoose
<1>1. TypeOK' BY DEF TypeOK, Entry, table, size, StartRead, Submitted
<1>2. Stages' BY DEF Stages, table, size, StartRead, Submitted
<1>3. Futures'
    BY CacheAssumption DEF TypeOK, Stages, Futures, In, table, CacheAssumption,
       StartRead, Submitted
<1>4. ReadsOwn'
    BY CacheAssumption DEF TypeOK, ReadsOwn, Held, Owns, table, CacheAssumption,
       StartRead, Submitted
<1>5. GotOwns'
    BY CacheAssumption DEF GotOwns, Held, table, CacheAssumption, StartRead, Submitted
<1>6. NoSlab'
    BY CacheAssumption DEF NoSlab, table, size, CacheAssumption, StartRead,
       Submitted
<1>7. ResidentIntact'
    BY CacheAssumption DEF ResidentIntact, table, CacheAssumption, StartRead
<1>8. GuessIntact' BY CacheAssumption DEF GuessIntact, table, CacheAssumption, StartRead
<1>9. NoSharedSlot' /\ NoLooseResident'
    BY DEF NoSharedSlot, NoLooseResident, table, size
<1>10. QED BY <1>1, <1>2, <1>3, <1>4, <1>5, <1>6, <1>7, <1>8, <1>9 DEF Owned

\* A landed read becomes a collected entry; its slot stays pinned.
LEMMA ConsumeStep ==
  ASSUME Owned, NEW k \in Experts, k \notin cb, Consume(k)
  PROVE  Owned'
<1> USE DEF Owned, Consume
<1>1. TypeOK' BY DEF TypeOK, Without, Entry, size, Forget
<1>2. Futures' BY DEF TypeOK, Futures, In, Without, Forget, Visible
<1>3. ReadsOwn' BY DEF TypeOK, ReadsOwn, Held, Owns, Without, Forget
<1>4. GotOwns' BY DEF TypeOK, ReadsOwn, Held, Owns, GotOwns
<1>5. NoSlab' BY CacheAssumption DEF NoSlab, Without, size, CacheAssumption, Forget
<1>6. GuessIntact' BY CacheAssumption DEF GuessIntact, Without, CacheAssumption
<1>7. Stages' /\ NoSharedSlot' /\ ResidentIntact' /\ NoLooseResident'
    BY DEF Stages, NoSharedSlot, ResidentIntact, NoLooseResident, size
<1>8. QED BY <1>1, <1>2, <1>3, <1>4, <1>5, <1>6, <1>7 DEF Owned

\* A failed read ends the fetch; the other reads keep their slots.
LEMMA AbortStep ==
  ASSUME Owned, NEW k \in Experts, Abort(k)
  PROVE  Owned'
<1> USE DEF Owned, Abort
<1>1. TypeOK' BY DEF TypeOK, Empty, Without, Entry, table, size, Forget
<1>2. Stages' BY DEF Stages, Empty, In
<1>3. Futures' BY DEF TypeOK, Futures, Empty, In, Without, table, Forget
<1>4. ReadsOwn' BY DEF TypeOK, ReadsOwn, Held, Owns, Without, table, Forget
<1>5. GotOwns' BY CacheAssumption DEF GotOwns, Held, Empty, CacheAssumption
<1>6. NoSlab'
    BY CacheAssumption DEF NoSlab, Empty, Without, table, size, CacheAssumption,
       Forget
<1>7. NoSharedSlot' /\ ResidentIntact' /\ GuessIntact' /\ NoLooseResident'
    BY DEF NoSharedSlot, ResidentIntact, GuessIntact, NoLooseResident, table, size
<1>8. QED BY <1>1, <1>2, <1>3, <1>4, <1>5, <1>6, <1>7 DEF Owned

\* The reads are in.
LEMMA FinishBeginStep ==
  ASSUME Owned, FinishBegin
  PROVE  Owned'
<1> USE DEF Owned, FinishBegin
<1>1. TypeOK' BY DEF TypeOK, Empty, In, table, reads, size
<1>2. ReadsOwn' BY DEF ReadsOwn, Held, Owns, table, reads
<1>3. NoSlab' BY CacheAssumption DEF NoSlab, Empty, table, reads, size, CacheAssumption
<1>4. /\ Stages'
      /\ Futures'
      /\ GotOwns'
      /\ NoSharedSlot'
      /\ ResidentIntact'
      /\ GuessIntact'
      /\ NoLooseResident'
    BY DEF Stages, Futures, GotOwns, Held, NoSharedSlot, ResidentIntact, GuessIntact,
       NoLooseResident, size, table, reads
<1>5. QED BY <1>1, <1>2, <1>3, <1>4 DEF Owned

\* A prefill that finds room evicts nothing.
LEMMA RoomEvictsNothing ==
  ASSUME TypeOK, NEW k \in Experts, lru[k] = None, ~(Cardinality(In(lru)) + 1 > budget),
         NEW E \in Evictions(In(lru) \cup {k}, budget)
  PROVE  E = {}
<1> DEFINE R == In(lru) \cup {k}
<1>1. IsFiniteSet(In(lru)) /\ IsFiniteSet(E) /\ k \notin In(lru)
  BY CacheAssumption, FS_Subset DEF CacheAssumption, In, Evictions, Unpinned
<1>2. Cardinality(R) = Cardinality(In(lru)) + 1 /\ Cardinality(In(lru)) \in Nat
  BY <1>1, FS_AddElement, FS_CardinalityType
<1>3. budget \in Nat
  BY DEF TypeOK
<1> HIDE DEF R
<1>4. Cardinality(R) - (IF budget > 1 THEN budget ELSE 1) <= 0
  BY <1>2, <1>3
<1>5. Cardinality(E) = 0
  BY <1>4 DEF Evictions, R
<1>6. QED
  BY <1>1, <1>5, FS_EmptySet

\* What installing entry e of expert k can do, when k owns e if it is a slot:
\* nothing, if k is resident already or e is loose; give the slot back, if a prefill
\* has no room for it; or make k resident and evict experts that are not pinned,
\* which a prefill does not.
Stays(k, e) ==
  /\ lru[k] # None \/ e = Loose
  /\ UNCHANGED <<lru, free, slotOf, pinned>>

GivesBack(k, e, m) ==
  /\ m = "soft" /\ lru[k] = None /\ e \in Slots
  /\ slotOf' = Without(slotOf, {k})
  /\ pinned' = pinned \ {e}
  /\ free' = Freed({e})
  /\ UNCHANGED lru

Settles(k, e, m) ==
  /\ lru[k] = None /\ (slab = "on" => e \in Slots)
  /\ UNCHANGED pinned
  /\ \E E \in SUBSET Unpinned(In(lru) \cup {k}) :
       /\ m = "soft" => E = {}
       /\ EvictKeys(E, [lru EXCEPT ![k] = e])

LEMMA InstallEffect ==
  ASSUME NEW k \in Experts, NEW e \in Slots \cup {Loose}, NEW m,
         TypeOK, Install(k, e, m),
         e \in Slots => slotOf[k] = e /\ slab = "on"
  PROVE  Stays(k, e) \/ GivesBack(k, e, m) \/ Settles(k, e, m)
<1> USE DEF Install, ReleaseSlot
<1>1. CASE lru[k] # None
  BY <1>1 DEF Stays
<1>2. CASE lru[k] = None /\ slab = "on" /\ e = Loose
  BY <1>2 DEF Stays
<1>3. CASE /\ lru[k] = None /\ ~(slab = "on" /\ e = Loose)
           /\ m = "soft" /\ Cardinality(In(lru)) + 1 > budget
  <2>1. CASE e = Loose
    BY <1>3, <2>1, CacheAssumption DEF Stays, CacheAssumption
  <2>2. CASE e \in Slots
    <3>1. slotOf' = [slotOf EXCEPT ![k] = None]
      BY <1>3, <2>2
    <3>2. slotOf' = Without(slotOf, {k})
      BY <3>1 DEF TypeOK, Without
    <3>3. QED
      BY <1>3, <2>2, <3>2 DEF GivesBack
  <2>3. QED
    BY <2>1, <2>2
<1>4. CASE /\ lru[k] = None /\ ~(slab = "on" /\ e = Loose)
           /\ ~(m = "soft" /\ Cardinality(In(lru)) + 1 > budget)
  <2>1. PICK E \in Evictions(In(lru) \cup {k}, budget) : EvictKeys(E, [lru EXCEPT ![k] = e])
    BY <1>4
  <2>2. E \in SUBSET Unpinned(In(lru) \cup {k})
    BY DEF Evictions
  <2>3. m = "soft" => E = {}
    BY <1>4, RoomEvictsNothing
  <2>4. QED
    BY <1>4, <2>1, <2>2, <2>3 DEF Settles
<1>5. QED
  BY <1>1, <1>2, <1>3, <1>4

\* A collected entry becomes resident, or is given up, and others are evicted.
LEMMA InstallOneStep ==
  ASSUME Owned, NEW k \in Experts, InstallOne(k)
  PROVE  Owned'
<1> USE DEF Owned
<1>1. /\ pc = "install" /\ k \in todo /\ Install(k, got[k], mode)
      /\ todo' = todo \ {k}
      /\ pc'   = IF todo = {k} THEN "idle" ELSE "install"
      /\ got'  = [got EXCEPT ![k] = None]
      /\ used' = IF todo = {k} /\ mode = "soft" THEN Empty ELSE [used EXCEPT ![k] = got[k]]
      /\ UNCHANGED <<mode, due, raw, reads, bytes, size>>
  BY DEF InstallOne
<1>2. got[k] \in Slots \cup {Loose}  BY <1>1 DEF Stages, TypeOK, In, Entry
<1>3. got[k] \in Slots => slotOf[k] = got[k] /\ slab = "on"
  BY DEF GotOwns, NoSlab
<1>4. mode \in {"lru", "soft"}  BY <1>1 DEF Stages
<1>5. Stays(k, got[k]) \/ GivesBack(k, got[k], mode) \/ Settles(k, got[k], mode)
  BY <1>1, <1>2, <1>3, InstallEffect
<1>6. CASE Stays(k, got[k])
  <2> USE <1>6 DEF Stays
  <2>1. TypeOK' BY <1>1 DEF TypeOK, Empty, Entry, reads, size
  <2>2. Stages' BY <1>1 DEF TypeOK, Stages, In, size
  <2>3. Futures' BY <1>1 DEF Futures, In, reads
  <2>4. ReadsOwn' BY <1>1 DEF ReadsOwn, Held, Owns, reads
  <2>5. NoSlab'
      BY <1>1, CacheAssumption DEF NoSlab, Empty, reads, size, CacheAssumption
  <2>6. GotOwns' /\ NoSharedSlot' /\ ResidentIntact' /\ GuessIntact' /\ NoLooseResident'
      BY <1>1, CacheAssumption DEF GotOwns, Held, NoSharedSlot, ResidentIntact,
         GuessIntact, NoLooseResident, CacheAssumption, size
  <2>7. QED BY <2>1, <2>2, <2>3, <2>4, <2>5, <2>6 DEF Owned
<1>7. CASE Settles(k, got[k], mode)
  <2>1. lru[k] = None /\ (slab = "on" => got[k] \in Slots) /\ UNCHANGED pinned
    BY <1>7 DEF Settles
  <2>2. PICK E \in SUBSET Unpinned(In(lru) \cup {k}) :
           (mode = "soft" => E = {}) /\ EvictKeys(E, [lru EXCEPT ![k] = got[k]])
    BY <1>7 DEF Settles
  <2> USE <2>1, <2>2 DEF EvictKeys
  <2>3. TypeOK' BY <1>1 DEF TypeOK, Empty, Without, Freed, reads, size
  <2>4. Stages' BY <1>1 DEF TypeOK, Stages, In, size
  <2>5. Futures' BY <1>1 DEF TypeOK, Futures, In, Without, reads
  <2>6. ReadsOwn'
      BY <1>1 DEF TypeOK, Stages, Futures, ReadsOwn, Held, Owns, In, Without,
         Unpinned, reads
  <2>7. GotOwns'
      BY <1>1, <1>4, CacheAssumption DEF GotOwns, Held, Without, Unpinned, CacheAssumption
  <2>8. NoSlab' BY <1>1 DEF NoSlab, Empty, Without, reads, size
  <2>9. NoSharedSlot'
      BY <1>1 DEF TypeOK, NoSharedSlot, In, SlotsOf, Without, Freed, Unpinned
  <2>10. ResidentIntact'
      BY <1>1, CacheAssumption DEF GotOwns, Held, ResidentIntact, Without,
         CacheAssumption
  <2>11. GuessIntact'
      BY <1>1 DEF TypeOK, Stages, Futures, GuessIntact, In, Without, Unpinned
  <2>12. NoLooseResident'
      BY <1>1, CacheAssumption DEF NoLooseResident, Without, size,
         CacheAssumption
  <2>13. QED
      BY <2>3, <2>4, <2>5, <2>6, <2>7, <2>8, <2>9, <2>10, <2>11, <2>12 DEF Owned
<1>8. CASE GivesBack(k, got[k], mode)
  <2> USE <1>8 DEF GivesBack
  <2>1. TypeOK' BY <1>1 DEF TypeOK, Empty, Without, Freed, Entry, reads, size
  <2>2. Stages' BY <1>1 DEF TypeOK, Stages, In, size
  <2>3. Futures' BY <1>1 DEF TypeOK, Futures, In, reads
  <2>4. ReadsOwn'
      BY <1>1 DEF TypeOK, Stages, Futures, ReadsOwn, Held, Owns, In, Without, reads
  <2>5. GotOwns'
      BY <1>1, CacheAssumption DEF TypeOK, GotOwns, Held, Without, CacheAssumption
  <2>6. NoSlab' BY <1>1, <1>3 DEF NoSlab, size
  <2>7. NoSharedSlot'
      BY <1>1, <1>3, CacheAssumption DEF TypeOK, NoSharedSlot, Without, Freed, CacheAssumption
  <2>8. ResidentIntact'
      BY <1>1, CacheAssumption DEF ResidentIntact, Without, CacheAssumption
  <2>9. GuessIntact'
      BY <1>1 DEF TypeOK, Stages, Futures, GuessIntact, In, Without
  <2>10. NoLooseResident' BY <1>1 DEF NoLooseResident, size
  <2>11. QED
      BY <2>1, <2>2, <2>3, <2>4, <2>5, <2>6, <2>7, <2>8, <2>9, <2>10 DEF Owned
<1>9. QED BY <1>5, <1>6, <1>7, <1>8

\* prefetch starts with experts the cache knows nothing of.
LEMMA PrefetchStep ==
  ASSUME Owned, NEW S \in SUBSET Experts, NEW n \in BOOLEAN, Prefetch(S, n)
  PROVE  Owned'
<1> USE DEF Owned, Prefetch, Unknown, SpecBlocked
<1>1. Stages' BY DEF Stages, In, table, reads
<1>2. ReadsOwn' BY DEF ReadsOwn, Held, Owns, table, reads
<1>3. /\ TypeOK'
      /\ Futures'
      /\ GotOwns'
      /\ NoSlab'
      /\ NoSharedSlot'
      /\ ResidentIntact'
      /\ GuessIntact'
      /\ NoLooseResident'
    BY DEF TypeOK, Futures, GotOwns, Held, NoSlab, NoSharedSlot,
       ResidentIntact, GuessIntact, NoLooseResident, table, reads, size
<1>4. QED BY <1>1, <1>2, <1>3 DEF Owned

\* A guess takes a free slot.
LEMMA SpecToSlotStep ==
  ASSUME Owned, NEW k \in Experts, NEW s \in Slots, SpecToSlot(k, s)
  PROVE  Owned'
<1> USE DEF Owned, SpecToSlot
<1>1. TypeOK' BY DEF TypeOK, Entry, size, TakeSlot, StartRead, Guessed
<1>2. Stages' BY DEF Stages, StartRead, Guessed
<1>3. Futures'
    BY CacheAssumption DEF TypeOK, Stages, Futures, CacheAssumption, StartRead,
       Guessed
<1>4. ReadsOwn'
    BY CacheAssumption DEF TypeOK, ReadsOwn, Held, Owns, NoSharedSlot, CacheAssumption,
       TakeSlot, StartRead, Guessed
<1>5. GotOwns'
    BY CacheAssumption DEF TypeOK, Stages, GotOwns, Held, In, CacheAssumption, Guessed
<1>6. NoSharedSlot' BY DEF TypeOK, NoSharedSlot, TakeSlot
<1>7. ResidentIntact'
    BY CacheAssumption DEF Stages, NoSharedSlot, ResidentIntact, CacheAssumption,
       TakeSlot, StartRead
<1>8. GuessIntact'
    BY CacheAssumption DEF Stages, NoSharedSlot, GuessIntact, CacheAssumption,
       TakeSlot, StartRead
<1>9. NoSlab' /\ NoLooseResident' BY DEF NoSlab, NoLooseResident, size
<1>10. QED BY <1>1, <1>2, <1>3, <1>4, <1>5, <1>6, <1>7, <1>8, <1>9 DEF Owned

\* No free slot is left for the other guesses.
LEMMA SpecStopStep ==
  ASSUME Owned, SpecStop
  PROVE  Owned'
<1> USE DEF Owned, SpecStop
<1>1. ReadsOwn' BY DEF ReadsOwn, Held, Owns, table, reads
<1>2. /\ TypeOK'
      /\ Stages'
      /\ Futures'
      /\ GotOwns'
      /\ NoSlab'
      /\ NoSharedSlot'
      /\ ResidentIntact'
      /\ GuessIntact'
      /\ NoLooseResident'
    BY DEF TypeOK, Stages, Futures, GotOwns, Held, NoSlab, NoSharedSlot,
       ResidentIntact, GuessIntact, NoLooseResident, table, reads, size
<1>3. QED BY <1>1, <1>2 DEF Owned

\* A guess without a slab.
LEMMA SpecLooseStep ==
  ASSUME Owned, NEW k \in Experts, SpecLoose(k)
  PROVE  Owned'
<1> USE DEF Owned, SpecLoose, StartLoose
<1>1. TypeOK' BY DEF TypeOK, Entry, table, size, StartRead, Guessed
<1>2. Stages' BY DEF Stages, table, StartRead, Guessed
<1>3. Futures'
    BY CacheAssumption DEF TypeOK, Stages, Futures, table, CacheAssumption,
       StartRead, Guessed
<1>4. ReadsOwn'
    BY CacheAssumption DEF TypeOK, ReadsOwn, Held, Owns, table, CacheAssumption,
       StartRead, Guessed
<1>5. GotOwns'
    BY CacheAssumption DEF GotOwns, Held, table, CacheAssumption, StartRead, Guessed
<1>6. NoSlab' BY CacheAssumption DEF NoSlab, table, CacheAssumption, StartRead, Guessed
<1>7. ResidentIntact'
    BY CacheAssumption DEF ResidentIntact, table, CacheAssumption, StartRead
<1>8. GuessIntact' BY CacheAssumption DEF GuessIntact, table, CacheAssumption, StartRead
<1>9. NoSharedSlot' /\ NoLooseResident'
    BY DEF NoSharedSlot, NoLooseResident, table, size
<1>10. QED BY <1>1, <1>2, <1>3, <1>4, <1>5, <1>6, <1>7, <1>8, <1>9 DEF Owned

\* A read ends and its slot holds the expert.
LEMMA ReadDoneStep ==
  ASSUME Owned, NEW k \in Experts, ReadDone(k)
  PROVE  Owned'
<1> USE DEF Owned, ReadDone
<1>1. ReadsOwn' BY DEF TypeOK, Futures, ReadsOwn, Held, Owns, NoSharedSlot, mlx, table
<1>2. GotOwns' BY DEF Futures, ReadsOwn, Held, Owns, GotOwns, NoSharedSlot, mlx, table
<1>3. ResidentIntact'
    BY DEF Futures, ReadsOwn, Held, Owns, NoSharedSlot, ResidentIntact, table
<1>4. GuessIntact' BY DEF Futures, ReadsOwn, Held, Owns, NoSharedSlot, GuessIntact, table
<1>5. /\ TypeOK'
      /\ Stages'
      /\ Futures'
      /\ NoSlab'
      /\ NoSharedSlot'
      /\ NoLooseResident'
    BY DEF TypeOK, Stages, Futures, NoSlab, NoSharedSlot,
       NoLooseResident, mlx, table, size
<1>6. QED BY <1>1, <1>2, <1>3, <1>4, <1>5 DEF Owned

\* A read fails; its slot holds nothing and nobody names it as anything.
LEMMA ReadFailStep ==
  ASSUME Owned, NEW k \in Experts, ReadFail(k)
  PROVE  Owned'
<1> USE DEF Owned, ReadFail
<1>1. ReadsOwn' BY DEF ReadsOwn, Held, Owns, mlx, table
<1>2. /\ TypeOK'
      /\ Stages'
      /\ Futures'
      /\ GotOwns'
      /\ NoSlab'
      /\ NoSharedSlot'
      /\ ResidentIntact'
      /\ GuessIntact'
      /\ NoLooseResident'
    BY DEF TypeOK, Stages, Futures, GotOwns, Held, NoSlab, NoSharedSlot,
       ResidentIntact, GuessIntact, NoLooseResident, mlx, table, size
<1>3. QED BY <1>1, <1>2 DEF Owned

\* The callback of a failed read.
LEMMA CallbackIdleStep ==
  ASSUME Owned, NEW k \in Experts, CallbackIdle(k)
  PROVE  Owned'
<1> USE DEF Owned, CallbackIdle
<1>1. TypeOK' BY DEF TypeOK, Without, Entry, mlx, table, size, CallbackRuns, Forget
<1>2. Stages' BY DEF TypeOK, Stages, mlx, table, size, CallbackRuns, Forget
<1>3. Futures' BY DEF Futures, Without, mlx, table, CallbackRuns, Forget
<1>4. ReadsOwn' BY DEF TypeOK, ReadsOwn, Held, Owns, Without, mlx, table, CallbackRuns, Forget
<1>5. NoSlab'
    BY CacheAssumption DEF NoSlab, Without, mlx, table, size, CacheAssumption,
       CallbackRuns, Forget
<1>6. /\ GotOwns'
      /\ NoSharedSlot'
      /\ ResidentIntact'
      /\ GuessIntact'
      /\ NoLooseResident'
    BY DEF GotOwns, Held, NoSharedSlot, ResidentIntact, GuessIntact,
       NoLooseResident, mlx, table, size
<1>7. QED BY <1>1, <1>2, <1>3, <1>4, <1>5, <1>6 DEF Owned

\* A guess becomes resident on a reader thread, beside a fetch that may be waiting
\* for it: what the fetch has pinned is not evicted.
LEMMA CallbackInstallStep ==
  ASSUME Owned, NEW k \in Experts, CallbackInstall(k), ~Snatches
  PROVE  Owned'
<1> USE DEF Owned
<1>1. /\ CallbackRuns(k) /\ st[k] = "ok" /\ lru[k] = None
      /\ k \in now /\ dest[k] \in Slots
      /\ Install(k, dest[k], "lru")
      /\ UNCHANGED <<mlx, raw, bytes, size>>
  BY DEF CallbackInstall
<1>2. slotOf[k] = dest[k] /\ slab = "on"
  BY <1>1 DEF CallbackRuns, Futures, ReadsOwn, Held, Owns, NoSlab
<1>3. Settles(k, dest[k], "lru")
  BY <1>1, <1>2, InstallEffect, CacheAssumption DEF Stays, GivesBack, CacheAssumption
<1>4. UNCHANGED pinned
  BY <1>3 DEF Settles
<1>5. PICK E \in SUBSET Unpinned(In(lru) \cup {k}) : EvictKeys(E, [lru EXCEPT ![k] = dest[k]])
  BY <1>3 DEF Settles
<1>6. pc = "wait" /\ mode = "soft" =>
        \A j \in due \cup In(got) : slotOf[j] \in Slots => slotOf'[j] = slotOf[j]
  BY DEF Snatches, Callback
<1> USE <1>4, <1>5 DEF EvictKeys
<1>7. TypeOK'
    BY <1>1 DEF TypeOK, Without, Freed, mlx, size, CallbackRuns, Forget
<1>8. Stages'
    BY <1>1 DEF TypeOK, Stages, Locked, mlx, size, CallbackRuns, Forget
<1>9. Futures'
    BY <1>1 DEF TypeOK, Futures, In, Without, mlx, CallbackRuns, Forget
<1>10. ReadsOwn'
  <2>1. \A j \in inflight' : Owns(j)'
    BY <1>1 DEF TypeOK, Futures, ReadsOwn, Owns, In, Without, Unpinned, mlx,
       CallbackRuns, Forget
  <2>2. ASSUME pc \in {"submit", "wait"}, NEW j \in due, dest[j] \in Slots
        PROVE  slotOf'[j] = dest[j] /\ Held(dest[j])
    <3>1. slotOf[j] = dest[j] /\ Held(dest[j]) /\ pc = "wait" /\ mode \in {"lru", "soft"}
      BY <1>1, <2>2 DEF ReadsOwn, Owns, CallbackRuns, Locked, Stages
    <3>2. CASE mode = "soft"
      BY <1>6, <2>2, <3>1, <3>2
    <3>3. CASE mode = "lru"
      BY <2>2, <3>1, <3>3 DEF Held, Unpinned, Without, TypeOK
    <3>4. QED BY <3>1, <3>2, <3>3
  <2>3. pc \in {"submit", "wait"} => \A j \in due : Owns(j)' /\ (dest'[j] \in Slots => Held(dest[j]))
    BY <1>1, <2>2, CacheAssumption DEF TypeOK, ReadsOwn, Owns, Without, mlx, CallbackRuns, Forget,
       CacheAssumption
  <2>4. QED
    BY <1>1, <2>1, <2>3, CacheAssumption DEF ReadsOwn, Held, mlx, CallbackRuns, Forget, Without, TypeOK,
       CacheAssumption
<1>11. GotOwns'
  <2>1. CASE pc = "wait" /\ mode = "soft"
    BY <1>1, <1>6, <2>1, CacheAssumption DEF GotOwns, Held, In, mlx, CacheAssumption
  <2>2. CASE pc # "wait"
    BY <1>1, <2>2, CacheAssumption DEF GotOwns, Stages, CallbackRuns, Locked, In, mlx, TypeOK,
       CacheAssumption
  <2>3. CASE pc = "wait" /\ mode = "lru"
    BY <1>1, <2>3 DEF GotOwns, Held, Without, Unpinned, mlx
  <2>4. QED
    BY <2>1, <2>2, <2>3 DEF Stages
<1>12. NoSharedSlot'
    BY <1>1 DEF TypeOK, NoSharedSlot, In, SlotsOf, Without, Freed, Unpinned
<1>13. ResidentIntact'
    BY <1>1 DEF Futures, ReadsOwn, Held, Owns, ResidentIntact, Without
<1>14. GuessIntact'
    BY <1>1 DEF TypeOK, Futures, GuessIntact, In, Without, Unpinned
<1>15. NoLooseResident'
    BY <1>1, CacheAssumption DEF NoLooseResident, Without, size,
       CacheAssumption
<1>16. NoSlab' BY <1>1, <1>2 DEF NoSlab, size
<1>17. QED
    BY <1>7, <1>8, <1>9, <1>10, <1>11, <1>12, <1>13, <1>14, <1>15, <1>16 DEF Owned

\* A guess is staged, and others are dropped unless a fetch has pinned them.
LEMMA CallbackStageStep ==
  ASSUME Owned, NEW k \in Experts, CallbackStage(k), ~Snatches
  PROVE  Owned'
<1> USE DEF Owned, CallbackStage
<1>1. TypeOK'
    BY DEF TypeOK, Without, Freed, mlx, size, CallbackRuns, Forget, DropGuesses
<1>2. Stages' BY DEF TypeOK, Stages, Locked, mlx, size, CallbackRuns, Forget
<1>3. Futures'
    BY DEF TypeOK, Futures, In, Without, mlx, CallbackRuns, Forget, DropGuesses
<1>4. pc = "wait" /\ mode = "soft" =>
        \A j \in due \cup In(got) : slotOf[j] \in Slots => slotOf'[j] = slotOf[j]
  BY DEF Snatches, Callback
<1>5. ReadsOwn'
  <2>1. \A j \in inflight' : Owns(j)'
    BY DEF TypeOK, Futures, ReadsOwn, Owns, In, Without, Unpinned, mlx,
       CallbackRuns, Forget, DropGuesses
  <2>2. ASSUME pc \in {"submit", "wait"}, NEW j \in due, dest[j] \in Slots
        PROVE  slotOf'[j] = dest[j] /\ Held(dest[j])
    <3>1. slotOf[j] = dest[j] /\ Held(dest[j]) /\ pc = "wait" /\ mode \in {"lru", "soft"}
      BY <2>2 DEF ReadsOwn, Owns, CallbackRuns, Locked, Stages
    <3>2. CASE mode = "soft"
      BY <1>4, <2>2, <3>1, <3>2
    <3>3. CASE mode = "lru"
      BY <2>2, <3>1, <3>3 DEF Held, Unpinned, Without, TypeOK, DropGuesses
    <3>4. QED BY <3>1, <3>2, <3>3
  <2>3. pc \in {"submit", "wait"} => \A j \in due : Owns(j)' /\ (dest'[j] \in Slots => Held(dest[j]))
    BY <2>2, CacheAssumption DEF TypeOK, ReadsOwn, Owns, Without, mlx, CallbackRuns, Forget,
       CacheAssumption
  <2>4. QED
    BY <2>1, <2>3, CacheAssumption DEF ReadsOwn, Held, mlx, CallbackRuns, Forget, Without, TypeOK,
       CacheAssumption
<1>6. GotOwns'
  <2>1. CASE pc = "wait" /\ mode = "soft"
    BY <1>4, <2>1, CacheAssumption DEF GotOwns, Held, In, mlx, CacheAssumption
  <2>2. CASE pc # "wait"
    BY <2>2, CacheAssumption DEF GotOwns, Stages, CallbackRuns, Locked, In, mlx, TypeOK,
       CacheAssumption
  <2>3. CASE pc = "wait" /\ mode = "lru"
    BY <2>3 DEF GotOwns, Held, Without, Unpinned, mlx, DropGuesses
  <2>4. QED
    BY <2>1, <2>2, <2>3 DEF Stages
<1>7. NoSlab'
    BY DEF NoSlab, Empty, Without, mlx, size, CallbackRuns, Forget, DropGuesses
<1>8. NoSharedSlot'
    BY DEF TypeOK, NoSharedSlot, In, SlotsOf, Without, Freed, Unpinned, DropGuesses
<1>9. ResidentIntact'
    BY DEF TypeOK, Futures, ResidentIntact, In, Without, Unpinned, DropGuesses
<1>10. GuessIntact'
    BY CacheAssumption DEF Futures, ReadsOwn, Held, Owns, GuessIntact, Without, Unpinned,
       CacheAssumption, CallbackRuns, DropGuesses
<1>11. NoLooseResident' BY DEF NoLooseResident, mlx, size
<1>12. QED
    BY <1>1, <1>2, <1>3, <1>5, <1>6, <1>7, <1>8, <1>9, <1>10, <1>11 DEF Owned

\* Every staged guess is dropped.
LEMMA RelievePressureStep ==
  ASSUME Owned, RelievePressure
  PROVE  Owned'
<1> USE DEF Owned, RelievePressure
<1>1. TypeOK' BY DEF TypeOK, Without, Freed, Entry, mlx, reads, size, DropGuesses
<1>2. Futures' BY DEF TypeOK, Futures, In, Without, mlx, reads, DropGuesses
<1>3. ReadsOwn'
    BY DEF TypeOK, Futures, ReadsOwn, Held, Owns, In, Without, Unpinned, mlx, reads,
       DropGuesses
<1>4. GotOwns' BY CacheAssumption DEF Stages, GotOwns, In, mlx, TypeOK, CacheAssumption
<1>5. NoSlab'
    BY CacheAssumption DEF NoSlab, Empty, Without, mlx, reads, size,
       CacheAssumption, DropGuesses
<1>6. NoSharedSlot'
    BY DEF TypeOK, NoSharedSlot, In, SlotsOf, Without, Freed, Unpinned, DropGuesses
<1>7. ResidentIntact'
    BY DEF TypeOK, Futures, ResidentIntact, Without, Unpinned, DropGuesses
<1>8. GuessIntact'
    BY CacheAssumption DEF GuessIntact, Without, Unpinned, CacheAssumption,
       DropGuesses
<1>9. Stages' /\ NoLooseResident'
    BY DEF Stages, NoLooseResident, mlx, size
<1>10. QED BY <1>1, <1>2, <1>3, <1>4, <1>5, <1>6, <1>7, <1>8, <1>9 DEF Owned

\* The release of the slab starts waiting for the reads in flight.
LEMMA ReleaseBeginStep ==
  ASSUME Owned, ReleaseBegin
  PROVE  Owned'
<1> USE DEF Owned, ReleaseBegin, MustYield
<1>1. Futures' BY DEF TypeOK, Stages, Futures, table, reads
<1>2. ReadsOwn' BY DEF ReadsOwn, Held, Owns, table, reads
<1>3. /\ TypeOK'
      /\ Stages'
      /\ GotOwns'
      /\ NoSlab'
      /\ NoSharedSlot'
      /\ ResidentIntact'
      /\ GuessIntact'
      /\ NoLooseResident'
    BY DEF TypeOK, Stages, GotOwns, Held, NoSlab, NoSharedSlot,
       ResidentIntact, GuessIntact, NoLooseResident, table, reads, size
<1>4. QED BY <1>1, <1>2, <1>3 DEF Owned

\* One of them has ended.
LEMMA DrainStep ==
  ASSUME Owned, NEW k \in Experts, k \notin cb, Drain(k)
  PROVE  Owned'
<1> USE DEF Owned, Drain
<1>1. TypeOK' BY DEF TypeOK, Without, Entry, table, size, Forget
<1>2. Stages' BY DEF TypeOK, Stages, size, Forget, Visible
<1>3. Futures' BY DEF Futures, Without, table, Forget
<1>4. ReadsOwn' BY DEF TypeOK, ReadsOwn, Held, Owns, Without, table, Forget
<1>5. NoSlab'
    BY CacheAssumption DEF NoSlab, Without, table, size, CacheAssumption, Forget
<1>6. /\ GotOwns'
      /\ NoSharedSlot'
      /\ ResidentIntact'
      /\ GuessIntact'
      /\ NoLooseResident'
    BY DEF GotOwns, Held, NoSharedSlot, ResidentIntact, GuessIntact,
       NoLooseResident, table, size
<1>7. QED BY <1>1, <1>2, <1>3, <1>4, <1>5, <1>6 DEF Owned

\* The slab goes, and with it everything that names a slot.
LEMMA ReleaseEndStep ==
  ASSUME Owned, ReleaseEnd
  PROVE  Owned'
<1> USE DEF Owned, ReleaseEnd
<1>1. TypeOK'
    BY CacheAssumption DEF TypeOK, Empty, Without, Entry, CacheAssumption, Forget,
       AtMost
<1>2. Futures' BY DEF TypeOK, Stages, Futures, Empty, In, Without, Forget
<1>3. ReadsOwn' BY DEF TypeOK, Stages, ReadsOwn, Held, Owns, Without, Forget
<1>4. GotOwns' BY CacheAssumption DEF TypeOK, Stages, GotOwns, Held, In, CacheAssumption
<1>5. NoSlab'
    BY CacheAssumption DEF TypeOK, Stages, Futures, NoSlab, Empty, In, Without,
       CacheAssumption, Forget
<1>6. NoSharedSlot' BY DEF NoSharedSlot, Empty
<1>7. ResidentIntact' BY CacheAssumption DEF ResidentIntact, Empty, CacheAssumption
<1>8. GuessIntact' BY CacheAssumption DEF GuessIntact, Empty, CacheAssumption
<1>9. Stages' /\ NoLooseResident' BY DEF Stages, NoLooseResident
<1>10. QED BY <1>1, <1>2, <1>3, <1>4, <1>5, <1>6, <1>7, <1>8, <1>9 DEF Owned

\* A prefill without a slab evicts down to its budget.
LEMMA ShrinkBudgetStep ==
  ASSUME Owned, ShrinkBudget
  PROVE  Owned'
<1> USE DEF Owned, ShrinkBudget
<1>1. TypeOK'
    BY CacheAssumption DEF TypeOK, Without, Freed, Entry, mlx, reads,
       CacheAssumption, EvictKeys, AtMost
<1>2. Futures' BY DEF TypeOK, Futures, In, Without, mlx, reads, EvictKeys
<1>3. ReadsOwn'
    BY DEF TypeOK, Futures, ReadsOwn, Held, Owns, In, Without, Unpinned, mlx, reads,
       EvictKeys, Evictions
<1>4. GotOwns' BY CacheAssumption DEF Stages, GotOwns, In, mlx, TypeOK, CacheAssumption
<1>5. NoSlab'
    BY CacheAssumption DEF NoSlab, Empty, Without, mlx, reads, CacheAssumption,
       EvictKeys
<1>6. NoSharedSlot'
    BY DEF TypeOK, NoSharedSlot, In, SlotsOf, Without, Freed, Unpinned, EvictKeys,
       Evictions
<1>7. ResidentIntact'
    BY CacheAssumption DEF ResidentIntact, Without, CacheAssumption, EvictKeys
<1>8. GuessIntact'
    BY DEF TypeOK, Futures, GuessIntact, In, Without, Unpinned, EvictKeys, Evictions
<1>9. Stages' /\ NoLooseResident' BY DEF Stages, NoLooseResident, mlx
<1>10. QED BY <1>1, <1>2, <1>3, <1>4, <1>5, <1>6, <1>7, <1>8, <1>9 DEF Owned

\* A new slab with N slots, all of them free.
LEMMA RebuildSlabStep ==
  ASSUME Owned, NEW N \in SUBSET Slots, RebuildSlab(N)
  PROVE  Owned'
<1> USE DEF Owned, RebuildSlab, SlotsThatFit
<1>1. TypeOK'
    <2>1. Cardinality(N) \in Nat
      BY CacheAssumption, FS_Subset, FS_CardinalityType DEF CacheAssumption
    <2>2. budget' \in Nat
      BY <2>1, CacheAssumption DEF CacheAssumption, AtMost
    <2>3. QED
      BY <2>2, CacheAssumption DEF TypeOK, Owned, CacheAssumption, Empty, Entry, mlx, reads
<1>2. Futures' BY DEF TypeOK, Futures, Empty, In, mlx, reads
<1>3. ReadsOwn' BY DEF TypeOK, ReadsOwn, Held, Owns, NoSlab, mlx, reads
<1>4. GotOwns' BY CacheAssumption DEF TypeOK, Stages, GotOwns, Held, In, mlx, CacheAssumption
<1>5. NoSharedSlot' BY DEF NoSharedSlot, Empty
<1>6. ResidentIntact' BY CacheAssumption DEF ResidentIntact, Empty, CacheAssumption
<1>7. GuessIntact' BY CacheAssumption DEF GuessIntact, Empty, CacheAssumption
<1>8. NoLooseResident' BY CacheAssumption DEF NoLooseResident, Empty, CacheAssumption
<1>9. Stages' /\ NoSlab' BY DEF Stages, NoSlab, mlx
<1>10. QED BY <1>1, <1>2, <1>3, <1>4, <1>5, <1>6, <1>7, <1>8, <1>9 DEF Owned

\* No slab from now on.
LEMMA RebuildFailsStep ==
  ASSUME Owned, RebuildFails
  PROVE  Owned'
<1> USE DEF Owned, RebuildFails
<1>1. TypeOK' BY DEF TypeOK, Empty, Entry, mlx, reads
<1>2. Futures' BY DEF TypeOK, Futures, Empty, In, mlx, reads
<1>3. ReadsOwn' BY DEF ReadsOwn, Held, Owns, mlx, reads
<1>4. NoSlab' BY CacheAssumption DEF NoSlab, Empty, mlx, reads, CacheAssumption
<1>5. ResidentIntact' BY CacheAssumption DEF ResidentIntact, Empty, CacheAssumption
<1>6. GuessIntact' BY CacheAssumption DEF GuessIntact, Empty, CacheAssumption
<1>7. Stages' /\ GotOwns' /\ NoSharedSlot' /\ NoLooseResident'
    BY DEF Stages, GotOwns, Held, NoSharedSlot, NoLooseResident, mlx
<1>8. QED BY <1>1, <1>2, <1>3, <1>4, <1>5, <1>6, <1>7 DEF Owned

\* The decode budget comes back.
LEMMA RestoreBudgetStep ==
  ASSUME Owned, RestoreBudget
  PROVE  Owned'
<1> USE DEF Owned, RestoreBudget
<1>1. ReadsOwn' BY DEF ReadsOwn, Held, Owns, mlx, table, reads
<1>2. /\ TypeOK'
      /\ Stages'
      /\ Futures'
      /\ GotOwns'
      /\ NoSlab'
      /\ NoSharedSlot'
      /\ ResidentIntact'
      /\ GuessIntact'
      /\ NoLooseResident'
    BY DEF TypeOK, Stages, Futures, GotOwns, Held, NoSlab, NoSharedSlot,
       ResidentIntact, GuessIntact, NoLooseResident, mlx, table, reads
<1>3. QED BY <1>1, <1>2 DEF Owned
(***************************************************************************)
(* The theorems.                                                           *)
(***************************************************************************)
LEMMA InitOwns == Init => IInv
<1> SUFFICES ASSUME Init PROVE IInv
  OBVIOUS
<1> USE CacheAssumption DEF Init, SlabsEnabled, Empty, CacheAssumption
<1>1. TypeOK
  BY DEF TypeOK, Entry
<1>2. Stages /\ Futures /\ NoSharedSlot
  BY DEF Stages, Futures, NoSharedSlot, In
<1>3. ReadsOwn /\ GotOwns /\ UsedPinned /\ NoSlab
  BY DEF ReadsOwn, Owns, GotOwns, UsedPinned, NoSlab
<1>4. ResidentIntact /\ GuessIntact /\ NoLooseResident
  BY DEF ResidentIntact, GuessIntact, NoLooseResident
<1>5. QED BY <1>1, <1>2, <1>3, <1>4 DEF IInv, Owned

\* Ownership does not depend on what the pending graph reads.
LEMMA GraphIsApart ==
  ASSUME Owned, UNCHANGED <<pc, mode, todo, due, got, table, reads, bytes, size>>,
         used' \in [Experts -> Entry],
         slab # "on" => \A k \in Experts : used'[k] \notin Slots
  PROVE  Owned'
<1> USE DEF Owned, table, reads, size
<1>1. TypeOK' /\ Stages' /\ NoSlab'
  BY DEF TypeOK, Stages, NoSlab, In
<1>2. Futures' /\ ReadsOwn'
  BY DEF Futures, ReadsOwn, Held, Owns, In
<1>3. GotOwns' /\ NoSharedSlot' /\ ResidentIntact' /\ GuessIntact' /\ NoLooseResident'
  BY DEF GotOwns, Held, NoSharedSlot, ResidentIntact, GuessIntact, NoLooseResident
<1>4. QED BY <1>1, <1>2, <1>3

\* Every step of the cache preserves ownership.
LEMMA StepOwns ==
  ASSUME Owned, [Next]_vars, ~Race
  PROVE  Owned'
<1>1. CASE Call
  <2>1. ASSUME NEW S \in SUBSET Experts, NEW m \in {"lru", "soft"}, FetchBegin(S, m)
        PROVE  Owned'
    BY <2>1, FetchBeginStep
  <2>2. ASSUME NEW S \in SUBSET Experts, NEW n \in BOOLEAN, Prefetch(S, n)
        PROVE  Owned'
    BY <2>2, PrefetchStep
  <2>3. ASSUME NEW N \in SUBSET Slots, RebuildSlab(N)
        PROVE  Owned'
    BY <2>3, RebuildSlabStep
  <2>4. QED
    BY <1>1, <2>1, <2>2, <2>3, RelievePressureStep, ReleaseBeginStep,
       ShrinkBudgetStep, RebuildFailsStep, RestoreBudgetStep DEF Call
<1>2. CASE Work
  <2>1. ASSUME NEW k \in Experts, Consume(k) \/ Drain(k)
        PROVE  Owned'
    <3>1. k \notin cb
      BY <2>1 DEF Race, Overtakes
    <3>2. QED
      BY <2>1, <3>1, ConsumeStep, DrainStep
  <2>2. QED
    BY <1>2, <2>1, SubmitToSlotStep, EvictForSlotStep, DropForSlotStep, SubmitLooseStep,
       AbortStep, FinishBeginStep, InstallOneStep, SpecToSlotStep,
       SpecStopStep, SpecLooseStep, ReleaseEndStep DEF Work
<1>3. CASE \E k \in Experts : Read(k)
  BY <1>3, ReadDoneStep, ReadFailStep DEF Read
<1>4. CASE \E k \in Experts : Callback(k)
  BY <1>4, CallbackIdleStep, CallbackInstallStep, CallbackStageStep DEF Callback, Race
<1>5. CASE UNCHANGED vars
  <2>1. used \in [Experts -> Entry] /\ (slab # "on" => \A k \in Experts : used[k] \notin Slots)
    BY DEF Owned, TypeOK, NoSlab
  <2>2. QED
    BY <1>5, <2>1, GraphIsApart DEF vars, mlx
<1>6. QED
  BY <1>1, <1>2, <1>3, <1>4, <1>5 DEF Next

\* The two shapes of UsedPinned.
GraphPinned == \A k \in Experts : used[k] \in Slots => lru[k] = used[k] /\ used[k] \in pinned
GraphLeft ==
  \A k \in Experts : used[k] \in Slots =>
    bytes[used[k]] = k /\ \A j \in Experts : st[j] = "reading" => dest[j] # used[k]

\* Experts that are not pinned are evicted for another, which may join the graph.
LEMMA EvictionsSpareGraph ==
  ASSUME Owned, GraphPinned, NEW k \in Experts, NEW e \in Slots,
         NEW E \in SUBSET Unpinned(In(lru) \cup {k}),
         lru[k] = None, EvictKeys(E, [lru EXCEPT ![k] = e]), slotOf[k] = e, pinned' = pinned,
         \/ used' = used
         \/ used' = [used EXCEPT ![k] = e] /\ e \in pinned
  PROVE  GraphPinned'
<1>1. \A j \in Experts : used[j] \in Slots => j \notin E /\ j # k
  BY CacheAssumption DEF Owned, GraphPinned, ResidentIntact, Unpinned, CacheAssumption
<1>2. \A j \in Experts : used[j] \in Slots => lru'[j] = used[j] /\ used[j] \in pinned'
  BY <1>1 DEF Owned, TypeOK, GraphPinned, EvictKeys, Without
<1>3. CASE used' = [used EXCEPT ![k] = e] /\ e \in pinned
  <2>1. k \notin E
    BY <1>3 DEF Unpinned
  <2>2. lru'[k] = e
    BY <2>1 DEF Owned, TypeOK, EvictKeys, Without
  <2>3. QED
    BY <1>2, <1>3, <2>2 DEF Owned, TypeOK, GraphPinned
<1>4. QED
  BY <1>2, <1>3 DEF GraphPinned

\* Nothing is read into a slot that an entry without a read owns.
LEMMA NotReadInto ==
  ASSUME Owned, NEW k \in Experts, k \notin inflight, slotOf[k] # None, NEW j \in Experts, st[j] = "reading"
  PROVE  dest[j] # slotOf[k]
BY CacheAssumption DEF Owned, TypeOK, Futures, ReadsOwn, Owns, NoSharedSlot, CacheAssumption

\* What the graph of a decode fetch reads stays resident and pinned.
LEMMA PinnedStays ==
  ASSUME Owned, GraphPinned, mode # "soft", Work \/ \E k \in Experts : Read(k) \/ Callback(k)
  PROVE  GraphPinned'
<1> USE DEF Owned
<1>1. CASE \E v \in Experts : EvictForSlot(v)
  BY <1>1 DEF EvictForSlot, TypeOK, GraphPinned, NoSharedSlot, ResidentIntact, Without, Unpinned,
     mlx, EvictKeys
<1>2. ASSUME NEW k \in Experts, InstallOne(k) PROVE GraphPinned'
  <2>1. /\ pc = "install" /\ k \in todo /\ Install(k, got[k], mode) /\ mode = "lru"
        /\ used' = [used EXCEPT ![k] = got[k]]
    BY <1>2 DEF InstallOne, Stages
  <2>2. got[k] \in Slots \cup {Loose}  BY <2>1 DEF Stages, TypeOK, In, Entry
  <2>3. got[k] \in Slots => slotOf[k] = got[k] /\ slab = "on" /\ got[k] \in pinned
    BY <2>1 DEF GotOwns, Held, NoSlab
  <2>4. Stays(k, got[k]) \/ Settles(k, got[k], "lru")
    BY <2>1, <2>2, <2>3, InstallEffect DEF GivesBack
  <2>5. CASE Stays(k, got[k])
    BY <2>1, <2>3, <2>5, CacheAssumption DEF Stays, TypeOK, GraphPinned, ResidentIntact,
       NoLooseResident, Entry, CacheAssumption
  <2>6. CASE Settles(k, got[k], "lru") /\ got[k] \in Slots
    BY <2>1, <2>3, <2>6, EvictionsSpareGraph DEF Settles
  <2>7. CASE slab # "on"
    BY <2>1, <2>2, <2>3, <2>7, CacheAssumption DEF GraphPinned, NoSlab, TypeOK, CacheAssumption
  <2>8. QED BY <2>4, <2>5, <2>6, <2>7 DEF Settles
<1>3. ASSUME NEW k \in Experts, CallbackInstall(k) PROVE GraphPinned'
  <2>1. /\ CallbackRuns(k) /\ lru[k] = None /\ dest[k] \in Slots
        /\ Install(k, dest[k], "lru") /\ used' = used
    BY <1>3 DEF CallbackInstall, mlx
  <2>2. slotOf[k] = dest[k] /\ slab = "on"
    BY <2>1 DEF CallbackRuns, Futures, ReadsOwn, Owns, NoSlab
  <2>3. Settles(k, dest[k], "lru")
    BY <2>1, <2>2, InstallEffect, CacheAssumption DEF Stays, GivesBack, CacheAssumption
  <2>4. QED BY <2>1, <2>2, <2>3, EvictionsSpareGraph DEF Settles
<1>4. CASE ReleaseEnd \/ \E k \in Experts : Abort(k)
  BY <1>4, CacheAssumption DEF ReleaseEnd, Abort, GraphPinned, Empty, table, CacheAssumption
<1>5. CASE UNCHANGED <<used, lru>> /\ pinned \subseteq pinned'
  BY <1>5 DEF GraphPinned
<1>6. QED
  <2>1. ASSUME Work PROVE GraphPinned'
    BY <2>1, <1>1, <1>2, <1>4, <1>5 DEF Work, SubmitToSlot, DropForSlot, SubmitLoose, Consume, FinishBegin,
       SpecToSlot, SpecStop, SpecLoose, Drain, TakeSlot, Submitted, Guessed, mlx, table
  <2>2. ASSUME NEW k \in Experts, Read(k) \/ Callback(k) PROVE GraphPinned'
    BY <2>2, <1>3, <1>5 DEF Read, ReadDone, ReadFail, Callback, CallbackIdle, CallbackStage,
       mlx, table
  <2>3. QED
    BY <2>1, <2>2

\* What the graph of a prefill reads is not read into: a prefill starts no read into
\* a slot, and nothing else does while it is under way.
LEMMA LeftStays ==
  ASSUME Owned, GraphLeft, mode = "soft", pc \in {"idle", "drain"} => used = Empty,
         Work \/ \E k \in Experts : Read(k) \/ Callback(k)
  PROVE  GraphLeft' /\ (pc' \in {"idle", "drain"} => used' = Empty)
<1> USE DEF Owned
<1>1. ASSUME NEW k \in Experts, InstallOne(k)
      PROVE  GraphLeft' /\ (pc' \in {"idle", "drain"} => used' = Empty)
  <2>1. /\ pc = "install" /\ k \in In(got) /\ UNCHANGED <<reads, bytes>>
        /\ pc' = IF todo = {k} THEN "idle" ELSE "install"
        /\ used' = IF todo = {k} THEN Empty ELSE [used EXCEPT ![k] = got[k]]
    BY <1>1 DEF InstallOne, Stages
  <2>2. got[k] \in Slots => /\ bytes[got[k]] = k
                            /\ \A j \in Experts : st[j] = "reading" => dest[j] # got[k]
    <3>1. k \notin inflight
      BY <2>1 DEF Futures, In
    <3>2. got[k] \in Slots => slotOf[k] = got[k] /\ slotOf[k] # None /\ bytes[got[k]] = k
      BY CacheAssumption DEF GotOwns, CacheAssumption
    <3>3. QED
      BY <3>1, <3>2, NotReadInto
  <2>3. QED
    BY <2>1, <2>2, CacheAssumption DEF GraphLeft, TypeOK, Empty, reads, CacheAssumption
<1>2. CASE (\E k \in Experts : Abort(k)) \/ ReleaseEnd \/ FinishBegin
  BY <1>2, CacheAssumption DEF Abort, ReleaseEnd, FinishBegin, GraphLeft, Empty, Forget, Without, TypeOK, Stages,
     table, reads, CacheAssumption
<1>3. ASSUME NEW k \in Experts, Read(k)
      PROVE  GraphLeft' /\ (pc' \in {"idle", "drain"} => used' = Empty)
  BY <1>3 DEF Read, ReadDone, ReadFail, GraphLeft, TypeOK, mlx
<1>4. CASE UNCHANGED <<pc, used, bytes>> /\ \E S : Forget(S)
  BY <1>4 DEF GraphLeft, Forget, Without, TypeOK
<1>5. CASE UNCHANGED <<pc, used, bytes, st, dest>>
  BY <1>5 DEF GraphLeft
<1>6. ASSUME NEW k \in Experts, SubmitLoose(k)
      PROVE  GraphLeft' /\ (pc' \in {"idle", "drain"} => used' = Empty)
  BY <1>6, CacheAssumption DEF SubmitLoose, StartLoose, StartRead, Submitted, GraphLeft, TypeOK, CacheAssumption
<1>7. QED
  <2>1. ASSUME Work PROVE GraphLeft' /\ (pc' \in {"idle", "drain"} => used' = Empty)
    <3>1. ~\E k \in Experts, s \in Slots : SubmitToSlot(k, s) \/ SpecToSlot(k, s)
      BY DEF SubmitToSlot, SpecToSlot, SlabFetch, Stages
    <3>2. ~\E k \in Experts : EvictForSlot(k) \/ DropForSlot(k) \/ SpecLoose(k)
      BY DEF EvictForSlot, DropForSlot, SpecLoose, SlabFetch, Stages
    <3>3. ~SpecStop
      BY DEF SpecStop, Stages
    <3>4. ASSUME NEW k \in Experts, Consume(k) \/ Drain(k)
          PROVE  UNCHANGED <<pc, used, bytes>> /\ \E S : Forget(S)
      BY <3>4 DEF Consume, Drain
    <3>5. QED
      BY <2>1, <3>1, <3>2, <3>3, <3>4, <1>1, <1>2, <1>4, <1>6 DEF Work
  <2>2. ASSUME NEW k \in Experts, Callback(k)
        PROVE  UNCHANGED <<pc, used, bytes>> /\ \E S : Forget(S)
    BY <2>2 DEF Callback, CallbackIdle, CallbackInstall, CallbackStage, CallbackRuns, mlx
  <2>3. QED
    BY <2>1, <2>2, <1>3, <1>4

\* A fetch starts a new graph.
LEMMA FetchPins ==
  ASSUME Owned, NEW S \in SUBSET Experts, NEW m \in {"lru", "soft"}, FetchBegin(S, m)
  PROVE  UsedPinned'
<1> USE DEF Owned
<1>1. \A k \in Experts : used'[k] \in Slots => used'[k] = lru[k] /\ k \in S
  BY CacheAssumption DEF FetchBegin, CacheAssumption
<1>2. CASE m = "lru"
  BY <1>1, <1>2, CacheAssumption DEF FetchBegin, UsedPinned, NoSlab, ResidentIntact, SlotsOf, CacheAssumption
<1>3. CASE m = "soft"
  <2>1. ASSUME NEW k \in Experts, lru[k] \in Slots, NEW j \in Experts, st[j] = "reading"
        PROVE  dest[j] # lru[k]
    <3>1. k \notin inflight /\ slotOf[k] = lru[k] /\ slotOf[k] # None
      BY <2>1, CacheAssumption DEF Futures, ResidentIntact, CacheAssumption
    <3>2. QED
      BY <2>1, <3>1, NotReadInto
  <2>2. pc' \notin {"idle", "drain"} /\ mode' = "soft"
    BY <1>3 DEF FetchBegin
  <2>3. QED
    BY <1>1, <2>1, <2>2 DEF FetchBegin, UsedPinned, ResidentIntact, reads
<1>4. QED
  BY <1>2, <1>3

\* What the graph of a fetch reads stays as it is.
LEMMA UsedStays ==
  ASSUME IInv, [Next]_vars
  PROVE  UsedPinned'
<1> USE DEF IInv
<1>1. CASE \E S \in SUBSET Experts, m \in {"lru", "soft"} : FetchBegin(S, m)
  BY <1>1, FetchPins
<1>2. CASE \E S \in SUBSET Experts, n \in BOOLEAN : Prefetch(S, n)
  <2>1. pc = "idle" /\ mode' # "soft" /\ UNCHANGED <<used, lru, pinned>>
    BY <1>2 DEF Prefetch, table
  <2>2. QED
    BY <2>1, CacheAssumption DEF UsedPinned, Empty, CacheAssumption
<1>3. CASE ShrinkBudget \/ RebuildFails \/ \E N \in SUBSET Slots : RebuildSlab(N)
  <2>1. slab # "on" /\ UNCHANGED <<used, mode, pc>> /\ pc = "idle"
    BY <1>3 DEF ShrinkBudget, RebuildFails, RebuildSlab, mlx
  <2>2. \A k \in Experts : used[k] \notin Slots
    BY <2>1 DEF Owned, NoSlab
  <2>3. QED
    BY <2>1, <2>2 DEF UsedPinned
<1>4. CASE RelievePressure \/ ReleaseBegin \/ RestoreBudget \/ UNCHANGED vars
  <2>1. UNCHANGED <<used, mode, lru, pinned, bytes, st, dest>> /\ (pc' = pc \/ pc = "idle")
    BY <1>4 DEF RelievePressure, ReleaseBegin, RestoreBudget, vars, mlx, table, reads
  <2>2. QED
    BY <2>1, CacheAssumption DEF UsedPinned, Empty, CacheAssumption
<1>5. CASE Work \/ \E k \in Experts : Read(k) \/ Callback(k)
  <2>1. mode' = mode
    BY <1>5 DEF Work, SubmitToSlot, EvictForSlot, DropForSlot, SubmitLoose, Consume, Abort, FinishBegin,
       InstallOne, SpecToSlot, SpecStop, SpecLoose, Drain, ReleaseEnd, Submitted, Guessed,
       Read, ReadDone, ReadFail, Callback, CallbackIdle, CallbackInstall, CallbackStage, mlx
  <2>2. CASE mode = "soft"
    BY <1>5, <2>1, <2>2, LeftStays DEF UsedPinned, GraphLeft
  <2>3. CASE mode # "soft"
    BY <1>5, <2>1, <2>3, PinnedStays DEF UsedPinned, GraphPinned
  <2>4. QED
    BY <2>2, <2>3
<1>6. QED
  BY <1>1, <1>2, <1>3, <1>4, <1>5 DEF Next, Call

\* The inductive invariant: who may name a slot, and what protects it.  Every
\* behaviour keeps it, or loses one of the two races.  (A behaviour may stop at any
\* point, so the race is never later than the first state in which IInv fails.)
THEOREM OwnershipInvariant == Spec => []IInv \/ <><<Race>>_vars
<1>1. Init => IInv
  BY InitOwns
<1>2. IInv /\ [Next]_vars /\ ~<<Race>>_vars => IInv'
  <2> SUFFICES ASSUME IInv, [Next]_vars, ~<<Race>>_vars PROVE IInv'
    OBVIOUS
  <2>1. CASE ~Race
    BY <2>1, StepOwns, UsedStays DEF IInv
  <2>2. CASE UNCHANGED vars
    <3>1. ~Race
      BY <2>2 DEF Race, Overtakes, Snatches, Consume, Drain, vars, mlx, table, IInv, Owned, Stages
    <3>2. QED
      BY <3>1, StepOwns, UsedStays DEF IInv
  <2>3. QED
    BY <2>1, <2>2
<1>3. QED
  BY <1>1, <1>2, PTL DEF Spec

\* No slot is handed out twice (check_slots), with any number of experts, slots,
\* reader threads and guesses in flight, unless a race is lost.
THEOREM SlotsNotShared == Spec => []NoSharedSlot \/ <><<Race>>_vars
<1>1. IInv => NoSharedSlot
  BY DEF IInv, Owned
<1>2. QED
  BY <1>1, OwnershipInvariant, PTL

\* A resident expert and a staged guess are what they say, whole (_install,
\* _attach_staging), unless a race is lost.
THEOREM EntriesIntact == Spec => [](ResidentIntact /\ GuessIntact) \/ <><<Race>>_vars
<1>1. IInv => ResidentIntact /\ GuessIntact
  BY DEF IInv, Owned
<1>2. QED
  BY <1>1, OwnershipInvariant, PTL

\* The weights a pending graph reads are not overwritten under it (_alloc_slot),
\* unless a race is lost.
THEOREM PendingGraphIntact == Spec => []ComputeIntact \/ <><<Race>>_vars
<1>1. IInv => ComputeIntact
  BY DEF IInv, Owned, UsedPinned, ResidentIntact, ComputeIntact
<1>2. QED
  BY <1>1, OwnershipInvariant, PTL

\* Nothing names a slot of memory that was handed back (_release_slab_locked), unless
\* a race is lost: the callback that was overtaken stages its guess after the release.
THEOREM NothingStaleAfterRelease == Spec => []NoStaleSlot \/ <><<Race>>_vars
<1>1. IInv => NoStaleSlot
  BY CacheAssumption DEF IInv, Owned, NoSlab, NoStaleSlot, Empty, CacheAssumption
<1>2. QED
  BY <1>1, OwnershipInvariant, PTL

-----------------------------------------------------------------------------
(* What holds whichever race is lost: the types, that memory which was      *)
(* handed back is not written, and that nothing resident is outside the     *)
(* slab while it is up.  Each is an invariant of its own.                   *)

\* Evictions and installations keep the types of the table.
Tables ==
  /\ lru \in [Experts -> Entry]
  /\ slotOf \in [Experts -> Slots \cup {None}]
  /\ free \in [Slots -> Nat]
  /\ pinned \subseteq Slots

LEMMA EvictKeysTypes ==
  ASSUME Tables, NEW E, NEW resident \in [Experts -> Entry], EvictKeys(E, resident), UNCHANGED pinned
  PROVE  Tables'
BY DEF Tables, EvictKeys, Without, Freed, Entry

LEMMA InstallTypes ==
  ASSUME Tables, NEW k \in Experts, NEW e \in Entry, NEW m, Install(k, e, m)
  PROVE  Tables'
<1>1. CASE ReleaseSlot(k, e) /\ UNCHANGED lru
  BY <1>1 DEF Tables, ReleaseSlot, Freed
<1>2. CASE UNCHANGED <<lru, free, slotOf, pinned>>
  BY <1>2 DEF Tables
<1>3. ASSUME NEW E, EvictKeys(E, [lru EXCEPT ![k] = e]), UNCHANGED pinned
      PROVE  Tables'
  BY <1>3, EvictKeysTypes DEF Tables
<1>4. QED
  BY <1>1, <1>2, <1>3 DEF Install

LEMMA WorkTypes ==
  ASSUME TypeOK, Work
  PROVE  TypeOK'
<1>1. ASSUME NEW k \in Experts, NEW s \in Slots, SubmitToSlot(k, s) \/ SpecToSlot(k, s)
      PROVE  TypeOK'
  BY <1>1 DEF TypeOK, SubmitToSlot, SpecToSlot, Entry, size, TakeSlot, StartRead, Submitted, Guessed
<1>2. ASSUME NEW k \in Experts, SubmitLoose(k) \/ SpecLoose(k)
      PROVE  TypeOK'
  BY <1>2 DEF TypeOK, SubmitLoose, SpecLoose, StartLoose, Entry, table, size, StartRead, Submitted, Guessed
<1>3. ASSUME NEW v \in Experts, EvictForSlot(v)
      PROVE  TypeOK'
  BY <1>3 DEF EvictForSlot, TypeOK, Without, Freed, Entry, mlx, reads, size, EvictKeys
<1>4. ASSUME NEW v \in Experts, DropForSlot(v)
      PROVE  TypeOK'
  BY <1>4 DEF DropForSlot, TypeOK, Without, Freed, Entry, mlx, reads, size, DropGuesses
<1>5. ASSUME NEW k \in Experts, Consume(k) \/ Drain(k)
      PROVE  TypeOK'
  BY <1>5 DEF Consume, Drain, TypeOK, Without, Entry, table, size, Forget
<1>6. ASSUME NEW k \in Experts, Abort(k)
      PROVE  TypeOK'
  BY <1>6 DEF Abort, TypeOK, Empty, Without, Entry, table, size, Forget
<1>7. CASE FinishBegin \/ SpecStop
  BY <1>7 DEF FinishBegin, SpecStop, TypeOK, Empty, In, Entry, table, reads, size
<1>8. ASSUME NEW k \in Experts, InstallOne(k)
      PROVE  TypeOK'
  <2>1. Tables'
    BY <1>8, InstallTypes DEF InstallOne, TypeOK, Tables
  <2>2. QED
    BY <1>8, <2>1 DEF InstallOne, TypeOK, Tables, Empty, Entry, reads, size
<1>9. CASE ReleaseEnd
  BY <1>9, CacheAssumption DEF ReleaseEnd, TypeOK, Empty, Without, Entry, CacheAssumption, Forget, AtMost
<1>10. QED
  BY <1>1, <1>2, <1>3, <1>4, <1>5, <1>6, <1>7, <1>8, <1>9 DEF Work

LEMMA CallTypes ==
  ASSUME TypeOK, Call
  PROVE  TypeOK'
<1>1. ASSUME NEW S \in SUBSET Experts, NEW m \in {"lru", "soft"}, FetchBegin(S, m)
      PROVE  TypeOK'
  BY <1>1 DEF FetchBegin, TypeOK, SlotsOf, Without, Entry, reads, size
<1>2. ASSUME NEW S \in SUBSET Experts, NEW n \in BOOLEAN, Prefetch(S, n)
      PROVE  TypeOK'
  BY <1>2 DEF Prefetch, Unknown, TypeOK, table, reads, size
<1>3. CASE RelievePressure
  BY <1>3 DEF RelievePressure, TypeOK, Without, Freed, Entry, mlx, reads, size, DropGuesses
<1>4. CASE ReleaseBegin \/ RestoreBudget
  BY <1>4 DEF ReleaseBegin, RestoreBudget, TypeOK, mlx, table, reads, size
<1>5. CASE ShrinkBudget
  BY <1>5, CacheAssumption DEF ShrinkBudget, TypeOK, Without, Freed, Entry, mlx, reads,
     CacheAssumption, EvictKeys, AtMost
<1>6. ASSUME NEW N \in SUBSET Slots, RebuildSlab(N)
      PROVE  TypeOK'
  <2>1. Cardinality(N) \in Nat
    BY CacheAssumption, FS_Subset, FS_CardinalityType DEF CacheAssumption
  <2>2. budget' \in Nat
    BY <1>6, <2>1, CacheAssumption DEF RebuildSlab, SlotsThatFit, CacheAssumption, AtMost
  <2>3. QED
    BY <1>6, <2>2, CacheAssumption DEF RebuildSlab, TypeOK, CacheAssumption, Empty, Entry, mlx, reads
<1>7. CASE RebuildFails
  BY <1>7 DEF RebuildFails, TypeOK, Empty, Entry, mlx, reads
<1>8. QED
  BY <1>1, <1>2, <1>3, <1>4, <1>5, <1>6, <1>7 DEF Call

LEMMA ReaderTypes ==
  ASSUME TypeOK, NEW k \in Experts, Read(k) \/ Callback(k)
  PROVE  TypeOK'
<1>1. CASE Read(k)
  BY <1>1 DEF Read, ReadDone, ReadFail, TypeOK, mlx, table, size
<1>2. CASE CallbackIdle(k)
  BY <1>2 DEF CallbackIdle, TypeOK, Without, Entry, mlx, table, size, CallbackRuns, Forget
<1>3. CASE CallbackInstall(k)
  <2>1. Tables'
    BY <1>3, InstallTypes DEF CallbackInstall, TypeOK, Tables
  <2>2. QED
    BY <1>3, <2>1 DEF CallbackInstall, TypeOK, Tables, Without, Entry, mlx, size, CallbackRuns, Forget
<1>4. CASE CallbackStage(k)
  BY <1>4 DEF CallbackStage, TypeOK, Without, Freed, Entry, mlx, size, CallbackRuns, Forget, DropGuesses
<1>5. QED
  BY <1>1, <1>2, <1>3, <1>4 DEF Callback

LEMMA StepTypes ==
  ASSUME TypeOK, [Next]_vars
  PROVE  TypeOK'
<1>1. CASE UNCHANGED vars
  BY <1>1 DEF TypeOK, vars, mlx, table, reads, size
<1>2. QED
  BY <1>1, WorkTypes, CallTypes, ReaderTypes DEF Next

\* The cache's tables have their types in every reachable state.
THEOREM TypeCorrect == Spec => []TypeOK
<1>1. Init => TypeOK
  BY InitOwns DEF IInv, Owned
<1>2. QED
  BY <1>1, StepTypes, PTL DEF Spec

\* Every read is in flight, the release of the slab waits for all of them, and only a
\* slab that is up is read into.
ReadsTracked ==
  /\ \A k \in Experts : st[k] = "reading" => k \in inflight
  /\ pc = "drain" => slab = "on" /\ \A k \in Experts : st[k] = "reading" => k \in due
  /\ NoWriteAfterFree

LEMMA StepTracks ==
  ASSUME TypeOK, ReadsTracked, [Next]_vars
  PROVE  ReadsTracked'
<1> USE DEF TypeOK, ReadsTracked, NoWriteAfterFree
<1>1. ASSUME NEW k \in Experts, NEW s \in Slots, SubmitToSlot(k, s) \/ SpecToSlot(k, s)
      PROVE  ReadsTracked'
  BY <1>1 DEF SubmitToSlot, SpecToSlot, SlabFetch, size, StartRead, Submitted, Guessed
<1>2. ASSUME NEW k \in Experts, SubmitLoose(k) \/ SpecLoose(k)
      PROVE  ReadsTracked'
  BY <1>2, CacheAssumption DEF SubmitLoose, SpecLoose, StartLoose, table, size, StartRead, Submitted, Guessed,
     CacheAssumption
<1>3. ASSUME NEW k \in Experts, Consume(k) \/ Drain(k) \/ Abort(k)
      PROVE  ReadsTracked'
  BY <1>3, CacheAssumption DEF Consume, Drain, Abort, Without, size, table, Forget, CacheAssumption
<1>4. CASE ReleaseEnd
  BY <1>4 DEF ReleaseEnd, Forget
<1>5. CASE ReleaseBegin
  BY <1>5 DEF ReleaseBegin, MustYield, table, reads, size
<1>6. ASSUME NEW k \in Experts, Read(k)
      PROVE  ReadsTracked'
  BY <1>6 DEF Read, ReadDone, ReadFail, mlx, size
<1>7. ASSUME NEW k \in Experts, Callback(k)
      PROVE  ReadsTracked'
  <2>1. /\ st[k] # "reading" /\ UNCHANGED <<pc, due, slab>>
        /\ inflight' = inflight \ {k} /\ Forget({k} \ due)
    BY <1>7 DEF Callback, CallbackIdle, CallbackInstall, CallbackStage, CallbackRuns, mlx, size
  <2>2. QED
    BY <2>1, CacheAssumption DEF Forget, Without, CacheAssumption
<1>8. ASSUME UNCHANGED reads, UNCHANGED <<due, slab>>, pc' # "drain" \/ pc' = pc
      PROVE  ReadsTracked'
  BY <1>8 DEF reads
<1>9. CASE RebuildFails \/ \E N \in SUBSET Slots : RebuildSlab(N)
  BY <1>9 DEF RebuildFails, RebuildSlab, mlx, reads
<1>10. ASSUME NEW S, NEW m, FetchBegin(S, m)
      PROVE  ReadsTracked'
  BY <1>10 DEF FetchBegin, reads, size
<1>11. CASE Work
  BY <1>1, <1>2, <1>3, <1>4, <1>8, <1>11
  DEF Work, EvictForSlot, DropForSlot, FinishBegin, InstallOne, SpecStop, mlx, size
<1>12. CASE Call
  BY <1>5, <1>8, <1>9, <1>10, <1>12 DEF Call, Prefetch, RelievePressure, ShrinkBudget, RestoreBudget, mlx, size
<1>13. CASE UNCHANGED vars
  BY <1>8, <1>13 DEF vars, mlx, size
<1>14. QED
  BY <1>6, <1>7, <1>11, <1>12, <1>13 DEF Next

\* Memory that was handed back is not written (_release_slab), whatever the callbacks do.
THEOREM HandedBackMemoryIsFree == Spec => []NoWriteAfterFree
<1>1. Init => ReadsTracked
  BY DEF Init, SlabsEnabled, ReadsTracked, NoWriteAfterFree
<1>2. ReadsTracked => NoWriteAfterFree
  BY DEF ReadsTracked
<1>3. QED
  BY <1>1, <1>2, StepTracks, TypeCorrect, PTL DEF Spec

LEMMA StepInSlab ==
  ASSUME TypeOK, NoLooseResident, [Next]_vars
  PROVE  NoLooseResident'
<1> USE CacheAssumption DEF TypeOK, NoLooseResident, CacheAssumption
<1>1. ASSUME NEW k \in Experts, NEW e, NEW m, Install(k, e, m), UNCHANGED slab
      PROVE  NoLooseResident'
  BY <1>1 DEF Install, ReleaseSlot, EvictKeys, Without
<1>2. ASSUME NEW E, EvictKeys(E, lru), UNCHANGED slab
      PROVE  NoLooseResident'
  BY <1>2 DEF EvictKeys, Without
<1>3. CASE ReleaseEnd \/ RebuildFails \/ \E N \in SUBSET Slots : RebuildSlab(N)
  BY <1>3 DEF ReleaseEnd, RebuildFails, RebuildSlab, Empty
<1>4. CASE UNCHANGED <<lru, slab>>
  BY <1>4
<1>5. CASE Work
  BY <1>1, <1>2, <1>3, <1>4, <1>5 DEF Work, SubmitToSlot, EvictForSlot, DropForSlot, SubmitLoose, Consume, Abort,
     FinishBegin, InstallOne, SpecToSlot, SpecStop, SpecLoose, Drain, table, size
<1>6. CASE Call
  BY <1>2, <1>3, <1>4, <1>6 DEF Call, FetchBegin, Prefetch, RelievePressure, ReleaseBegin, ShrinkBudget, RestoreBudget,
     table, size
<1>7. ASSUME NEW k \in Experts, Read(k) \/ Callback(k)
      PROVE  NoLooseResident'
  BY <1>1, <1>4, <1>7 DEF Read, ReadDone, ReadFail, Callback, CallbackIdle, CallbackInstall, CallbackStage, table, size
<1>8. QED
  BY <1>4, <1>5, <1>6, <1>7 DEF Next, vars, table, size

\* While the slab is up every resident expert is in it (_install), whatever the
\* callbacks do.
THEOREM ResidentsInSlab == Spec => []NoLooseResident
<1>1. Init => NoLooseResident
  BY InitOwns DEF IInv, Owned
<1>2. QED
  BY <1>1, StepInSlab, TypeCorrect, PTL DEF Spec

-----------------------------------------------------------------------------
(* ExpertCache implements SlotStore, for any number of experts, slots and   *)
(* reads in flight: every step of the cache is a step of the store or       *)
(* leaves the store as it is.  The inductive invariant does the work: it    *)
(* says that a slot which is read into is named by _slot_of under the       *)
(* expert being read, so it is neither free nor up for eviction.            *)

\* Holder, as a function of _slot_of.
HolderOf(f) == [s \in Slots |->
  IF \E k \in Experts : f[k] = s THEN CHOOSE k \in Experts : f[k] = s ELSE None]

Injective(f) ==
  \A j, k \in Experts : f[j] = f[k] /\ f[j] # None => j = k

Step == Store!Next \/ UNCHANGED <<Holder, Writing, bytes>>

LEMMA HolderIsHolderOf ==
  Holder = HolderOf(slotOf) /\ Holder' = HolderOf(slotOf')
BY DEF Holder, HolderOf

LEMMA HolderAt ==
  ASSUME NEW f, Injective(f), NEW k \in Experts, f[k] \in Slots
  PROVE  HolderOf(f)[f[k]] = k
<1>1. f[k] # None
  BY CacheAssumption DEF CacheAssumption
<1>2. \A j \in Experts : f[j] = f[k] => j = k
  BY <1>1 DEF Injective
<1>3. (CHOOSE j \in Experts : f[j] = f[k]) = k
  BY <1>2
<1>4. QED
  BY <1>3 DEF HolderOf

LEMMA HolderNowhere ==
  ASSUME NEW f, NEW s \in Slots, \A k \in Experts : f[k] # s
  PROVE  HolderOf(f)[s] = None
BY DEF HolderOf

\* Two maps that agree about a slot agree about its holder.
LEMMA HolderSame ==
  ASSUME NEW f, NEW g, Injective(f), Injective(g), NEW s \in Slots,
         \A k \in Experts : f[k] = s <=> g[k] = s
  PROVE  HolderOf(f)[s] = HolderOf(g)[s]
<1>1. CASE \E k \in Experts : f[k] = s
  <2>1. PICK k \in Experts : f[k] = s
    BY <1>1
  <2>2. HolderOf(f)[s] = k
    BY <2>1, HolderAt
  <2>3. HolderOf(g)[s] = k
    BY <2>1, HolderAt
  <2>4. QED
    BY <2>2, <2>3
<1>2. CASE ~ \E k \in Experts : f[k] = s
  BY <1>2, HolderNowhere
<1>3. QED
  BY <1>1, <1>2

\* What the invariant says of the slots that are being written.
LEMMA WritingOwned ==
  ASSUME IInv, NEW t \in Writing
  PROVE  t \in Slots /\ \E j \in Experts : st[j] = "reading" /\ dest[j] = t /\ slotOf[j] = t
<1>1. PICK j \in Experts : st[j] = "reading" /\ dest[j] = t /\ t # Loose
  BY DEF Writing
<1>2. j \in inflight /\ dest[j] # None
  BY <1>1 DEF IInv, Owned, Futures
<1>3. t \in Slots
  BY <1>1, <1>2 DEF IInv, Owned, TypeOK, Entry
<1>4. Owns(j)
  BY <1>2 DEF IInv, Owned, ReadsOwn
<1>5. QED
  BY <1>1, <1>3, <1>4 DEF Owns

LEMMA Unshared ==
  ASSUME IInv
  PROVE  Injective(slotOf)
BY DEF IInv, Owned, NoSharedSlot, Injective

-----------------------------------------------------------------------------
\* No slot changes hands and no read into a slot starts or ends.
LEMMA Stutters ==
  ASSUME slotOf' = slotOf, bytes' = bytes, Writing' = Writing
  PROVE  Step
BY HolderIsHolderOf DEF Step

\* The reads that are being written are the same.
LEMMA SameReads ==
  ASSUME \A k \in Experts : st'[k] = "reading" <=> st[k] = "reading",
         \A k \in Experts : st[k] = "reading" => dest'[k] = dest[k]
  PROVE  Writing' = Writing
BY DEF Writing

\* Experts that are not being read lose their slots: an eviction, a guess that
\* is dropped, or both with an installation.
LEMMA Vacates ==
  ASSUME IInv, IInv', NEW E \in SUBSET Experts, slotOf' = Without(slotOf, E),
         bytes' = bytes, Writing' = Writing, \A k \in E : st[k] # "reading"
  PROVE  Step
<1> DEFINE V == {slotOf[k] : k \in E} \cap Slots
<1>1. CASE V = {}
  <2>1. \A k \in Experts : slotOf'[k] = slotOf[k]
    BY <1>1 DEF IInv, Owned, TypeOK, Without
  <2>2. slotOf' = slotOf
    BY <2>1 DEF IInv, Owned, TypeOK
  <2>3. QED
    BY <2>2, Stutters
<1>2. CASE V # {}
  <2>1. V \cap Writing = {}
    <3> SUFFICES ASSUME NEW t \in Writing, t \in V PROVE FALSE
      OBVIOUS
    <3>1. PICK j \in Experts : st[j] = "reading" /\ slotOf[j] = t /\ t \in Slots
      BY WritingOwned
    <3>2. PICK k \in E : slotOf[k] = t
      OBVIOUS
    <3>3. j = k
      BY <3>1, <3>2, Unshared, CacheAssumption DEF Injective, CacheAssumption
    <3>4. QED
      BY <3>1, <3>3
  <2>2. Holder' = [s \in Slots |-> IF s \in V THEN None ELSE Holder[s]]
    <3>1. ASSUME NEW s \in V PROVE HolderOf(slotOf')[s] = None
      <4>1. \A k \in Experts : slotOf'[k] # s
        BY Unshared, CacheAssumption DEF Injective, Without, CacheAssumption
      <4>2. QED
        BY <4>1, HolderNowhere
    <3>2. ASSUME NEW s \in Slots \ V PROVE HolderOf(slotOf')[s] = HolderOf(slotOf)[s]
      <4>1. \A k \in Experts : slotOf'[k] = s <=> slotOf[k] = s
        BY CacheAssumption DEF Without, CacheAssumption
      <4>2. Injective(slotOf) /\ Injective(slotOf')
        BY DEF IInv, Owned, NoSharedSlot, Injective
      <4>3. QED
        BY <4>1, <4>2, HolderSame
    <3>3. \A s \in Slots :
            HolderOf(slotOf')[s] = IF s \in V THEN None ELSE HolderOf(slotOf)[s]
      BY <3>1, <3>2
    <3>4. HolderOf(slotOf') = [s \in Slots |-> HolderOf(slotOf')[s]]
      BY DEF HolderOf
    <3> HIDE DEF V
    <3>5. QED
      BY <3>3, <3>4, HolderIsHolderOf
  <2>3. Store!Vacate(V)
    BY <1>2, <2>1, <2>2 DEF Store!Vacate
  <2>4. QED
    BY <2>3 DEF Step, Store!Next
<1>3. QED
  BY <1>1, <1>2

\* A read of k into a free slot starts.
LEMMA Claims ==
  ASSUME IInv, IInv', NEW k \in Experts, NEW s \in Slots,
         st[k] # "reading", TakeSlot(k, s), StartRead(k, s)
  PROVE  Step
<1>1. /\ slotOf' = [slotOf EXCEPT ![k] = s] /\ free[s] > 0
      /\ dest' = [dest EXCEPT ![k] = s] /\ st' = [st EXCEPT ![k] = "reading"]
      /\ bytes' = [t \in Slots |-> IF t = s THEN Junk ELSE bytes[t]]
  BY DEF TakeSlot, StartRead
<1>2. Injective(slotOf) /\ Injective(slotOf')
  BY DEF IInv, Owned, NoSharedSlot, Injective
<1>3. slotOf \in [Experts -> Slots \cup {None}] /\ bytes \in [Slots -> Experts \cup {Junk}]
      /\ st \in [Experts -> {"none", "reading", "ok", "failed"}] /\ dest \in [Experts -> Entry]
  BY DEF IInv, Owned, TypeOK
<1>4. \A j \in Experts : slotOf[j] # s
  BY <1>1, CacheAssumption DEF IInv, Owned, NoSharedSlot, CacheAssumption
<1>5. Holder[s] = None /\ s \notin Writing
  BY <1>4, HolderNowhere, HolderIsHolderOf, WritingOwned
<1>6. \A t \in Writing : Holder[t] # k
  <2> SUFFICES ASSUME NEW t \in Writing PROVE Holder[t] # k
    OBVIOUS
  <2>1. PICK j \in Experts : st[j] = "reading" /\ slotOf[j] = t /\ t \in Slots
    BY WritingOwned
  <2>2. Holder[t] = j
    BY <2>1, <1>2, HolderAt, HolderIsHolderOf
  <2>3. QED
    BY <2>1, <2>2
<1>7. Holder' = [t \in Slots |-> IF t = s THEN k
                                 ELSE IF Holder[t] = k THEN None ELSE Holder[t]]
  <2>1. HolderOf(slotOf')[s] = k
    <3>1. slotOf'[k] = s
      BY <1>1, <1>3
    <3>2. HolderOf(slotOf')[slotOf'[k]] = k
      BY <1>2, <3>1, HolderAt
    <3>3. QED
      BY <3>1, <3>2
  <2>2. ASSUME NEW t \in Slots, t # s
        PROVE  HolderOf(slotOf')[t] =
                 IF HolderOf(slotOf)[t] = k THEN None ELSE HolderOf(slotOf)[t]
    <3>1. CASE slotOf[k] = t
      <4>1. HolderOf(slotOf)[t] = k
        BY <3>1, <1>2, HolderAt
      <4>2. \A j \in Experts : slotOf'[j] # t
        BY <3>1, <2>2, <1>1, <1>2, <1>3, CacheAssumption DEF Injective, CacheAssumption
      <4>3. QED
        BY <4>1, <4>2, HolderNowhere
    <3>2. CASE slotOf[k] # t
      <4>1. \A j \in Experts : slotOf'[j] = t <=> slotOf[j] = t
        BY <3>2, <2>2, <1>1, <1>3
      <4>2. HolderOf(slotOf')[t] = HolderOf(slotOf)[t]
        BY <4>1, <1>2, HolderSame
      <4>3. HolderOf(slotOf)[t] = k => HolderOf(slotOf)[t] = None
        <5>1. CASE \E j \in Experts : slotOf[j] = t
          <6>1. PICK j \in Experts : slotOf[j] = t
            BY <5>1
          <6>2. HolderOf(slotOf)[t] = j /\ j # k
            BY <6>1, <3>2, <1>2, HolderAt
          <6>3. QED
            BY <6>2
        <5>2. CASE ~ \E j \in Experts : slotOf[j] = t
          BY <5>2, HolderNowhere
        <5>3. QED
          BY <5>1, <5>2
      <4>4. QED
        BY <4>2, <4>3
    <3>3. QED
      BY <3>1, <3>2
  <2>3. HolderOf(slotOf') = [t \in Slots |-> HolderOf(slotOf')[t]]
    BY DEF HolderOf
  <2>4. QED
    BY <2>1, <2>2, <2>3, HolderIsHolderOf
<1>8. Writing' = Writing \cup {s}
  BY <1>1, <1>3, CacheAssumption DEF Writing, CacheAssumption
<1>9. bytes' = [bytes EXCEPT ![s] = Junk]
  BY <1>1, <1>3
<1>10. Store!Claim(k, s)
  BY <1>5, <1>6, <1>7, <1>8, <1>9 DEF Store!Claim
<1>11. QED
  BY <1>10 DEF Step, Store!Next

\* A read ends: what it was writing is its own slot, or no slot.
LEMMA Ends ==
  ASSUME IInv, NEW k \in Experts, Read(k)
  PROVE  Step
<1>1. st[k] = "reading" /\ slotOf' = slotOf /\ dest' = dest
  BY DEF Read, ReadDone, ReadFail, table
<1>2. st' = [st EXCEPT ![k] = "ok"] \/ st' = [st EXCEPT ![k] = "failed"]
  BY DEF Read, ReadDone, ReadFail
<1>3. st \in [Experts -> {"none", "reading", "ok", "failed"}]
      /\ bytes \in [Slots -> Experts \cup {Junk}]
  BY DEF IInv, Owned, TypeOK
<1>4. k \in inflight /\ dest[k] \in Slots \cup {Loose} /\ Owns(k)
  BY <1>1 DEF IInv, Owned, Futures, ReadsOwn, TypeOK, Entry
<1>5. CASE dest[k] = Loose
  <2>1. Writing' = Writing
    BY <1>1, <1>2, <1>3, <1>5 DEF Writing
  <2>2. bytes' = bytes
    BY <1>3, <1>5, CacheAssumption DEF Read, ReadDone, ReadFail, CacheAssumption
  <2>3. QED
    BY <1>1, <2>1, <2>2, Stutters
<1>6. CASE dest[k] \in Slots
  <2> DEFINE s == dest[k]
  <2>1. slotOf[k] = s /\ s \in Slots /\ s # Loose /\ s # None
    BY <1>4, <1>6, CacheAssumption DEF Owns, CacheAssumption
  <2>2. \A j \in Experts : st[j] = "reading" /\ dest[j] = s => j = k
    <3> SUFFICES ASSUME NEW j \in Experts, st[j] = "reading", dest[j] = s PROVE j = k
      OBVIOUS
    <3>1. Owns(j)
      BY DEF IInv, Owned, Futures, ReadsOwn
    <3>2. QED
      BY <2>1, <3>1, Unshared DEF Owns, Injective
  <2>3. s \in Writing /\ Writing' = Writing \ {s}
    BY <1>1, <1>2, <1>3, <2>1, <2>2 DEF Writing
  <2>4. Holder[s] = k /\ Holder' = Holder
    BY <1>1, <2>1, Unshared, HolderAt, HolderIsHolderOf
  <2>5. CASE ReadDone(k)
    <3>1. bytes' = [bytes EXCEPT ![s] = Holder[s]]
      BY <1>3, <2>1, <2>4, <2>5 DEF ReadDone
    <3>2. Store!Land(s)
      BY <2>3, <2>4, <3>1 DEF Store!Land
    <3>3. QED
      BY <2>1, <3>2 DEF Step, Store!Next
  <2>6. CASE ReadFail(k)
    <3>1. Store!Fail(s)
      BY <2>3, <2>4, <2>6 DEF Store!Fail, ReadFail
    <3>2. QED
      BY <2>1, <3>1 DEF Step, Store!Next
  <2>7. QED
    BY <2>5, <2>6 DEF Read
<1>7. QED
  BY <1>4, <1>5, <1>6

\* The memory is handed back when every read of the drain is over.
LEMMA HandsBack ==
  ASSUME IInv, ReleaseEnd
  PROVE  Step
<1>1. \A k \in Experts : st[k] # "reading"
  BY DEF ReleaseEnd, IInv, Owned, Stages, Futures
<1>2. Writing = {}
  BY <1>1 DEF Writing
<1>3. Writing' = {}
  BY <1>1, CacheAssumption DEF Writing, ReleaseEnd, Forget, IInv, Owned, TypeOK
<1>4. Holder' = [s \in Slots |-> None]
  <2>1. \A s \in Slots : HolderOf(slotOf')[s] = None
    BY HolderNowhere, CacheAssumption DEF ReleaseEnd, Empty, CacheAssumption
  <2>2. HolderOf(slotOf') = [s \in Slots |-> HolderOf(slotOf')[s]]
    BY DEF HolderOf
  <2>3. QED
    BY <2>1, <2>2, HolderIsHolderOf
<1>5. Store!HandBack
  BY <1>2, <1>3, <1>4 DEF Store!HandBack, ReleaseEnd
<1>6. QED
  BY <1>5 DEF Step, Store!Next

-----------------------------------------------------------------------------
\* An entry that is installed, with the evictions this causes, or is not.
LEMMA InstallVacates ==
  ASSUME IInv, IInv', NEW k \in Experts, NEW e \in Slots \cup {Loose}, NEW m,
         Install(k, e, m), e \in Slots => slotOf[k] = e /\ slab = "on", st[k] # "reading",
         bytes' = bytes, Writing' = Writing
  PROVE  Step
<1>1. TypeOK
  BY DEF IInv, Owned
<1>2. CASE Stays(k, e)
  BY <1>2, Stutters DEF Stays
<1>3. CASE Settles(k, e, m)
  <2>1. PICK E \in SUBSET Unpinned(In(lru) \cup {k}) : slotOf' = Without(slotOf, E)
    BY <1>3 DEF Settles, EvictKeys
  <2>2. \A j \in In(lru) : st[j] # "reading"
    BY DEF IInv, Owned, Futures, In
  <2>3. E \in SUBSET Experts /\ \A j \in E : st[j] # "reading"
    BY <2>1, <2>2 DEF Unpinned, In
  <2>4. QED
    BY <2>1, <2>3, Vacates
<1>4. CASE GivesBack(k, e, m)
  BY <1>4, Vacates DEF GivesBack
<1>5. QED
  BY <1>1, <1>2, <1>3, <1>4, InstallEffect

\* Guesses that are dropped are not being read.
LEMMA DropVacates ==
  ASSUME IInv, IInv', NEW D \in SUBSET Experts, NEW staged, DropGuesses(D, staged),
         \A k \in D : st[k] # "reading", bytes' = bytes, Writing' = Writing
  PROVE  Step
<1>1. PICK E \in SUBSET D : slotOf' = Without(slotOf, E)
  BY DEF DropGuesses, Unpinned
<1>2. QED
  BY <1>1, Vacates

LEMMA StagedNotReading ==
  ASSUME IInv
  PROVE  \A k \in In(lru) \cup In(raw) \cup In(got) : st[k] # "reading"
BY DEF IInv, Owned, Futures, In

LEMMA WorkRefines ==
  ASSUME IInv, IInv', Work
  PROVE  Step
<1>0. st \in [Experts -> {"none", "reading", "ok", "failed"}] /\ dest \in [Experts -> Entry]
      /\ bytes \in [Slots -> Experts \cup {Junk}]
  BY DEF IInv, Owned, TypeOK
<1>1. ASSUME NEW k \in Experts, NEW s \in Slots, SubmitToSlot(k, s) \/ SpecToSlot(k, s)
      PROVE  Step
  <2>1. TakeSlot(k, s) /\ StartRead(k, s)
    BY <1>1 DEF SubmitToSlot, SpecToSlot
  <2>2. st[k] # "reading"
    BY <1>1 DEF SubmitToSlot, SpecToSlot, IInv, Owned, Stages, Futures
  <2>3. QED
    BY <2>1, <2>2, Claims
<1>2. ASSUME NEW k \in Experts, SubmitLoose(k) \/ SpecLoose(k)
      PROVE  Step
  <2>1. StartRead(k, Loose) /\ slotOf' = slotOf
    BY <1>2 DEF SubmitLoose, SpecLoose, StartLoose, table
  <2>2. st[k] # "reading"
    BY <1>2 DEF SubmitLoose, SpecLoose, StartLoose, IInv, Owned, Stages, Futures
  <2>3. bytes' = bytes
    BY <2>1, <1>0, CacheAssumption DEF StartRead, CacheAssumption
  <2>4. Writing' = Writing
    BY <2>1, <2>2, <1>0 DEF StartRead, Writing
  <2>5. QED
    BY <2>1, <2>3, <2>4, Stutters
<1>3. ASSUME NEW v \in Experts, EvictForSlot(v)
      PROVE  Step
  <2>1. slotOf' = Without(slotOf, {v}) /\ v \in In(lru)
    BY <1>3 DEF EvictForSlot, EvictKeys, Unpinned
  <2>2. bytes' = bytes /\ Writing' = Writing
    BY <1>3 DEF EvictForSlot, Writing, reads
  <2>3. QED
    BY <2>1, <2>2, StagedNotReading, Vacates
<1>4. ASSUME NEW v \in Experts, DropForSlot(v)
      PROVE  Step
  <2>1. DropGuesses({v}, raw) /\ v \in In(raw) /\ bytes' = bytes /\ Writing' = Writing
    BY <1>4 DEF DropForSlot, Writing, reads
  <2>2. QED
    BY <2>1, StagedNotReading, DropVacates
<1>5. ASSUME NEW k \in Experts, Consume(k) \/ Abort(k) \/ Drain(k)
      PROVE  Step
  <2>1. slotOf' = slotOf /\ bytes' = bytes
    BY <1>5 DEF Consume, Abort, Drain, table
  <2>2. PICK S : Forget(S) /\ \A j \in S \cap Experts : st[j] # "reading"
    <3>1. CASE Consume(k)
      BY <3>1 DEF Consume
    <3>2. CASE Abort(k)
      BY <3>2 DEF Abort, IInv, Owned, Futures
    <3>3. CASE Drain(k)
      BY <3>3 DEF Drain
    <3>4. QED
      BY <1>5, <3>1, <3>2, <3>3
  <2>3. Writing' = Writing
    BY <2>2, <1>0, SameReads DEF Forget, Without
  <2>4. QED
    BY <2>1, <2>3, Stutters
<1>6. CASE FinishBegin \/ SpecStop
  BY <1>6, Stutters DEF FinishBegin, SpecStop, table, reads, Writing
<1>7. ASSUME NEW k \in Experts, InstallOne(k)
      PROVE  Step
  <2>1. Install(k, got[k], mode) /\ k \in In(got) /\ bytes' = bytes /\ Writing' = Writing
    BY <1>7 DEF InstallOne, IInv, Owned, Stages, reads, Writing
  <2>2. got[k] \in Slots \cup {Loose}
    BY <2>1 DEF IInv, Owned, TypeOK, Entry, In
  <2>3. got[k] \in Slots => slotOf[k] = got[k] /\ slab = "on"
    BY DEF IInv, Owned, GotOwns, NoSlab
  <2>4. QED
    BY <2>1, <2>2, <2>3, StagedNotReading, InstallVacates
<1>8. QED
  BY <1>1, <1>2, <1>3, <1>4, <1>5, <1>6, <1>7, HandsBack DEF Work

LEMMA CallRefines ==
  ASSUME IInv, IInv', Call
  PROVE  Step
<1>1. ASSUME NEW S, NEW m, FetchBegin(S, m)
      PROVE  Step
  BY <1>1, Stutters DEF FetchBegin, reads, Writing
<1>2. ASSUME NEW S, NEW n, Prefetch(S, n)
      PROVE  Step
  BY <1>2, Stutters DEF Prefetch, table, reads, Writing
<1>3. CASE RelievePressure
  <2>1. DropGuesses(In(raw), raw) /\ bytes' = bytes /\ Writing' = Writing
    BY <1>3 DEF RelievePressure, reads, Writing
  <2>2. In(raw) \in SUBSET Experts
    BY DEF In
  <2>3. QED
    BY <2>1, <2>2, StagedNotReading, DropVacates
<1>4. CASE ReleaseBegin \/ RestoreBudget
  BY <1>4, Stutters DEF ReleaseBegin, RestoreBudget, table, reads, Writing
<1>5. CASE ShrinkBudget
  <2>1. PICK E \in SUBSET In(lru) : slotOf' = Without(slotOf, E)
    BY <1>5 DEF ShrinkBudget, EvictKeys, Evictions, Unpinned
  <2>2. bytes' = bytes /\ Writing' = Writing
    BY <1>5 DEF ShrinkBudget, reads, Writing
  <2>3. E \in SUBSET Experts
    BY <2>1 DEF In
  <2>4. QED
    BY <2>1, <2>2, <2>3, StagedNotReading, Vacates
<1>6. CASE RebuildFails \/ \E N \in SUBSET Slots : RebuildSlab(N)
  <2>1. slotOf' = slotOf
    BY <1>6 DEF RebuildFails, RebuildSlab, IInv, Owned, NoSlab
  <2>2. bytes' = bytes /\ Writing' = Writing
    BY <1>6 DEF RebuildFails, RebuildSlab, reads, Writing
  <2>3. QED
    BY <2>1, <2>2, Stutters
<1>7. QED
  BY <1>1, <1>2, <1>3, <1>4, <1>5, <1>6 DEF Call

LEMMA CallbackRefines ==
  ASSUME IInv, IInv', NEW k \in Experts, Callback(k)
  PROVE  Step
<1>1. CallbackRuns(k) /\ st[k] \in {"ok", "failed"} /\ bytes' = bytes
  BY DEF Callback, CallbackIdle, CallbackInstall, CallbackStage
<1>2. Writing' = Writing
  BY <1>1, SameReads DEF CallbackRuns, Forget, Without, IInv, Owned, TypeOK
<1>3. CASE CallbackIdle(k)
  BY <1>1, <1>2, <1>3, Stutters DEF CallbackIdle, table
<1>4. CASE CallbackInstall(k)
  <2>1. Install(k, dest[k], "lru") /\ dest[k] \in Slots
    BY <1>4 DEF CallbackInstall
  <2>2. slotOf[k] = dest[k] /\ slab = "on"
    BY <1>1, <2>1 DEF CallbackRuns, IInv, Owned, Futures, ReadsOwn, Owns, NoSlab
  <2>3. QED
    BY <1>1, <1>2, <2>1, <2>2, InstallVacates
<1>5. CASE CallbackStage(k)
  <2>1. PICK D \in SUBSET (In([raw EXCEPT ![k] = dest[k]]) \ {k}) :
          DropGuesses(D, [raw EXCEPT ![k] = dest[k]])
    BY <1>5 DEF CallbackStage
  <2>2. D \in SUBSET In(raw)
    BY <2>1 DEF In, IInv, Owned, TypeOK
  <2>3. D \in SUBSET Experts /\ \A j \in D : st[j] # "reading"
    BY <2>2, StagedNotReading DEF In
  <2>4. QED
    BY <1>1, <1>2, <2>1, <2>3, DropVacates
<1>6. QED
  BY <1>3, <1>4, <1>5 DEF Callback

LEMMA InitRefines ==
  ASSUME Init
  PROVE  Store!Init
<1>1. \A s \in Slots : HolderOf(slotOf)[s] = None
  BY HolderNowhere, CacheAssumption DEF Init, SlabsEnabled, Empty, CacheAssumption
<1>2. HolderOf(slotOf) = [s \in Slots |-> HolderOf(slotOf)[s]]
  BY DEF HolderOf
<1>3. Writing = {}
  BY DEF Init, Writing
<1>4. QED
  BY <1>1, <1>2, <1>3, HolderIsHolderOf DEF Init, SlabsEnabled, Store!Init

\* Whatever fetches, guesses, callbacks, evictions and releases do, slots change
\* hands only as SlotStore allows, unless a race is lost.
THEOREM CacheImplementsSlotStore == Spec => ImplementsSlotStore \/ <><<Race>>_vars
<1>1. Init => Store!Init
  BY InitRefines
<1>2. IInv /\ IInv' /\ [Next]_vars => [Store!Next]_(Store!store)
  <2> SUFFICES ASSUME IInv, IInv', [Next]_vars PROVE Step
    BY DEF Step, Store!store
  <2>1. CASE UNCHANGED vars
    BY <2>1, Stutters DEF vars, table, reads, Writing
  <2>2. CASE Next
    BY <2>2, CallRefines, WorkRefines, Ends, CallbackRefines DEF Next
  <2>3. QED
    BY <2>1, <2>2
<1>3. QED
  BY <1>1, <1>2, OwnershipInvariant, PTL DEF ImplementsSlotStore, Store!Spec, Spec

(***************************************************************************)
(* Flow decode: the tables.  TablesAgree holds because every step that      *)
(* changes the LRU marks what it changes, and every other step leaves the   *)
(* tables alone or uploads a row as it is.                                  *)
(***************************************************************************)
\* _flow_mark keeps the tables true whatever the step does to the LRU.
LEMMA MarkAgrees ==
  ASSUME TablesAgree, Mark
  PROVE  TablesAgree'
BY DEF TablesAgree, Mark

\* A step that touches neither the LRU nor the tables keeps them true.
LEMMA QuietAgrees ==
  ASSUME TablesAgree, UNCHANGED lru, UNCHANGED tables
  PROVE  TablesAgree'
BY DEF TablesAgree, tables

\* So does an upload.
LEMMA UploadAgrees ==
  ASSUME TablesAgree, UNCHANGED lru, NEW l \in 1..Last, Upload(l)
  PROVE  TablesAgree'
BY DEF TablesAgree, Upload, Of

\* When the slab goes nothing is resident in it and every row is cleared.
LEMMA ResetAgrees ==
  ASSUME TablesAgree, ReleaseEnd, Reset
  PROVE  TablesAgree'
BY CacheAssumption, FlowAssumption
   DEF TablesAgree, ReleaseEnd, Reset, Empty, CacheAssumption, FlowAssumption

\* The steps of a token that leave the LRU alone.
LEMMA ForwardAgrees ==
  ASSUME TablesAgree, Forward \/ TokenStart
  PROVE  TablesAgree'
<1>1. CASE TokenStart BY <1>1, QuietAgrees DEF TokenStart, vars, table
<1>2. ASSUME NEW S \in SUBSET Experts, SyncLayer(S) PROVE TablesAgree'
    BY <1>2, QuietAgrees DEF SyncLayer, FetchBegin, tables
<1>3. CASE FlowFirst
    BY <1>3, UploadAgrees, FlowAssumption DEF FlowFirst, Build, table, FlowAssumption
<1>4. CASE Pump BY <1>4, QuietAgrees DEF Pump, Prefetch, table
<1>5. CASE PumpNothing BY <1>5, QuietAgrees DEF PumpNothing, vars, table
<1>6. ASSUME NEW S \in SUBSET Experts, FlowNoted(S) PROVE TablesAgree'
    BY <1>6, QuietAgrees DEF FlowNoted, vars, table
<1>7. ASSUME NEW S \in SUBSET Experts, FlowLayer(S) PROVE TablesAgree'
    BY <1>7, UploadAgrees, FlowAssumption DEF FlowLayer, Build, table, FlowAssumption
<1>8. CASE Sample BY <1>8, QuietAgrees DEF Sample, table, tables
<1>9. ASSUME NEW N \in SUBSET Slots, Rebuild(N) PROVE TablesAgree'
    BY <1>9, MarkAgrees DEF Rebuild
<1>10. CASE RebuildFailed BY <1>10, MarkAgrees DEF RebuildFailed
<1>11. CASE Restore BY <1>11, QuietAgrees DEF Restore, RestoreBudget, table
<1>12. QED
    BY <1>1, <1>2, <1>3, <1>4, <1>5, <1>6, <1>7, <1>8, <1>9, <1>10, <1>11 DEF Forward

\* The steps of a call in progress.
LEMMA WorkOnAgrees ==
  ASSUME TablesAgree, WorkOn
  PROVE  TablesAgree'
<1>1. ASSUME NEW k \in Experts, NEW s \in Slots, SubmitToSlot(k, s) \/ SpecToSlot(k, s),
             UNCHANGED tables
      PROVE  TablesAgree'
    BY <1>1, QuietAgrees DEF SubmitToSlot, SpecToSlot
<1>2. ASSUME NEW k \in Experts,
             SubmitLoose(k) \/ SpecLoose(k) \/ Consume(k) \/ Drain(k) \/ DropForSlot(k),
             UNCHANGED tables
      PROVE  TablesAgree'
    BY <1>2, QuietAgrees
    DEF SubmitLoose, SpecLoose, StartLoose, Consume, Drain, DropForSlot, table
<1>3. ASSUME FinishBegin \/ SpecStop, UNCHANGED tables PROVE TablesAgree'
    BY <1>3, QuietAgrees DEF FinishBegin, SpecStop, table
<1>4. ASSUME NEW k \in Experts, Abort(k), UNCHANGED tables PROVE TablesAgree'
    BY <1>4, QuietAgrees DEF Abort, table
<1>5. ASSUME Mark PROVE TablesAgree' BY <1>5, MarkAgrees
<1>6. ASSUME ReleaseEnd, Reset PROVE TablesAgree' BY <1>6, ResetAgrees
<1>7. QED BY <1>1, <1>2, <1>3, <1>4, <1>5, <1>6 DEF WorkOn

\* Every step keeps the tables true.
LEMMA NextAgrees ==
  ASSUME TablesAgree, [FlowNext]_all
  PROVE  TablesAgree'
<1>1. CASE TokenStart \/ Forward BY <1>1, ForwardAgrees
<1>2. CASE WorkOn BY <1>2, WorkOnAgrees
<1>3. ASSUME NEW S \in SUBSET Experts, NEW n \in BOOLEAN, SyncGuess(S, n)
      PROVE  TablesAgree'
    BY <1>3, QuietAgrees DEF SyncGuess, Prefetch, table
<1>4. ASSUME NEW S \in SUBSET Experts, PrefillLayer(S) PROVE TablesAgree'
    BY <1>4, QuietAgrees DEF PrefillLayer, FetchBegin
<1>5. CASE PrefillBig BY <1>5, QuietAgrees DEF PrefillBig, ReleaseBegin, table
<1>6. CASE PrefillShrinks BY <1>6, MarkAgrees DEF PrefillShrinks
<1>7. CASE Relieve BY <1>7, QuietAgrees DEF Relieve, RelievePressure
<1>8. ASSUME NEW k \in Experts, ReadEnds(k) PROVE TablesAgree'
    BY <1>8, QuietAgrees DEF ReadEnds, Read, ReadDone, ReadFail, table
<1>9. ASSUME NEW k \in Experts, CallsBack(k) PROVE TablesAgree'
    BY <1>9, MarkAgrees DEF CallsBack
<1>10. CASE UNCHANGED all BY <1>10, QuietAgrees DEF all, vars, table
<1>11. QED
    BY <1>1, <1>2, <1>3, <1>4, <1>5, <1>6, <1>7, <1>8, <1>9, <1>10 DEF FlowNext

\* The rows on the host and on the GPU follow the LRU in every reachable state.
THEOREM TablesFollowCache == FlowSpec => []TablesAgree
<1>1. FlowInit => TablesAgree
    BY CacheAssumption, FlowAssumption
    DEF FlowInit, Init, SlabsEnabled, Empty, TablesAgree, CacheAssumption, FlowAssumption
<1>2. QED BY <1>1, NextAgrees, PTL DEF FlowSpec

\* A flow layer finds exactly the resident experts in its table: never one whose read
\* is in flight, never one that has been evicted (enable_flow).
THEOREM TablesNameResidents == FlowSpec => []TableNamesResidents
<1>1. TablesAgree => TableNamesResidents
    BY DEF TablesAgree, TableNamesResidents, Published
<1>2. QED BY <1>1, TablesFollowCache, PTL

(***************************************************************************)
(* Flow decode: the routing held back for the next token.  Only flow layers *)
(* hold routing back, and only a prefill, which drops it, restarts the      *)
(* warm-up.                                                                 *)
(***************************************************************************)
\* Between tokens, and while a call waits or installs, no pump is under way.
LEMMA StaysOut ==
  ASSUME HeldWhileFlowing, at = "call", UNCHANGED <<at, warm, recs>>
  PROVE  HeldWhileFlowing'
BY DEF HeldWhileFlowing, NothingHeldInWarmup

\* What a prefill does to the walk, whatever it does to the cache.
LEMMA DropHolds ==
  ASSUME HeldWhileFlowing, step = 0, Drop
  PROVE  HeldWhileFlowing'
BY FlowAssumption DEF HeldWhileFlowing, NothingHeldInWarmup, Drop, FlowAssumption

\* A step that leaves the walk and the slab alone, and stays in the pump's reads.
LEMMA QuietHolds ==
  ASSUME HeldWhileFlowing, UNCHANGED <<slab, at, warm, recs>>,
         at = "call" \/ (UNCHANGED step /\ pc' \in {"idle", "spec"})
  PROVE  HeldWhileFlowing'
BY DEF HeldWhileFlowing, NothingHeldInWarmup, Flowing

\* The steps of a token.
LEMMA ForwardHolds ==
  ASSUME HeldWhileFlowing, Forward \/ TokenStart
  PROVE  HeldWhileFlowing'
<1> USE FlowAssumption DEF FlowAssumption
<1>1. CASE TokenStart
    BY <1>1 DEF TokenStart, HeldWhileFlowing, NothingHeldInWarmup, AtMost
<1>2. ASSUME NEW S \in SUBSET Experts, SyncLayer(S) PROVE HeldWhileFlowing'
    BY <1>2, StaysOut DEF SyncLayer, HeldWhileFlowing
<1>3. CASE FlowFirst
    BY <1>3 DEF FlowFirst, Build, size, HeldWhileFlowing, NothingHeldInWarmup, Flowing
<1>4. CASE Pump
    BY <1>4 DEF Pump, Prefetch, size, HeldWhileFlowing, NothingHeldInWarmup, Flowing
<1>5. CASE PumpNothing
    BY <1>5
    DEF PumpNothing, vars, mlx, size, HeldWhileFlowing, NothingHeldInWarmup, Flowing
<1>6. ASSUME NEW S \in SUBSET Experts, FlowNoted(S) PROVE HeldWhileFlowing'
    BY <1>6 DEF FlowNoted, HeldWhileFlowing, NothingHeldInWarmup, Flowing
<1>7. ASSUME NEW S \in SUBSET Experts, FlowLayer(S) PROVE HeldWhileFlowing'
    BY <1>7 DEF FlowLayer, HeldWhileFlowing, NothingHeldInWarmup, Flowing
<1>8. CASE Sample BY <1>8, StaysOut DEF Sample, HeldWhileFlowing
<1>9. ASSUME NEW N \in SUBSET Slots, Rebuild(N) PROVE HeldWhileFlowing'
    BY <1>9, StaysOut DEF Rebuild, RebuildSlab, walk, HeldWhileFlowing, Flowing
<1>10. CASE RebuildFailed
    BY <1>10, StaysOut DEF RebuildFailed, RebuildFails, walk, HeldWhileFlowing, Flowing
<1>11. CASE Restore
    BY <1>11, StaysOut DEF Restore, RestoreBudget, walk, HeldWhileFlowing, Flowing
<1>12. QED
    BY <1>1, <1>2, <1>3, <1>4, <1>5, <1>6, <1>7, <1>8, <1>9, <1>10, <1>11 DEF Forward

\* The steps of a call in progress.
LEMMA WorkOnHolds ==
  ASSUME HeldWhileFlowing, WorkOn
  PROVE  HeldWhileFlowing'
<1>1. ASSUME NEW k \in Experts, NEW s \in Slots, SubmitToSlot(k, s), UNCHANGED walk
      PROVE  HeldWhileFlowing'
    BY <1>1, StaysOut DEF SubmitToSlot, walk, HeldWhileFlowing
<1>2. ASSUME NEW k \in Experts, NEW s \in Slots, SpecToSlot(k, s), UNCHANGED walk
      PROVE  HeldWhileFlowing'
    BY <1>2, QuietHolds DEF SpecToSlot, Guessed, size, walk
<1>3. ASSUME NEW k \in Experts,
             SubmitLoose(k) \/ Consume(k) \/ Drain(k) \/ DropForSlot(k), UNCHANGED walk
      PROVE  HeldWhileFlowing'
    BY <1>3, StaysOut
    DEF SubmitLoose, StartLoose, Consume, Drain, DropForSlot, walk, HeldWhileFlowing
<1>4. ASSUME NEW k \in Experts, SpecLoose(k), UNCHANGED walk PROVE HeldWhileFlowing'
    BY <1>4, StaysOut DEF SpecLoose, StartLoose, walk, HeldWhileFlowing, Flowing
<1>5. ASSUME FinishBegin, UNCHANGED walk PROVE HeldWhileFlowing'
    BY <1>5, StaysOut DEF FinishBegin, walk, HeldWhileFlowing
<1>6. ASSUME SpecStop, UNCHANGED walk PROVE HeldWhileFlowing'
    BY <1>6, QuietHolds DEF SpecStop, size, walk
<1>7. ASSUME NEW k \in Experts, EvictForSlot(k) \/ InstallOne(k), UNCHANGED walk
      PROVE  HeldWhileFlowing'
    BY <1>7, StaysOut DEF EvictForSlot, InstallOne, walk, HeldWhileFlowing
<1>8. ASSUME ReleaseEnd, UNCHANGED walk PROVE HeldWhileFlowing'
    BY <1>8, StaysOut DEF ReleaseEnd, walk, HeldWhileFlowing
<1>9. ASSUME NEW k \in Experts, Abort(k), UNCHANGED <<at, warm, recs>>
      PROVE  HeldWhileFlowing'
    BY <1>9, StaysOut DEF Abort, HeldWhileFlowing
<1>10. QED
    BY <1>1, <1>2, <1>3, <1>4, <1>5, <1>6, <1>7, <1>8, <1>9 DEF WorkOn

\* Every step keeps it.
LEMMA NextHolds ==
  ASSUME HeldWhileFlowing, [FlowNext]_all
  PROVE  HeldWhileFlowing'
<1>1. CASE TokenStart \/ Forward BY <1>1, ForwardHolds
<1>2. CASE WorkOn BY <1>2, WorkOnHolds
<1>3. ASSUME NEW S \in SUBSET Experts, NEW n \in BOOLEAN, SyncGuess(S, n)
      PROVE  HeldWhileFlowing'
    BY <1>3, StaysOut DEF SyncGuess, walk, HeldWhileFlowing
<1>4. ASSUME NEW S \in SUBSET Experts, PrefillLayer(S) PROVE HeldWhileFlowing'
    BY <1>4, DropHolds DEF PrefillLayer
<1>5. CASE PrefillBig \/ PrefillShrinks
    BY <1>5, DropHolds DEF PrefillBig, PrefillShrinks
<1>6. CASE Relieve BY <1>6, StaysOut DEF Relieve, walk, HeldWhileFlowing
<1>7. ASSUME NEW k \in Experts, ReadEnds(k) PROVE HeldWhileFlowing'
    BY <1>7, QuietHolds
    DEF ReadEnds, Read, ReadDone, ReadFail, mlx, size, walk, HeldWhileFlowing
<1>8. ASSUME NEW k \in Experts, CallsBack(k) PROVE HeldWhileFlowing'
    BY <1>8, QuietHolds
    DEF CallsBack, CallbackInstall, CallbackIdle, CallbackStage, mlx, size, walk,
        HeldWhileFlowing
<1>9. CASE UNCHANGED all
    BY <1>9, QuietHolds DEF all, vars, mlx, size, walk, HeldWhileFlowing
<1>10. QED
    BY <1>1, <1>2, <1>3, <1>4, <1>5, <1>6, <1>7, <1>8, <1>9 DEF FlowNext

\* While the ordinary path is decoding after a prompt, no routing from before that
\* prompt is waiting to be prefetched (flow_drop).
THEOREM WarmupHoldsNothing == FlowSpec => []NothingHeldInWarmup
<1>1. FlowInit => HeldWhileFlowing
    BY DEF FlowInit, HeldWhileFlowing, NothingHeldInWarmup
<1>2. HeldWhileFlowing => NothingHeldInWarmup BY DEF HeldWhileFlowing
<1>3. QED BY <1>1, <1>2, NextHolds, PTL DEF FlowSpec

(***************************************************************************)
(* Flow decode: the graph of a token.  A flow layer pins nothing; what it   *)
(* reads stays because nothing is evicted between its first layer and the   *)
(* sampler: no fetch is under way, unless a guess installs itself.          *)
(***************************************************************************)
OnItsWay == Flowing /\ step # 0

\* Where the MLX thread can be.  No token flows unless the slab is up, and none is on
\* its way while the slab is being handed back.
Walks ==
  /\ warm \in Nat /\ recs \subseteq Experts
  /\ slab # "on" \/ pc = "drain" => warm = 0
  /\ pc = "drain" => step = 0
  /\ OnItsWay => pc \in {"idle", "spec"}

GraphSafe ==
  IF OnItsWay THEN \A k \in Experts : used[k] \in Slots => lru[k] = used[k] ELSE UsedPinned

\* A guess installs itself, and evicts, while a token is on its way (PREDICT_INSTALL).
InstallsOnTheWay == OnItsWay /\ \E k \in Experts : CallbackInstall(k)

FlowInv == Owned /\ Walks /\ GraphSafe /\ TablesAgree

\* The steps of flow decode that are not steps of the cache.
Builds == \E l \in 1..Last : Build(l) /\ OnItsWay /\ step' # 0 /\ UNCHANGED <<table, reads, bytes, size, warm>>

LEMMA FlowMoves ==
  ASSUME Walks, [FlowNext]_all
  PROVE  [Next]_vars \/ Builds \/ Sample
<1>1. CASE Forward
  <2>1. CASE \E S \in SUBSET Experts : SyncLayer(S)
    BY <2>1 DEF SyncLayer, Next, Call
  <2>2. CASE FlowFirst
    BY <2>2, FlowAssumption DEF FlowFirst, Builds, OnItsWay, FlowAssumption
  <2>3. CASE Pump
    <3>1. recs \in SUBSET Experts /\ PredictInstall \in BOOLEAN
      BY CacheAssumption DEF Walks, CacheAssumption
    <3>2. QED
      BY <2>3, <3>1 DEF Pump, Next, Call
  <2>4. CASE PumpNothing
    BY <2>4 DEF PumpNothing
  <2>5. CASE \E S \in SUBSET Experts : FlowNoted(S)
    BY <2>5 DEF FlowNoted
  <2>6. CASE \E S \in SUBSET Experts : FlowLayer(S)
    BY <2>6, FlowAssumption DEF FlowLayer, Builds, OnItsWay, FlowAssumption
  <2>7. CASE RebuildFailed \/ Restore \/ \E N \in SUBSET Slots : Rebuild(N)
    BY <2>7 DEF RebuildFailed, Restore, Rebuild, Next, Call
  <2>8. QED
    BY <1>1, <2>1, <2>2, <2>3, <2>4, <2>5, <2>6, <2>7 DEF Forward
<1>2. CASE WorkOn
  BY <1>2 DEF WorkOn, Next, Work
<1>3. CASE \E S \in SUBSET Experts : PrefillLayer(S) \/ \E n \in BOOLEAN : SyncGuess(S, n)
  BY <1>3 DEF PrefillLayer, SyncGuess, Next, Call
<1>4. CASE TokenStart \/ PrefillBig \/ PrefillShrinks \/ Relieve \/ UNCHANGED all
  BY <1>4 DEF TokenStart, PrefillBig, PrefillShrinks, Relieve, Next, Call, all
<1>5. CASE \E k \in Experts : ReadEnds(k) \/ CallsBack(k)
  BY <1>5 DEF ReadEnds, CallsBack, Next, Callback
<1>6. QED
  BY <1>1, <1>2, <1>3, <1>4, <1>5 DEF FlowNext

\* The walk, one step after another.
LEMMA ForwardWalks ==
  ASSUME Walks, Forward
  PROVE  Walks'
<1> USE DEF Walks, OnItsWay, Flowing
<1>1. CASE \E S \in SUBSET Experts : SyncLayer(S)
  BY <1>1 DEF SyncLayer, FetchBegin, reads, size
<1>2. CASE FlowFirst \/ (\E S \in SUBSET Experts : FlowLayer(S)) \/ Sample
  BY <1>2 DEF FlowFirst, FlowLayer, Sample, Build, Of, reads, size
<1>3. CASE Pump
  BY <1>3 DEF Pump, Prefetch, reads, size
<1>4. CASE PumpNothing \/ \E S \in SUBSET Experts : FlowNoted(S)
  BY <1>4 DEF PumpNothing, FlowNoted, Of, vars, mlx, reads, size
<1>5. CASE RebuildFailed \/ Restore \/ \E N \in SUBSET Slots : Rebuild(N)
  BY <1>5, FlowAssumption DEF RebuildFailed, RebuildFails, Restore, RestoreBudget, Rebuild, RebuildSlab, walk,
     mlx, reads, FlowAssumption
<1>6. QED
  BY <1>1, <1>2, <1>3, <1>4, <1>5 DEF Forward

LEMMA WorkOnWalks ==
  ASSUME Walks, WorkOn
  PROVE  Walks'
<1> USE DEF Walks, OnItsWay, Flowing, walk
<1>1. CASE /\ \/ \E k \in Experts, s \in Slots : SubmitToSlot(k, s) \/ SpecToSlot(k, s)
              \/ \E k \in Experts : SubmitLoose(k) \/ SpecLoose(k) \/ Consume(k) \/ Drain(k)
              \/ \E v \in Experts : DropForSlot(v)
              \/ FinishBegin
              \/ SpecStop
           /\ UNCHANGED <<tables, walk>>
  BY <1>1 DEF SubmitToSlot, SpecToSlot, SubmitLoose, SpecLoose, StartLoose, Consume, Drain, DropForSlot,
     FinishBegin, SpecStop, Submitted, Guessed, StartRead, mlx, reads, size
<1>2. CASE ((\E v \in Experts : EvictForSlot(v)) \/ (\E k \in Experts : InstallOne(k))) /\ UNCHANGED walk
  BY <1>2 DEF EvictForSlot, InstallOne, mlx, reads, size
<1>3. CASE ReleaseEnd /\ UNCHANGED walk
  BY <1>3 DEF ReleaseEnd
<1>4. CASE (\E k \in Experts : Abort(k)) /\ step' = 0 /\ UNCHANGED <<tables, at, warm, recs>>
  BY <1>4 DEF Abort, size
<1>5. QED
  BY <1>1, <1>2, <1>3, <1>4 DEF WorkOn

LEMMA FlowWalks ==
  ASSUME Walks, [FlowNext]_all
  PROVE  Walks'
<1> USE DEF Walks, OnItsWay, Flowing
<1>1. CASE TokenStart
  BY <1>1, FlowAssumption DEF TokenStart, AtMost, vars, mlx, reads, size, FlowAssumption
<1>2. CASE Forward \/ WorkOn
  BY <1>2, ForwardWalks, WorkOnWalks
<1>3. CASE \E S \in SUBSET Experts, n \in BOOLEAN : SyncGuess(S, n)
  BY <1>3 DEF SyncGuess, Prefetch, walk, reads, size
<1>4. CASE PrefillBig \/ PrefillShrinks \/ \E S \in SUBSET Experts : PrefillLayer(S)
  <2>1. step' = 0 /\ warm' = 0 /\ recs' = {}
    BY <1>4 DEF PrefillBig, PrefillShrinks, PrefillLayer, Drop
  <2>2. pc' \in {pc, "drain", "wait", "submit"}
    BY <1>4 DEF PrefillBig, PrefillShrinks, PrefillLayer, ReleaseBegin, ShrinkBudget, FetchBegin, mlx, reads
  <2>3. QED
    BY <2>1, <2>2
<1>5. CASE Relieve \/ UNCHANGED all
  BY <1>5 DEF Relieve, RelievePressure, walk, all, vars, mlx, reads, size
<1>6. CASE \E k \in Experts : ReadEnds(k) \/ CallsBack(k)
  BY <1>6 DEF ReadEnds, Read, ReadDone, ReadFail, CallsBack, CallbackInstall, CallbackIdle, CallbackStage,
     CallbackRuns, walk, mlx, size
<1>7. QED
  BY <1>1, <1>2, <1>3, <1>4, <1>5, <1>6 DEF FlowNext

LEMMA LayersBuild ==
  ASSUME FlowFirst \/ \E S \in SUBSET Experts : FlowLayer(S)
  PROVE  Builds
BY FlowAssumption DEF FlowFirst, FlowLayer, Builds, OnItsWay, FlowAssumption

\* Whatever a fetch reads is resident and pinned, and what a flow layer reads is what
\* its table names, and nothing leaves the LRU before the sampler.
LEMMA FlowGraph ==
  ASSUME FlowInv, Owned', Walks', TablesAgree', [FlowNext]_all, ~InstallsOnTheWay
  PROVE  GraphSafe'
<1> USE DEF FlowInv
<1>1. CASE ~OnItsWay /\ [Next]_vars
  <2>1. UsedPinned'
    BY <1>1, UsedStays DEF IInv, GraphSafe
  <2>2. OnItsWay' /\ mode' = "soft" => used' = Empty
    BY <2>1 DEF Walks, Owned, Stages, UsedPinned
  <2>3. QED
    BY <2>1, <2>2, CacheAssumption DEF GraphSafe, UsedPinned, Empty, CacheAssumption
<1>2. CASE Sample
  BY <1>2, CacheAssumption DEF Sample, GraphSafe, UsedPinned, Empty, CacheAssumption
<1>3. CASE Builds
  <2>1. PICK l \in 1..Last : Build(l)
    BY <1>3 DEF Builds
  <2>2. OnItsWay /\ OnItsWay' /\ UNCHANGED lru
    BY <1>3 DEF Builds, OnItsWay, Flowing, table, size
  <2>3. \A k \in Experts : used'[k] = IF LayerOf[k] = l THEN uploaded'[k] ELSE used[k]
    BY <2>1 DEF Build, Of
  <2>4. \A k \in Experts : LayerOf[k] = l => uploaded'[k] = row'[k]
    BY <2>1 DEF Build, Upload, TablesAgree
  <2>5. \A k \in Experts : row'[k] = IF lru'[k] \in Slots THEN lru'[k] ELSE None
    BY DEF TablesAgree
  <2>6. QED
    BY <2>2, <2>3, <2>4, <2>5, CacheAssumption DEF GraphSafe, CacheAssumption
<1>4. CASE OnItsWay /\ ~Sample /\ ~Builds
  <2>1. pc \in {"idle", "spec"} /\ slab = "on" /\ step # 0 /\ Flowing
    BY <1>4 DEF Walks, OnItsWay, Flowing
  <2>2. UNCHANGED <<lru, used, slab, warm>> /\ step' # 0
    <3>1. CASE Forward
      <4>1. ~FlowFirst /\ ~\E S \in SUBSET Experts : FlowLayer(S)
        BY <1>4, LayersBuild
      <4>2. CASE Pump \/ PumpNothing
        BY <2>1, <4>2 DEF Pump, PumpNothing, Prefetch, vars, mlx, table, size
      <4>3. CASE \E S \in SUBSET Experts : FlowNoted(S)
        BY <4>3 DEF FlowNoted, vars, mlx, table, size
      <4>4. CASE RebuildFailed \/ Restore \/ \E N \in SUBSET Slots : Rebuild(N)
        BY <2>1, <4>4 DEF RebuildFailed, RebuildFails, Restore, RestoreBudget, Rebuild, RebuildSlab
      <4>5. CASE \E S \in SUBSET Experts : SyncLayer(S)
        BY <2>1, <4>5 DEF SyncLayer
      <4>6. QED
        BY <1>4, <3>1, <4>1, <4>2, <4>3, <4>4, <4>5 DEF Forward
    <3>2. CASE WorkOn
      BY <2>1, <3>2 DEF WorkOn, SubmitToSlot, SpecToSlot, SubmitLoose, SpecLoose, Consume, Drain,
         DropForSlot, FinishBegin, SpecStop, EvictForSlot, InstallOne, ReleaseEnd, Abort, Guessed,
         TakeSlot, table, size, walk
    <3>3. CASE TokenStart \/ PrefillBig \/ PrefillShrinks \/ Relieve \/ \E S \in SUBSET Experts : PrefillLayer(S)
      BY <2>1, <3>3 DEF TokenStart, PrefillBig, PrefillShrinks, Relieve, PrefillLayer
    <3>4. CASE \E S \in SUBSET Experts, n \in BOOLEAN : SyncGuess(S, n)
      BY <2>1, <3>4 DEF SyncGuess
    <3>5. CASE \E k \in Experts : ReadEnds(k) \/ CallsBack(k)
      BY <1>4, <2>1, <3>5 DEF ReadEnds, Read, ReadDone, ReadFail, CallsBack, InstallsOnTheWay, CallbackIdle,
         CallbackStage, mlx, table, size, walk
    <3>6. CASE UNCHANGED all
      BY <2>1, <3>6 DEF all, vars, mlx, table, size, walk
    <3>7. QED
      BY <3>1, <3>2, <3>3, <3>4, <3>5, <3>6 DEF FlowNext
  <2>3. QED
    BY <1>4, <2>2 DEF GraphSafe, OnItsWay, Flowing
<1>5. QED
  BY <1>1, <1>2, <1>3, <1>4, FlowMoves

LEMMA FlowOwns ==
  ASSUME FlowInv, [FlowNext]_all, ~Race
  PROVE  Owned'
<1>1. CASE [Next]_vars
  BY <1>1, StepOwns DEF FlowInv
<1>2. CASE Builds
  <2>1. PICK l \in 1..Last : Build(l)
    BY <1>2 DEF Builds
  <2>2. \A k \in Experts : used'[k] = IF LayerOf[k] = l THEN uploaded'[k] ELSE used[k]
    BY <2>1 DEF Build, Of
  <2>3. \A k \in Experts : LayerOf[k] = l => uploaded'[k] = row[k]
    BY <2>1 DEF FlowInv, Build, Upload, TablesAgree, Of
  <2>4. \A k \in Experts : row[k] \in Entry
    BY DEF FlowInv, TablesAgree, Owned, TypeOK, Entry
  <2>5. used' \in [Experts -> Entry]
    BY <2>1, <2>2, <2>3, <2>4 DEF Build, FlowInv, Owned, TypeOK
  <2>6. slab = "on"
    BY <1>2 DEF Builds, OnItsWay, Flowing
  <2>7. QED
    BY <1>2, <2>1, <2>5, <2>6, GraphIsApart DEF FlowInv, Builds, Build
<1>3. CASE Sample
  <2>1. used' \in [Experts -> Entry] /\ \A k \in Experts : used'[k] \notin Slots
    BY <1>3, CacheAssumption DEF Sample, Empty, Entry, CacheAssumption
  <2>2. QED
    BY <1>3, <2>1, GraphIsApart DEF FlowInv, Sample
<1>4. QED
  BY <1>1, <1>2, <1>3, FlowMoves DEF FlowInv

\* The slots that the graph of a token reads keep the experts its tables named until the
\* token is sampled (_flow_forward), though nothing pins them, unless a guess installs
\* itself on the way or a race of the cache is lost.
THEOREM FlowGraphIntact == FlowSpec => []ComputeIntact \/ <><<Race \/ InstallsOnTheWay>>_all
<1>1. FlowInit => FlowInv
  <2> SUFFICES ASSUME FlowInit PROVE FlowInv
    OBVIOUS
  <2>1. Owned /\ UsedPinned
    BY InitOwns DEF FlowInit, IInv
  <2>2. Walks /\ ~OnItsWay
    BY DEF FlowInit, Init, SlabsEnabled, Walks, OnItsWay
  <2>3. TablesAgree
    BY CacheAssumption, FlowAssumption DEF FlowInit, Init, TablesAgree, Empty, CacheAssumption, FlowAssumption
  <2>4. QED
    BY <2>1, <2>2, <2>3 DEF FlowInv, GraphSafe
<1>2. FlowInv /\ [FlowNext]_all /\ ~<<Race \/ InstallsOnTheWay>>_all => FlowInv'
  <2> SUFFICES ASSUME FlowInv, [FlowNext]_all, ~<<Race \/ InstallsOnTheWay>>_all PROVE FlowInv'
    OBVIOUS
  <2>1. UNCHANGED all => ~Race /\ ~InstallsOnTheWay
    <3> SUFFICES ASSUME UNCHANGED all PROVE ~Race /\ ~InstallsOnTheWay
      OBVIOUS
    <3>1. ~Race
      BY DEF Race, Overtakes, Snatches, Consume, Drain, all, vars, mlx, table, FlowInv, Owned, Stages
    <3>2. ~InstallsOnTheWay
      BY DEF InstallsOnTheWay, CallbackInstall, CallbackRuns, all, vars, reads
    <3>3. QED
      BY <3>1, <3>2
  <2>2. ~Race /\ ~InstallsOnTheWay
    BY <2>1
  <2>3. TablesAgree'
    BY NextAgrees DEF FlowInv
  <2>4. Walks'
    BY FlowWalks DEF FlowInv
  <2>5. Owned'
    BY <2>2, FlowOwns
  <2>6. QED
    BY <2>2, <2>3, <2>4, <2>5, FlowGraph DEF FlowInv
<1>3. FlowInv => ComputeIntact
  BY DEF FlowInv, Owned, GraphSafe, UsedPinned, ResidentIntact, ComputeIntact
<1>4. QED
  BY <1>1, <1>2, <1>3, PTL DEF FlowSpec
=============================================================================
