--------------------------- MODULE WrapHeadProofs ---------------------------
(* Proofs about WrapHead, for every setting of the gate, the ledger, the lock  *)
(* and the cost guard: one lemma per step of a token, then one case per action.*)
EXTENDS WrapHead, TLAPS

USE WrapAssumption

\* A head, in memory or in the file, whose weights may issue reads without a
\* lock has passed the gate.
Vetted(h) == h.enabled /\ ~h.locked => h.earned

\* The fields a step must find; what the others hold does not matter here.
Fields == {"locked", "enabled", "earned", "primed", "pending", "issued", "used"}

Shaped(h) ==
    /\ \A f \in Fields : f \in DOMAIN h
    /\ h.locked \in BOOLEAN /\ h.enabled \in BOOLEAN /\ h.earned \in BOOLEAN
    /\ h.pending \in Nat /\ h.issued \in Nat /\ h.used \in Nat

\* What a file must have for UnlockFile to write it again.
KeptFields == {"locked", "enabled", "earned"}

Kept(s) ==
    /\ \A f \in KeptFields : f \in DOMAIN s
    /\ s.locked \in BOOLEAN /\ s.enabled \in BOOLEAN /\ s.earned \in BOOLEAN

\* What a head is between two steps.  The last conjunct is why reads are only
\* ever issued on a ledger that has no read outstanding: a head that has not
\* predicted yet has issued nothing.
Sound(h) ==
    /\ Shaped(h)
    /\ Vetted(h)
    /\ h.used + h.pending <= h.issued
    /\ ~h.primed => h.pending = 0

\* A head whose reads are all settled.
Settled(h) == Sound(h) /\ h.pending = 0

LEMMA FreshSound == \A same \in BOOLEAN : Sound([Fresh EXCEPT !.same = same])
  BY DEF Fresh, Sound, Vetted, Shaped, Fields

LEMMA SeenSound ==
  ASSUME NEW h, Sound(h)
  PROVE  Sound(Seen(h))
  BY DEF Seen, Sound, Vetted, Shaped, Fields

LEMMA ScoreSettles ==
  ASSUME NEW h, Sound(h), NEW u \in 0 .. h.pending, NEW due \in BOOLEAN
  PROVE  Settled(Score(h, u, due))
<1>1. h.used + u \in Nat /\ h.used + u <= h.issued
  BY DEF Sound, Shaped, Fields
<1> QED
  BY <1>1 DEF Score, Settled, Sound, Vetted, Shaped, Fields

LEMMA PromoteSettled ==
  ASSUME NEW h, Settled(h), NEW pass \in BOOLEAN, NEW better \in BOOLEAN
  PROVE  Settled(Promote(h, pass, better))
<1>1. Settled(GoLive(h))
  BY DEF GoLive, ResetWindow, Settled, Sound, Vetted, Shaped, Fields
<1>2. Settled(Refresh(h))
  BY DEF Refresh, Settled, Sound, Vetted, Shaped, Fields
<1> QED
  BY <1>1, <1>2 DEF Promote

LEMMA StreakSettled ==
  ASSUME NEW h, Settled(h), NEW good \in BOOLEAN
  PROVE  Settled(Streak(h, good))
  BY DEF Streak, Settled, Sound, Vetted, Shaped, Fields

LEMMA SettleSettled ==
  ASSUME NEW h, Settled(h)
  PROVE  Settled(Settle(h))
<1>1. Settled(Lock(h))
  BY DEF Lock, Settled, Sound, Vetted, Shaped, Fields
<1>2. Settled([h EXCEPT !.mode = "train"])
  BY DEF Settled, Sound, Vetted, Shaped, Fields
<1>3. Settled(ResetWindow([Demoted(h) EXCEPT !.mode = "train"]))
  BY DEF ResetWindow, Demoted, Settled, Sound, Vetted, Shaped, Fields
<1> QED
  BY <1>1, <1>2, <1>3 DEF Settle

LEMMA GatesSettled ==
  ASSUME NEW h, Settled(h), NEW g \in Gates(h)
  PROVE  Settled(g)
<1>1. PICK pass \in BOOLEAN, better \in BOOLEAN, good \in BOOLEAN :
        g = Settle(Streak(Promote(h, pass, better),
                          good /\ Promote(h, pass, better).enabled = h.enabled))
  BY DEF Gates
<1>2. Settled(Promote(h, pass, better))
  BY PromoteSettled
<1>3. Settled(Streak(Promote(h, pass, better),
                     good /\ Promote(h, pass, better).enabled = h.enabled))
  BY <1>2, StreakSettled
<1> QED
  BY <1>1, <1>3, SettleSettled

LEMMA JudgedSettled ==
  ASSUME NEW h, Sound(h), NEW level, NEW j \in Judged(h, level)
  PROVE  Settled(j)
<1>1. CASE h.primed
  <2>1. PICK u \in 0 .. h.pending, due \in ScoreDue(level) : j \in Gates(Score(h, u, due))
    BY <1>1 DEF Judged
  <2>2. due \in BOOLEAN
    BY DEF ScoreDue
  <2> QED
    BY <2>1, <2>2, ScoreSettles, GatesSettled
<1>2. CASE ~h.primed
  BY <1>2 DEF Judged, Settled, Sound
<1> QED
  BY <1>1, <1>2

LEMMA TrainSettled ==
  ASSUME NEW h, Settled(h), NEW due \in BOOLEAN
  PROVE  Settled(Train(h, due))
  BY DEF Train, Settled, Sound, Vetted, Shaped, Fields

LEMMA IssuedSound ==
  ASSUME NEW h, Settled(h), NEW i \in Issued(h)
  PROVE  Sound(i)
<1>1. ASSUME NEW n \in 0 .. MaxBatch, h.issued + n <= MaxIssued, i = Issue(h, n)
      PROVE  Sound(i)
  BY <1>1 DEF Issue, Settled, Sound, Vetted, Shaped, Fields
<1>2. ASSUME i = Idle(h)
      PROVE  Sound(i)
  BY <1>2 DEF Idle, Settled, Sound, Vetted, Shaped, Fields
<1> QED
  BY <1>1, <1>2 DEF Issued

LEMMA ObservedSound ==
  ASSUME NEW h, Sound(h), NEW level, NEW o \in Observed(h, level)
  PROVE  Sound(o)
<1>1. PICK j \in Judged(h, level), due \in TrainDue(level) : o \in Issued(Train(j, due))
  BY DEF Observed
<1>2. due \in BOOLEAN
  BY DEF TrainDue
<1> QED
  BY <1>1, <1>2, JudgedSettled, TrainSettled, IssuedSound

LEMMA ShedSound ==
  ASSUME NEW h, Sound(h), NEW level
  PROVE  Sound(ApplyShed(h, level))
  BY DEF ApplyShed, Demoted, Sound, Vetted, Shaped, Fields

LEMMA UnlockedSound ==
  ASSUME NEW h, Sound(h)
  PROVE  Sound(Unlocked(h))
  BY DEF Unlocked, Sound, Vetted, Shaped, Fields

LEMMA SaveVetted ==
  ASSUME NEW h, Sound(h)
  PROVE  Kept(Save(h)) /\ Vetted(Save(h))
  BY DEF Save, Kept, KeptFields, Sound, Shaped, Vetted

LEMMA LoadedSound ==
  ASSUME NEW s, Kept(s), Vetted(s)
  PROVE  Sound(Loaded(s))
<1> DEFINE l == Loaded(s)
<1>1. Fresh.primed = FALSE /\ Fresh.pending = 0 /\ Fresh.issued = 0 /\ Fresh.used = 0
  BY DEF Fresh
<1>2. \A f \in Fields : f \in DOMAIN Fresh
  BY DEF Fresh, Fields
<1>3. /\ l.enabled = (s.locked \/ s.enabled) /\ l.locked = s.locked /\ l.earned = s.earned
      /\ l.primed = Fresh.primed /\ l.pending = Fresh.pending
      /\ l.issued = Fresh.issued /\ l.used = Fresh.used
      /\ \A f \in Fields : f \in DOMAIN l
  BY <1>2 DEF Loaded, Fields
<1>4. Shaped(l) /\ l.pending = 0 /\ l.issued = 0 /\ l.used = 0
  BY <1>1, <1>3 DEF Shaped, Kept
<1>5. Vetted(l)
  BY <1>3 DEF Vetted, Kept
<1> QED
  BY <1>4, <1>5 DEF Sound

-----------------------------------------------------------------------------
\* The inductive invariant: the head is sound, and so is what the file holds,
\* because a restart makes it the head.
WrapInv ==
    /\ Sound(head)
    /\ file # None => Kept(file) /\ Vetted(file)

LEMMA WrapInit == Init => WrapInv
<1>1. Sound(Fresh)
  BY DEF Fresh, Sound, Vetted, Shaped, Fields
<1> QED
  BY <1>1 DEF Init, WrapInv

LEMMA WrapStep == WrapInv /\ [Next]_vars => WrapInv'
<1> SUFFICES ASSUME WrapInv, [Next]_vars PROVE WrapInv'
  OBVIOUS
<1>1. ASSUME NEW verdict \in Verdicts, NEW save \in BOOLEAN, Token(verdict, save)
      PROVE  WrapInv'
  <2>1. PICK next \in Observed(Seen(head), cost.level) :
          head' = IF cost'.level # cost.level THEN ApplyShed(next, cost'.level) ELSE next
    BY <1>1 DEF Token
  <2>2. Sound(next)
    BY SeenSound, ObservedSound DEF WrapInv
  <2>3. Sound(head')
    BY <2>1, <2>2, ShedSound
  <2>4. file' = Save(head') \/ file' = file
    BY <1>1 DEF Token
  <2> QED
    BY <2>3, <2>4, SaveVetted DEF WrapInv
<1>2. CASE Persist
  BY <1>2, SaveVetted DEF Persist, WrapInv
<1>3. CASE Unlock
  BY <1>3, UnlockedSound, SaveVetted DEF Unlock, WrapInv
<1>4. CASE UnlockFile
  BY <1>4 DEF UnlockFile, WrapInv, Kept, KeptFields, Vetted
<1>5. CASE Restart
  <2>1. CASE file # None /\ head' = Started(Loaded(file))
    <3>1. Sound(Loaded(file))
      BY <2>1, LoadedSound DEF WrapInv
    <3> QED
      BY <1>5, <2>1, <3>1, UnlockedSound DEF Restart, Started, WrapInv
  <2>2. CASE \E same \in BOOLEAN : head' = [Fresh EXCEPT !.same = same]
    BY <1>5, <2>2, FreshSound DEF Restart, WrapInv
  <2> QED
    BY <1>5, <2>1, <2>2 DEF Restart
<1>6. CASE UNCHANGED vars
  BY <1>6 DEF vars, WrapInv
<1> QED
  BY <1>1, <1>2, <1>3, <1>4, <1>5, <1>6 DEF Next, DecodeToken

\* Weights that issue reads without a lock passed the gate (promote_if_better),
\* through demotion, lock, unlock by hand or in the file, saves and restarts.
THEOREM LiveWeightsEarned == Spec => []EarnedLive
<1>1. WrapInv => EarnedLive
  BY DEF WrapInv, Sound, Vetted, EarnedLive
<1> QED
  BY <1>1, WrapInit, WrapStep, PTL DEF Spec

\* The byte ledger never counts a read as used in a window it was not issued in:
\* _score settles the reads of the last token before _gate resets the window.
THEOREM LedgerComparesLikeWithLike == Spec => []LedgerScored
<1>1. WrapInv => LedgerScored
  BY DEF WrapInv, Sound, LedgerScored
<1> QED
  BY <1>1, WrapInit, WrapStep, PTL DEF Spec
=============================================================================
