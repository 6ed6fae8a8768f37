------------------------------ MODULE WrapHead ------------------------------
(* The wrap head of the expert sidecar (sidecar/heads/wrap.py) with the slot   *)
(* that holds its weights (sidecar/slot.py), its byte ledger                   *)
(* (sidecar/governor.py) and the cost guard of the service that runs it        *)
(* (sidecar/service.py).                                                       *)
(*                                                                             *)
(* A token scores the reads issued for it, lets the gate promote, lock or      *)
(* demote the head, trains the shadow weights, issues reads for the next       *)
(* token and at last sheds or recovers work.  The weights themselves are       *)
(* numerics: of them the model keeps whether the live copy passed the gate     *)
(* ("earned") and whether the shadow has moved since it was copied ("same").   *)
(* How good a prediction was, and how long the token took, is data.            *)
EXTENDS Naturals

CONSTANTS
    PromoteAfter,   \* scored shadow predictions the gate wants: max(8, window / 2)
    DeficitAfter,   \* issued reads before the ledger may demote: 256
    LockHits,       \* good tokens in a row before a lock; 0 turns locking off
    LockMinTokens,  \* tokens before a lock
    WarmUp,         \* tokens before the cost guard acts: 64
    ShedAfter,      \* expensive tokens in a row before a level is shed: 32
    RecoverAfter,   \* cheap tokens before a level comes back: 256
    MaxBatch,       \* bound: reads issued for one token
    MaxIssued,      \* bound: reads in one window of the ledger
    None            \* no file

ASSUME WrapAssumption ==
    /\ PromoteAfter \in Nat \ {0} /\ DeficitAfter \in Nat \ {0}
    /\ LockHits \in Nat /\ LockMinTokens \in Nat
    /\ WarmUp \in Nat /\ ShedAfter \in Nat \ {0} /\ RecoverAfter \in Nat \ {0}
    /\ MaxBatch \in Nat /\ MaxIssued \in Nat

MaxLevel == 4

VARIABLES
    head,   \* the head and its slot
    cost,   \* the cost guard: level, streaks, tokens measured, and whether the
            \* last token was cheap
    file    \* the slot's .npz file: None or what was saved

vars == <<head, cost, file>>

Modes    == {"fallback", "train", "prefetch", "locked"}
Verdicts == {"over", "fair", "cheap"}

Saved == [locked : BOOLEAN, enabled : BOOLEAN, seen : 0 .. LockMinTokens,
          same : BOOLEAN, earned : BOOLEAN]

Heads == [locked  : BOOLEAN,              \* live and shadow are frozen
          enabled : BOOLEAN,              \* prefetch_enabled: it may issue reads
          streak  : 0 .. LockHits,        \* good tokens in a row
          seen    : 0 .. LockMinTokens,   \* tokens_seen, as far as it matters
          scored  : 0 .. PromoteAfter,    \* len(shadow_recalls), likewise
          same    : BOOLEAN,              \* shadow = live
          earned  : BOOLEAN,              \* live passed the gate
          primed  : BOOLEAN,              \* _prev_predict is not None
          pending : 0 .. MaxBatch,        \* reads of _prev_issued, not scored yet
          issued  : 0 .. MaxIssued,       \* ByteLedger.w_issued
          used    : Nat,                  \* ByteLedger.w_used
          mode    : Modes]

Costs == [level : 0 .. MaxLevel, over : 0 .. ShedAfter, under : 0 .. RecoverAfter,
          samples : 0 .. WarmUp, cheap : BOOLEAN]

\* The head runs fixed weights and shadow weights have no reach of it.
Actuating(h) == h.enabled \/ h.locked

AtMost(n, bound) == IF n < bound THEN n ELSE bound

Fresh == [locked |-> FALSE, enabled |-> FALSE, streak |-> 0, seen |-> 0, scored |-> 0,
          same |-> TRUE, earned |-> FALSE, primed |-> FALSE, pending |-> 0,
          issued |-> 0, used |-> 0, mode |-> "fallback"]

FreshCost == [level |-> 0, over |-> 0, under |-> 0, samples |-> 0, cheap |-> FALSE]

\* Mutant: the head stays on when it is unlocked.
UnlockedStaysOn(h) == [h EXCEPT !.locked = FALSE, !.streak = 0]

Unlocked(h) == [h EXCEPT !.locked = FALSE, !.enabled = FALSE, !.streak = 0]

Demoted(h) == [h EXCEPT !.enabled = FALSE, !.streak = 0]

ResetWindow(h) == [h EXCEPT !.issued = 0, !.used = 0]

-----------------------------------------------------------------------------
(* The steps of a token, each a function of the head.                          *)

\* observe_end_token: one more token.
Seen(h) == [h EXCEPT !.seen = AtMost(@ + 1, LockMinTokens)]

\* _score: the reads issued for this token are settled, u of them were wanted;
\* the shadow is measured too when its stride is due.
Score(h, u, due) ==
    [h EXCEPT !.used = @ + u, !.pending = 0,
              !.scored = IF due /\ ~h.locked THEN AtMost(@ + 1, PromoteAfter) ELSE @]

\* promote_if_better: with a full window and a shadow that passes, a head that
\* is off goes live and one that is on is refreshed when the shadow is better.
MayPromote(h) == ~h.locked /\ h.scored = PromoteAfter

GoLive(h) == [ResetWindow(h) EXCEPT !.same = TRUE, !.earned = TRUE,
                                    !.enabled = TRUE, !.mode = "prefetch"]

Refresh(h) == [h EXCEPT !.same = TRUE, !.earned = TRUE]

\* pass: the shadow clears the gate; better: it is better than live.
Promote(h, pass, better) ==
    CASE MayPromote(h) /\ pass /\ ~h.enabled           -> GoLive(h)
      [] MayPromote(h) /\ pass /\ h.enabled /\ better  -> Refresh(h)
      [] OTHER                                         -> h

\* maybe_lock: enough good tokens in a row freeze the head, with the shadow of
\* this moment as its live weights.  good: live is accurate enough.
Streak(h, good) ==
    IF h.locked \/ LockHits = 0 THEN h
    ELSE [h EXCEPT !.streak = IF h.seen = LockMinTokens /\ h.enabled /\ good
                              THEN AtMost(@ + 1, LockHits) ELSE 0]

Locks(h) == ~h.locked /\ LockHits > 0 /\ h.streak = LockHits

Lock(h) == [h EXCEPT !.locked = TRUE, !.mode = "locked",
                     !.earned = @ /\ h.same, !.same = TRUE]

\* _in_deficit: of a long enough window less than half was wanted.
InDeficit(h) == h.issued >= DeficitAfter /\ 2 * h.used < h.issued

\* The end of _gate: lock, or train while off, or demote on the ledger.
Settle(h) ==
    CASE Locks(h)     -> Lock(h)
      [] ~Locks(h) /\ ~h.enabled -> [h EXCEPT !.mode = "train"]
      [] ~Locks(h) /\ h.enabled /\ ~h.locked /\ InDeficit(h)
                      -> ResetWindow([Demoted(h) EXCEPT !.mode = "train"])
      [] OTHER        -> h

\* _gate.  A head that was just promoted has an empty window of its own: it is
\* not good yet.
Gates(h) ==
    UNION { { Settle(Streak(p, good /\ p.enabled = h.enabled)) : good \in BOOLEAN } :
            p \in { Promote(h, pass, better) : pass, better \in BOOLEAN } }

\* Strides are one until work is shed: scoring at the first level, training at
\* the second.
ScoreDue(level) == IF level = 0 THEN {TRUE} ELSE BOOLEAN
TrainDue(level) == IF level <= 1 THEN {TRUE} ELSE BOOLEAN

\* Mutant: the gate runs before the reads of the last token are settled.
JudgedGateFirst(h, level) ==
    IF h.primed
    THEN UNION { { Score(g, u, TRUE) : u \in 0 .. h.pending } : g \in Gates(h) }
    ELSE {h}

\* What _score and _gate can make of the head; they run once there is a
\* prediction to score.
Judged(h, level) ==
    IF h.primed
    THEN UNION { Gates(s) : s \in { Score(h, u, due) : u \in 0 .. h.pending,
                                                      due \in ScoreDue(level) } }
    ELSE {h}

\* train_shadow, when its stride is due.
Train(h, due) ==
    IF h.primed /\ ~h.locked /\ due
    THEN [h EXCEPT !.same = FALSE, !.mode = IF @ = "fallback" THEN "train" ELSE @]
    ELSE h

\* The end of observe_end_token: predict, and when actuating issue n reads, as
\* many as slack, bytes and probabilities allow.
Issue(h, n) == [h EXCEPT !.primed = TRUE, !.pending = n, !.issued = @ + n,
                         !.mode = IF @ = "locked" THEN @ ELSE "prefetch"]

Idle(h) == [h EXCEPT !.primed = TRUE, !.mode = IF @ = "train" THEN @ ELSE "fallback"]

Issued(h) ==
    IF Actuating(h)
    THEN { Issue(h, n) : n \in { m \in 0 .. MaxBatch : h.issued + m <= MaxIssued } }
    ELSE { Idle(h) }

\* observe_end_token.
Observed(h, level) ==
    UNION { UNION { Issued(Train(j, due)) : due \in TrainDue(level) } : j \in Judged(h, level) }

\* _apply_shed: the strides follow the level, the smaller top-k of level three is
\* data, and at the last level the head is demoted.
ApplyShed(h, level) ==
    IF level >= MaxLevel /\ h.enabled THEN [Demoted(h) EXCEPT !.mode = "train"] ELSE h

\* Mutant: nothing is counted any more once the last level is shed.
MeasuredUpToTheLast(c, verdict) ==
    IF c.level = MaxLevel THEN [c EXCEPT !.cheap = verdict = "cheap"]
    ELSE [c EXCEPT !.samples = AtMost(@ + 1, WarmUp), !.cheap = verdict = "cheap",
                   !.over  = IF verdict = "over" THEN AtMost(@ + 1, ShedAfter) ELSE 0,
                   !.under = IF verdict = "cheap" /\ c.level > 0
                             THEN AtMost(@ + 1, RecoverAfter) ELSE @]

\* _budget_check: the counters after a token with this verdict.
Measured(c, verdict) ==
    LET m == [c EXCEPT !.samples = AtMost(@ + 1, WarmUp), !.cheap = verdict = "cheap"]
    IN  CASE m.samples < WarmUp -> m
          [] m.samples >= WarmUp /\ verdict = "over" ->
               [m EXCEPT !.under = 0, !.over = AtMost(@ + 1, ShedAfter)]
          [] m.samples >= WarmUp /\ verdict # "over" ->
               [m EXCEPT !.over = 0,
                         !.under = IF c.level > 0 /\ verdict = "cheap"
                                   THEN AtMost(@ + 1, RecoverAfter) ELSE @]

\* _budget_check: a level is shed or comes back.
Budget(c, verdict) ==
    CASE verdict = "over" /\ c.over = ShedAfter /\ c.level < MaxLevel ->
            [c EXCEPT !.over = 0, !.level = @ + 1]
      [] verdict # "over" /\ c.under = RecoverAfter ->
            [c EXCEPT !.under = 0, !.level = @ - 1]
      [] OTHER -> c

-----------------------------------------------------------------------------
Init ==
    /\ head = Fresh
    /\ cost = FreshCost
    /\ file = None

Save(h) == [locked |-> h.locked, enabled |-> h.enabled, seen |-> h.seen,
            same |-> h.same, earned |-> h.earned]

\* end_token: one decode token, whose verdict says how much of it the sidecar
\* took; save is the periodic _persist.
Token(verdict, save) ==
    /\ cost' = Budget(Measured(cost, verdict), verdict)
    /\ \E next \in Observed(Seen(head), cost.level) :
            head' = IF cost'.level # cost.level THEN ApplyShed(next, cost'.level) ELSE next
    /\ file' = IF save THEN Save(head') ELSE file

\* _persist between turns.
Persist ==
    /\ file' = Save(head)
    /\ UNCHANGED <<head, cost>>

\* ExpertSidecar.unlock: by hand.
Unlock ==
    /\ head' = Unlocked(head)
    /\ file' = Save(head')
    /\ UNCHANGED cost

\* unlock_slots: the files of every locked head, with no process involved.
UnlockFile ==
    /\ file # None /\ file.locked
    /\ file' = [file EXCEPT !.locked = FALSE, !.enabled = FALSE]
    /\ UNCHANGED <<head, cost>>

\* ExpertHeadSlot.load: a head that had earned actuation keeps it.
Loaded(s) ==
    [Fresh EXCEPT !.locked = s.locked, !.enabled = s.locked \/ s.enabled, !.seen = s.seen,
                  !.same = s.same, !.earned = s.earned]

\* The constructor unlocks a locked head when locking is off.
Started(h) == IF h.locked /\ LockHits = 0 THEN Unlocked(h) ELSE h

\* The process is killed or exits, and a new one starts from the file, which it
\* may find unusable: then the flags are those of a fresh head.
Restart ==
    /\ \/ file # None /\ head' = Started(Loaded(file))
       \/ \E same \in BOOLEAN : head' = [Fresh EXCEPT !.same = same]
    /\ cost' = FreshCost
    /\ UNCHANGED file

DecodeToken == \E verdict \in Verdicts, save \in BOOLEAN : Token(verdict, save)

Next == DecodeToken \/ Persist \/ Unlock \/ UnlockFile \/ Restart

Spec == Init /\ [][Next]_vars

\* Tokens keep coming.
FairSpec == Spec /\ WF_vars(DecodeToken)

-----------------------------------------------------------------------------
(* Properties *)

\* Every value is of its type.
TypeOK ==
    /\ head \in Heads
    /\ cost \in Costs
    /\ file \in Saved \cup {None}

\* Weights that issue reads without a lock passed the gate, in this process or
\* in the one that saved them, whatever came between (demotion, lock, unlock by
\* hand or in the file, restart).
EarnedLive == head.enabled /\ ~head.locked => head.earned

\* The ledger compares like with like: what it counts as used was issued in the
\* same window, so a demotion never rests on reads of other weights.
LedgerScored == head.used + head.pending <= head.issued

\* Once every token is cheap the work that was shed comes back.
WorkComesBack == <>[]cost.cheap => <>[](cost.level = 0)

\* "only as a last resort stop actuating" (sidecar/service.py): with all work
\* shed, no read is issued for the next token.
LastResortIsQuiet == [][cost.level = MaxLevel => head'.pending = 0]_vars
=============================================================================
