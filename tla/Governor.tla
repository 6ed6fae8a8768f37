------------------------------ MODULE Governor ------------------------------
(* The governor of route prediction (PrefetchRing._token_boundary,             *)
(* _window_done and _settle in streaming.py): it measures tokens per second    *)
(* in short windows, with prediction on and off in turn, until the evidence    *)
(* settles it, holds the winner for a number of windows, and probes again.     *)
(*                                                                             *)
(* Rates are data: which side wins, once the evidence suffices, is a choice.   *)
(* How much evidence there is, is kept exactly, also when it is halved.        *)
EXTENDS Integers

CONSTANTS
    Window,      \* PREDICT_WINDOW, in tokens
    MinTokens,   \* PREDICT_MIN_TOKENS: evidence wanted of each side
    MaxProbe,    \* PREDICT_MAX_PROBE: times that much ends an inconclusive probe
    Hold,        \* PREDICT_HOLD_WINDOWS
    Positions,   \* bound: positions of one pass (lookup decoding has several)
    Unit,        \* bound: what counts as one; the halvings it allows are the
                 \* probes after the first
    Failures     \* bound: predictions that fail

ASSUME GovernorAssumption ==
    /\ Window \in Nat \ {0} /\ MinTokens \in Nat /\ MaxProbe \in Nat \ {0} /\ Hold \in Nat \ {0}
    /\ Positions \in Nat \ {0} /\ Unit \in Nat \ {0} /\ Failures \in Nat

Floor == IF Window > MinTokens THEN Window ELSE MinTokens

VARIABLES
    on,       \* predict_depth > 0
    probing,  \* _probing
    left,     \* _hold_left
    win,      \* _win_tokens
    acc,      \* _acc: on or off -> windows and tokens, in units
    grain,    \* all evidence is a multiple of this: Unit, halved once per probe
    failed,   \* predictions that failed
    mixed     \* the window has tokens of both settings
              \* (history: the code does not know)

vars == <<on, probing, left, win, acc, grain, failed, mixed>>

Evidence == [windows : Nat, tokens : Nat, honest : BOOLEAN]

Init ==
    /\ on = TRUE
    /\ probing = TRUE
    /\ left = 0
    /\ win = 0
    /\ acc = [s \in BOOLEAN |-> [windows |-> 0, tokens |-> 0, honest |-> TRUE]]
    /\ grain = Unit
    /\ failed = 0
    /\ mixed = FALSE

\* Mutant: only the side that was off is halved.
HalvedOff(a) == [a EXCEPT ![FALSE].windows = @ \div 2, ![FALSE].tokens = @ \div 2]

\* Half the evidence is kept.
Halved(a) == [s \in BOOLEAN |-> [a[s] EXCEPT !.windows = @ \div 2, !.tokens = @ \div 2]]

\* A window while the decision is held; the last one starts the next probe.
Held ==
    /\ left' = left - 1
    /\ failed' = failed
    /\ IF left' <= 0
       THEN /\ grain % 2 = 0
            /\ grain' = grain \div 2
            /\ acc' = Halved(acc)
            /\ probing' = TRUE
            /\ on' = TRUE
       ELSE UNCHANGED <<grain, acc, probing, on>>

\* Mutant: the window is booked on the side that is tried next.
AddedNext(tokens) ==
    [acc EXCEPT ![~on] = [windows |-> @.windows + Unit, tokens |-> @.tokens + tokens * Unit,
                          honest  |-> @.honest /\ ~mixed]]

\* Mutant: a side is judged by its latest window.
AddedLatest(tokens) ==
    [acc EXCEPT ![on] = [windows |-> Unit, tokens |-> tokens * Unit, honest |-> ~mixed]]

\* The window is booked on the side that is in force as it ends.
Added(tokens) ==
    [acc EXCEPT ![on] = [windows |-> @.windows + Unit, tokens |-> @.tokens + tokens * Unit,
                         honest  |-> @.honest /\ ~mixed]]

\* Both sides have n tokens.
Pooled(a, n) == a[TRUE].tokens >= n * Unit /\ a[FALSE].tokens >= n * Unit

\* Enough evidence to compare: _mean_and_var needs two windows for a spread.
Comparable(a) ==
    Pooled(a, Floor) /\ a[TRUE].windows >= 2 * Unit /\ a[FALSE].windows >= 2 * Unit

\* _settle.
Settle(keep, hold) == on' = keep /\ probing' = FALSE /\ left' = hold

\* What the pooled evidence says: the other side is tried next, unless one side
\* has won, or the samples have grown large without a winner, which turns
\* prediction off for four holds.
Verdict(a) ==
    \/ ~(Comparable(a) /\ Pooled(a, Floor * MaxProbe)) /\ on' = ~on /\ UNCHANGED <<probing, left>>
    \/ Comparable(a) /\ \E keep \in BOOLEAN : Settle(keep, Hold)
    \/ Comparable(a) /\ Pooled(a, Floor * MaxProbe) /\ Settle(FALSE, Hold * 4)

\* A window of a probe.
Probed(tokens) ==
    /\ acc' = Added(tokens)
    /\ Verdict(acc')
    /\ UNCHANGED <<grain, failed>>

\* _token_boundary with a pass of p positions: the window goes on or is done.
\* Tokens of a pass that follows a long gap are not counted at all.
Counted(p) ==
    /\ win + p < Window
    /\ win' = win + p
    /\ UNCHANGED <<on, probing, left, acc, grain, failed, mixed>>

WindowDone(p) ==
    /\ win + p >= Window
    /\ win' = 0
    /\ mixed' = FALSE
    /\ IF probing THEN Probed(win + p) ELSE Held

Token == \E p \in 1 .. Positions : Counted(p) \/ WindowDone(p)

\* speculate or flush: "route prediction disabled".  The rest of the token, and
\* of the window, runs without.
PredictionFails ==
    /\ on /\ failed < Failures
    /\ failed' = failed + 1
    /\ on' = FALSE
    /\ mixed' = TRUE
    /\ UNCHANGED <<probing, left, win, acc, grain>>

Next == Token \/ PredictionFails

Spec == Init /\ [][Next]_vars

\* Tokens keep coming.
FairSpec == Spec /\ WF_vars(Token)

-----------------------------------------------------------------------------
(* Properties *)

\* Every value is of its type.
TypeOK ==
    /\ on \in BOOLEAN /\ probing \in BOOLEAN /\ mixed \in BOOLEAN
    /\ left \in 0 .. 4 * Hold
    /\ win \in 0 .. Window - 1
    /\ acc \in [BOOLEAN -> Evidence]
    /\ grain \in 1 .. Unit /\ failed \in 0 .. Failures

\* "so the two states see the same mix of work": as long as no prediction fails,
\* the two sides have been tried equally often, up to the window under way and
\* what was left over of earlier probes, however often evidence was halved.
SameMix ==
    failed = 0 =>
        LET ahead == acc[TRUE].windows - acc[FALSE].windows
        IN  0 <= ahead /\ ahead < 2 * Unit

\* What prediction is credited with was measured with prediction, in every token
\* of the window, whatever fails.
CreditHonest == acc[TRUE].honest

\* Every probe ends in a decision, also when neither side wins, once predictions
\* have stopped failing.
ProbeEnds == probing ~> ~probing
=============================================================================
