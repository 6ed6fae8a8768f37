--------------------------- MODULE GovernorProofs ---------------------------
(* Proofs about Governor, for every length of windows, probes and holds.       *)
EXTENDS Governor, TLAPS

\* What makes CreditHonest inductive: a window in which a prediction failed is
\* booked on the side without prediction, because nothing but the end of a
\* window turns prediction back on.
Mixing == mixed => ~on

\* The shape of the evidence, as far as the steps need it: the amounts are data.
Shape ==
    /\ DOMAIN acc = BOOLEAN
    /\ \A s \in BOOLEAN : "honest" \in DOMAIN acc[s]

Honesty ==
    /\ on \in BOOLEAN /\ mixed \in BOOLEAN
    /\ Shape
    /\ Mixing
    /\ CreditHonest

LEMMA HonestyInit == Init => Honesty
<1> SUFFICES ASSUME Init PROVE Honesty
  OBVIOUS
<1>1. DOMAIN acc = BOOLEAN
  BY DEF Init
<1>2. \A s \in BOOLEAN : acc[s] = [windows |-> 0, tokens |-> 0, honest |-> TRUE]
  BY DEF Init
<1>3. Shape
  BY <1>1, <1>2 DEF Shape
<1>4. acc[TRUE] = [windows |-> 0, tokens |-> 0, honest |-> TRUE]
  BY <1>2
<1>5. CreditHonest
  <2>1. [windows |-> 0, tokens |-> 0, honest |-> TRUE].honest
    OBVIOUS
  <2> QED
    BY <1>4, <2>1 DEF CreditHonest
<1> QED
  BY <1>3, <1>5 DEF Init, Honesty, Mixing

\* Halving keeps the shape and whether a side is honest.
LEMMA HalvedHonest ==
  ASSUME Honesty, acc' = Halved(acc)
  PROVE  Shape' /\ acc'[TRUE].honest
  BY DEF Honesty, Shape, CreditHonest, Halved

\* A window that is booked was pure, or was booked on the other side.
LEMMA AddedHonest ==
  ASSUME Honesty, NEW tokens, acc' = Added(tokens)
  PROVE  Shape' /\ acc'[TRUE].honest
  BY DEF Honesty, Shape, Mixing, CreditHonest, Added

LEMMA VerdictTyped ==
  ASSUME Honesty, Verdict(acc')
  PROVE  on' \in BOOLEAN
  BY DEF Honesty, Verdict, Settle

LEMMA HonestyStep == Honesty /\ [Next]_vars => Honesty'
<1> SUFFICES ASSUME Honesty, [Next]_vars PROVE Honesty'
  OBVIOUS
<1>1. CASE Token
  <2>1. PICK p \in 1 .. Positions : Counted(p) \/ WindowDone(p)
    BY <1>1 DEF Token
  <2>2. CASE Counted(p)
    BY <2>2 DEF Counted, Honesty, Shape, Mixing, CreditHonest
  <2>3. CASE WindowDone(p) /\ probing
    <3>1. acc' = Added(win + p) /\ Verdict(acc') /\ mixed' = FALSE
      BY <2>3 DEF WindowDone, Probed
    <3>2. Shape' /\ acc'[TRUE].honest
      BY <3>1, AddedHonest
    <3>3. on' \in BOOLEAN
      BY <3>1, VerdictTyped
    <3> QED
      BY <3>1, <3>2, <3>3 DEF Honesty, Mixing, CreditHonest
  <2>4. CASE WindowDone(p) /\ ~probing
    <3>1. Held /\ mixed' = FALSE
      BY <2>4 DEF WindowDone
    <3>2. CASE left' <= 0
      BY <3>1, <3>2, HalvedHonest DEF Held, Honesty, Mixing, CreditHonest
    <3>3. CASE ~(left' <= 0)
      BY <3>1, <3>3 DEF Held, Honesty, Shape, Mixing, CreditHonest
    <3> QED
      BY <3>2, <3>3
  <2> QED
    BY <2>1, <2>2, <2>3, <2>4
<1>2. CASE PredictionFails
  BY <1>2 DEF PredictionFails, Honesty, Shape, Mixing, CreditHonest
<1>3. CASE UNCHANGED vars
  BY <1>3 DEF vars, Honesty, Shape, Mixing, CreditHonest
<1> QED
  BY <1>1, <1>2, <1>3 DEF Next

\* What prediction is credited with was measured with prediction throughout, as
\* _window_done books it, whenever a prediction fails (speculate, flush).
THEOREM PredictionCreditedHonestly == Spec => []CreditHonest
<1>1. Honesty => CreditHonest
  BY DEF Honesty
<1> QED
  BY <1>1, HonestyInit, HonestyStep, PTL DEF Spec

-----------------------------------------------------------------------------
(* The two sides are tried equally often.                                      *)

Switches == on \in BOOLEAN /\ probing \in BOOLEAN /\ mixed \in BOOLEAN
Sides    == acc \in [BOOLEAN -> Evidence]
Counts   == /\ left \in Int /\ win \in Nat /\ failed \in Nat
            /\ grain \in Nat \ {0} /\ Unit \in Nat \ {0}

\* An amount of evidence that can be halved as often as there are probes left.
Whole(n, g) == \E k \in Int : n = k * g

\* By how many windows prediction is ahead: a probe starts with it, the sides
\* take turns, and what a decision leaves is halved with the evidence.  All is
\* counted in multiples of the grain, so that no halving rounds the bound away.
WithOn  == acc[TRUE].windows
WithOff == acc[FALSE].windows
Ahead   == WithOn - WithOff
Bounds ==
    /\ 0 <= Ahead
    /\ probing /\ on => Ahead + grain <= Unit
    /\ probing /\ ~on => Unit <= Ahead
    /\ Ahead + grain <= 2 * Unit

Wholes == Whole(Unit, grain) /\ Whole(WithOn, grain) /\ Whole(WithOff, grain)

Mix == Switches /\ Sides /\ Counts /\ Wholes /\ (failed = 0 => Bounds)

\* Half of an amount, where it can be halved.
LEMMA HalfWhole ==
  ASSUME NEW n \in Nat, NEW g \in Nat \ {0}, g % 2 = 0, Whole(n, g)
  PROVE  /\ n = 2 * (n \div 2) /\ n \div 2 \in Nat
         /\ g = 2 * (g \div 2) /\ g \div 2 \in Nat \ {0}
         /\ Whole(n \div 2, g \div 2)
<1> DEFINE h == g \div 2
<1>1. h \in Nat \ {0} /\ g = 2 * h
  OBVIOUS
<1>2. PICK k \in Int : n = k * g
  BY DEF Whole
<1> DEFINE m == k * h
<1>3. m \in Int /\ n = 2 * m
  <2> HIDE DEF h
  <2>1. k * (2 * h) = 2 * (k * h)
    BY <1>1
  <2> QED
    BY <1>1, <1>2, <2>1
<1> HIDE DEF m
<1>4. n \div 2 = m /\ m \in Nat
  BY <1>3
<1> QED
  BY <1>1, <1>3, <1>4 DEF Whole, m

\* What can be halved once more is also whole in halves.
LEMMA FinerWhole ==
  ASSUME NEW n \in Int, NEW h \in Int, Whole(n, 2 * h)
  PROVE  Whole(n, h)
<1>1. PICK k \in Int : n = k * (2 * h)
  BY DEF Whole
<1>2. n = (2 * k) * h /\ 2 * k \in Int
  BY <1>1
<1> QED
  BY <1>2 DEF Whole

\* A window more, or less, keeps an amount whole.
LEMMA SumWhole ==
  ASSUME NEW n \in Int, NEW u \in Int, NEW g \in Int, Whole(n, g), Whole(u, g)
  PROVE  Whole(n + u, g)
<1>1. PICK k \in Int : n = k * g
  BY DEF Whole
<1>2. PICK j \in Int : u = j * g
  BY DEF Whole
<1>3. n + u = (k + j) * g /\ k + j \in Int
  BY <1>1, <1>2
<1> QED
  BY <1>3 DEF Whole

LEMMA Tried ==
  ASSUME Sides
  PROVE  WithOn \in Nat /\ WithOff \in Nat
<1>1. acc[TRUE] \in Evidence /\ acc[FALSE] \in Evidence
  BY DEF Sides
<1> QED
  BY <1>1 DEF Evidence, WithOn, WithOff

LEMMA MixInit == Init => Mix
<1> SUFFICES ASSUME Init PROVE Mix
  OBVIOUS
<1> DEFINE none == [windows |-> 0, tokens |-> 0, honest |-> TRUE]
<1>1. acc = [s \in BOOLEAN |-> none] /\ on = TRUE /\ probing = TRUE /\ mixed = FALSE
      /\ left = 0 /\ win = 0 /\ failed = 0 /\ grain = Unit
  BY DEF Init
<1>2. none \in Evidence /\ none.windows = 0
  BY DEF Evidence
<1> HIDE DEF none
<1>3. Sides
  BY <1>1, <1>2 DEF Sides
<1>4. WithOn = 0 /\ WithOff = 0
  <2>1. acc[TRUE] = none /\ acc[FALSE] = none
    BY <1>1
  <2> QED
    BY <1>2, <2>1 DEF WithOn, WithOff
<1>5. Switches
  BY <1>1 DEF Switches
<1>6. Counts
  BY <1>1, GovernorAssumption DEF GovernorAssumption, Counts
<1>7. Wholes
  <2>1. Unit = 1 * Unit /\ 0 = 0 * Unit
    BY <1>6 DEF Counts
  <2> QED
    BY <1>1, <1>4, <2>1 DEF Wholes, Whole
<1>8. Bounds
  BY <1>1, <1>4, <1>6 DEF Bounds, Ahead, Counts
<1> QED
  BY <1>3, <1>5, <1>6, <1>7, <1>8 DEF Mix

LEMMA HalvedSides ==
  ASSUME Sides, acc' = Halved(acc)
  PROVE  /\ Sides'
         /\ WithOn' = WithOn \div 2
         /\ WithOff' = WithOff \div 2
<1> DEFINE half(e) == [e EXCEPT !.windows = @ \div 2, !.tokens = @ \div 2]
<1>1. acc' = [s \in BOOLEAN |-> half(acc[s])]
  BY DEF Halved
<1>2. ASSUME NEW e \in Evidence PROVE half(e) \in Evidence /\ half(e).windows = e.windows \div 2
  <2>1. \A n \in Nat : n \div 2 \in Nat
    OBVIOUS
  <2> QED
    BY <2>1 DEF Evidence
<1> HIDE DEF half
<1>3. \A s \in BOOLEAN : acc[s] \in Evidence /\ acc'[s] = half(acc[s])
  BY <1>1 DEF Sides
<1>4. Sides'
  BY <1>1, <1>2, <1>3 DEF Sides
<1>5. acc[TRUE] \in Evidence /\ acc'[TRUE] = half(acc[TRUE])
      /\ acc[FALSE] \in Evidence /\ acc'[FALSE] = half(acc[FALSE])
  BY <1>3
<1> QED
  BY <1>2, <1>4, <1>5 DEF WithOn, WithOff

LEMMA AddedSides ==
  ASSUME Sides, Switches, Counts, NEW tokens \in Nat, acc' = Added(tokens)
  PROVE  /\ Sides'
         /\ on => /\ WithOn' = WithOn + Unit
                  /\ WithOff' = WithOff
         /\ ~on => /\ WithOff' = WithOff + Unit
                   /\ WithOn' = WithOn
<1> DEFINE more(e) == [windows |-> e.windows + Unit, tokens |-> e.tokens + tokens * Unit,
                       honest |-> e.honest /\ ~mixed]
<1>1. acc' = [acc EXCEPT ![on] = more(acc[on])]
  BY DEF Added
<1>2. ASSUME NEW e \in Evidence PROVE more(e) \in Evidence /\ more(e).windows = e.windows + Unit
  <2>1. /\ e.windows \in Nat /\ e.tokens \in Nat /\ Unit \in Nat
    BY DEF Evidence, Counts
  <2>2. e.windows + Unit \in Nat /\ e.tokens + tokens * Unit \in Nat
    BY <2>1
  <2>3. (e.honest /\ ~mixed) \in BOOLEAN
    OBVIOUS
  <2> QED
    BY <2>2, <2>3 DEF Evidence
<1> HIDE DEF more
<1>3. on \in BOOLEAN /\ acc[on] \in Evidence
  BY DEF Sides, Switches
<1>4. Sides'
  BY <1>1, <1>2, <1>3 DEF Sides
<1>5. CASE on
  <2>1. on = TRUE
    BY <1>3, <1>5
  <2>2. acc'[TRUE] = more(acc[TRUE]) /\ acc'[FALSE] = acc[FALSE] /\ acc[TRUE] \in Evidence
    BY <1>1, <1>3, <2>1 DEF Sides
  <2> QED
    BY <1>2, <1>4, <1>5, <2>2 DEF WithOn, WithOff
<1>6. CASE ~on
  <2>1. on = FALSE
    BY <1>3, <1>6
  <2>2. acc'[FALSE] = more(acc[FALSE]) /\ acc'[TRUE] = acc[TRUE] /\ acc[FALSE] \in Evidence
    BY <1>1, <1>3, <2>1 DEF Sides
  <2> QED
    BY <1>2, <1>4, <1>6, <2>2 DEF WithOn, WithOff
<1> QED
  BY <1>5, <1>6

\* A window of a held decision; the last one halves the evidence.
LEMMA HeldMix ==
  ASSUME Mix, ~probing, Held, win' = 0, mixed' = FALSE
  PROVE  Mix'
<1>1. left' = left - 1 /\ failed' = failed /\ left' \in Int
  BY DEF Held, Mix, Counts
<1>2. CASE left' <= 0
  <2>1. /\ grain % 2 = 0 /\ grain' = grain \div 2 /\ acc' = Halved(acc)
        /\ probing' = TRUE /\ on' = TRUE
    BY <1>2 DEF Held
  <2>2. /\ WithOn \in Nat /\ WithOff \in Nat
        /\ grain \in Nat \ {0} /\ Unit \in Nat \ {0}
    BY Tried DEF Mix, Counts
  <2>3. /\ Sides'
        /\ WithOn' = WithOn \div 2
        /\ WithOff' = WithOff \div 2
    BY <2>1, HalvedSides DEF Mix
  <2>4. /\ WithOn = 2 * WithOn' /\ WithOn' \in Nat
        /\ Whole(WithOn', grain')
    BY <2>1, <2>2, <2>3, HalfWhole DEF Mix, Wholes
  <2>5. /\ WithOff = 2 * WithOff' /\ WithOff' \in Nat
        /\ Whole(WithOff', grain')
    BY <2>1, <2>2, <2>3, HalfWhole DEF Mix, Wholes
  <2>6. grain = 2 * grain' /\ grain' \in Nat \ {0}
    BY <2>1, <2>2, HalfWhole DEF Mix, Wholes
  <2>7. Whole(Unit, grain')
    BY <2>2, <2>6, FinerWhole DEF Mix, Wholes
  <2>8. Switches'
    BY <2>1 DEF Switches
  <2>9. Counts'
    BY <1>1, <2>6 DEF Mix, Counts
  <2>10. failed = 0 => Bounds'
    <3> SUFFICES ASSUME failed = 0 PROVE Bounds'
      OBVIOUS
    <3>1. 0 <= Ahead /\ Ahead + grain <= 2 * Unit
      BY DEF Mix, Bounds
    <3>2. Ahead = 2 * Ahead' /\ Ahead' \in Int
      BY <2>4, <2>5 DEF Ahead
    <3>3. 0 <= Ahead' /\ Ahead' + grain' <= Unit /\ Ahead' + grain' <= 2 * Unit
      <4>1. \A a \in Int, g, u \in Nat : 0 <= 2 * a /\ 2 * a + 2 * g <= 2 * u =>
                                        0 <= a /\ a + g <= u /\ a + g <= 2 * u
        OBVIOUS
      <4>2. 0 <= 2 * Ahead' /\ 2 * Ahead' + 2 * grain' <= 2 * Unit
        BY <2>6, <3>1, <3>2
      <4> QED
        BY <2>2, <2>6, <3>2, <4>1, <4>2
    <3> QED
      BY <2>1, <3>3 DEF Bounds
  <2> QED
    BY <1>1, <2>3, <2>4, <2>5, <2>7, <2>8, <2>9, <2>10 DEF Mix, Wholes
<1>3. CASE ~(left' <= 0)
  <2>1. UNCHANGED <<grain, acc, probing, on>>
    BY <1>3 DEF Held
  <2>2. Switches'
    BY <2>1 DEF Mix, Switches
  <2>3. Counts'
    BY <1>1, <2>1 DEF Mix, Counts
  <2>4. Bounds => Bounds'
    BY <2>1 DEF Bounds, Ahead, WithOn, WithOff
  <2> QED
    BY <1>1, <2>1, <2>2, <2>3, <2>4 DEF Mix, Sides, Wholes, WithOn, WithOff
<1> QED
  BY <1>2, <1>3

\* A window of a probe is booked on the side in force, and the other is next.
LEMMA ProbedMix ==
  ASSUME Mix, probing, NEW tokens \in Nat, Probed(tokens), win' = 0, mixed' = FALSE
  PROVE  Mix'
<1>1. acc' = Added(tokens) /\ Verdict(acc') /\ UNCHANGED <<grain, failed>>
  BY DEF Probed
<1>2. /\ WithOn \in Nat /\ WithOff \in Nat
      /\ grain \in Nat \ {0} /\ Unit \in Nat \ {0} /\ left \in Int
  BY Tried DEF Mix, Counts
<1>3. Switches'
  BY <1>1 DEF Verdict, Settle, Mix, Switches
<1>4. left' \in Int
  <2>1. Hold \in Int /\ Hold * 4 \in Int
    BY GovernorAssumption DEF GovernorAssumption
  <2>2. left' \in {left, Hold, Hold * 4}
    BY <1>1 DEF Verdict, Settle
  <2> QED
    BY <1>2, <2>1, <2>2
<1>5. /\ Sides'
      /\ on => /\ WithOn' = WithOn + Unit
               /\ WithOff' = WithOff
      /\ ~on => /\ WithOff' = WithOff + Unit
                /\ WithOn' = WithOn
  BY <1>1, AddedSides DEF Mix
<1>6. probing' => (on' <=> ~on)
  BY <1>1 DEF Verdict, Settle
<1>7. Counts'
  BY <1>1, <1>4 DEF Mix, Counts
<1>8. Wholes'
  <2>1. /\ Whole(WithOn + Unit, grain) /\ Whole(WithOff + Unit, grain)
        /\ Whole(WithOn, grain) /\ Whole(WithOff, grain)
        /\ Whole(Unit, grain)
    BY <1>2, SumWhole DEF Mix, Wholes
  <2> QED
    BY <1>1, <1>5, <2>1 DEF Wholes
<1>9. failed = 0 => Bounds'
  <2> SUFFICES ASSUME failed = 0 PROVE Bounds'
    OBVIOUS
  <2>1. /\ 0 <= Ahead /\ (on => Ahead + grain <= Unit)
        /\ (~on => Unit <= Ahead) /\ Ahead + grain <= 2 * Unit
    BY DEF Mix, Bounds
  <2>2. Ahead \in Int
    BY <1>2 DEF Ahead
  <2>3. CASE on
    <3>1. Ahead' = Ahead + Unit
      BY <1>2, <1>5, <2>3 DEF Ahead
    <3>2. 0 <= Ahead' /\ Unit <= Ahead' /\ Ahead' + grain' <= 2 * Unit
      BY <1>1, <1>2, <2>1, <2>2, <2>3, <3>1
    <3> QED
      BY <1>6, <2>3, <3>2 DEF Bounds
  <2>4. CASE ~on
    <3>1. Ahead' = Ahead - Unit
      BY <1>2, <1>5, <2>4 DEF Ahead
    <3>2. 0 <= Ahead' /\ Ahead' + grain' <= Unit /\ Ahead' + grain' <= 2 * Unit
      BY <1>1, <1>2, <2>1, <2>2, <2>4, <3>1
    <3> QED
      BY <1>6, <2>4, <3>2 DEF Bounds
  <2> QED
    BY <2>3, <2>4
<1> QED
  BY <1>1, <1>3, <1>5, <1>7, <1>8, <1>9 DEF Mix

LEMMA MixStep == Mix /\ [Next]_vars => Mix'
<1> SUFFICES ASSUME Mix, [Next]_vars PROVE Mix'
  OBVIOUS
<1>1. CASE Token
  <2>1. PICK p \in 1 .. Positions : Counted(p) \/ WindowDone(p)
    BY <1>1 DEF Token
  <2>2. win + p \in Nat
    BY GovernorAssumption DEF GovernorAssumption, Mix, Counts
  <2>3. CASE Counted(p)
    <3>1. win' = win + p /\ UNCHANGED <<on, probing, left, acc, grain, failed, mixed>>
      BY <2>3 DEF Counted
    <3>2. Counts'
      BY <2>2, <3>1 DEF Mix, Counts
    <3>3. Bounds => Bounds'
      BY <3>1 DEF Bounds, Ahead, WithOn, WithOff
    <3> QED
      BY <3>1, <3>2, <3>3 DEF Mix, Switches, Sides, Wholes, WithOn, WithOff
  <2>4. CASE WindowDone(p) /\ probing
    <3>1. Probed(win + p) /\ win' = 0 /\ mixed' = FALSE
      BY <2>4 DEF WindowDone
    <3> QED
      BY <2>2, <2>4, <3>1, ProbedMix
  <2>5. CASE WindowDone(p) /\ ~probing
    <3>1. Held /\ win' = 0 /\ mixed' = FALSE
      BY <2>5 DEF WindowDone
    <3> QED
      BY <2>5, <3>1, HeldMix
  <2> QED
    BY <2>1, <2>3, <2>4, <2>5
<1>2. CASE PredictionFails
  <2>1. /\ failed' = failed + 1 /\ on' = FALSE /\ mixed' = TRUE
        /\ UNCHANGED <<probing, left, win, acc, grain>>
    BY <1>2 DEF PredictionFails
  <2>2. Counts' /\ failed' # 0
    BY <2>1 DEF Mix, Counts
  <2>3. Switches'
    BY <2>1 DEF Mix, Switches
  <2> QED
    BY <2>1, <2>2, <2>3 DEF Mix, Sides, Wholes, WithOn, WithOff
<1>3. CASE UNCHANGED vars
  <2>1. UNCHANGED <<on, probing, left, win, acc, grain, failed, mixed>>
    BY <1>3 DEF vars
  <2> QED
    BY <2>1 DEF Mix, Switches, Sides, Counts, Wholes, Bounds, Ahead, WithOn, WithOff
<1> QED
  BY <1>1, <1>2, <1>3 DEF Next

\* "so the two states see the same mix of work" (_window_done): as long as no
\* prediction fails, prediction is never behind and never two windows ahead,
\* through any number of probes that each keep half of the evidence.
THEOREM SidesTriedEqually == Spec => []SameMix
<1>1. Mix => SameMix
  <2> SUFFICES ASSUME Mix, failed = 0 PROVE 0 <= Ahead /\ Ahead < 2 * Unit
    BY DEF SameMix, Ahead, WithOn, WithOff
  <2>1. 0 <= Ahead /\ Ahead + grain <= 2 * Unit
    BY DEF Mix, Bounds
  <2>2. grain \in Nat \ {0} /\ Unit \in Nat /\ Ahead \in Int
    BY Tried DEF Mix, Counts, Ahead
  <2> QED
    BY <2>1, <2>2
<1> QED
  BY <1>1, MixInit, MixStep, PTL DEF Spec
=============================================================================
