----------------------------- MODULE MCSlotReads -----------------------------
(* Model-checking instance of SlotReads.                                     *)
EXTENDS SlotReads, TLC

CONSTANTS r1, r2, w1, w2

TwoReads   == {r1, r2}
OneGuess   == {r2}
ThreeParts == 1..3
Second     == {2}
TwoWorkers == {w1, w2}

\* The Python pool with slab verification, and the native pool as shipped.
BothPools ==
  {[native |-> FALSE, verify |-> TRUE], [native |-> TRUE, verify |-> FALSE]}

=============================================================================
