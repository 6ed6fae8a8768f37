--------------------------- MODULE MCExpertCache ----------------------------
(* Model-checking instances of ExpertCache: small sets and their symmetry.  *)
EXTENDS ExpertCacheInvariant, TLC

CONSTANTS k1, k2, k3, s1, s2, s3

TwoExperts   == {k1, k2}
ThreeExperts == {k1, k2, k3}
TwoSlots     == {s1, s2}
ThreeSlots   == {s1, s2, s3}

\* Experts and slots are interchangeable: no action orders them.
Symmetry == Permutations(Experts) \cup Permutations(Slots)

=============================================================================
