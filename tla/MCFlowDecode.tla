---------------------------- MODULE MCFlowDecode ----------------------------
(* Model-checking instances of FlowDecode: two layers, of two experts and of *)
(* one.                                                                      *)
EXTENDS FlowDecode, TLC

CONSTANTS k1, k2, k3, s1, s2, s3

ThreeExperts == {k1, k2, k3}
TwoExperts   == {k1, k3}
TwoSlots     == {s1, s2}
ThreeSlots   == {s1, s2, s3}
TwoLayers    == [k \in Experts |-> IF k = k3 THEN 2 ELSE 1]

\* Slots are interchangeable, and so are the experts of the first layer.
Symmetry == Permutations(Slots) \cup Permutations(Experts \ {k3})

=============================================================================
