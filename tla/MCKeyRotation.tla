---------------------------- MODULE MCKeyRotation ----------------------------
(* Instances of KeyRotation for model checking.                            *)
EXTENDS KeyRotation, TLC

CONSTANTS k1, k2, k3, k4, k5, c1, c2

TwoChains == {c1, c2}
FiveKeys == {k1, k2, k3, k4, k5}

OneOrTwo == {1, 2}
Lowered == {<<2, 1>>}
Unchanged == {}

\* key IDs and chains are interchangeable
Symmetry == Permutations(FiveKeys) \cup Permutations(TwoChains)
=============================================================================
