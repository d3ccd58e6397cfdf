-------------------------- MODULE MCChainMaintainers --------------------------
EXTENDS ChainMaintainers, TLC

CONSTANTS v1, v2, p1, p2

MCValidators == {v1, v2}
MCProxies == {p1, p2}
MCWeight == [v \in MCValidators |-> IF v = v1 THEN 2 ELSE 0]
Half == [num |-> 1, den |-> 2]
Third == [num |-> 1, den |-> 3]
Symmetry == Permutations(MCProxies)
=============================================================================
