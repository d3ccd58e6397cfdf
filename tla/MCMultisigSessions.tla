------------------------- MODULE MCMultisigSessions -------------------------
(* Instances of MultisigSessions for model checking.                       *)
EXTENDS MultisigSessions, FiniteSetsExt, TLC

CONSTANTS a, b, c, k1

WeightOf(w) == [S \in SUBSET DOMAIN w |-> MapThenSumSet(LAMBDA v : w[v], S)]
SnapshotOf(w, bonded) ==
    [participants |-> {v \in DOMAIN w : w[v] > 0}, weight |-> WeightOf(w), bonded |-> bonded]

Param(keygen, signing, timeout, grace) ==
    [keygenThreshold |-> keygen, signingThreshold |-> signing,
     keygenTimeout |-> timeout, signingTimeout |-> timeout,
     keygenGrace |-> grace, signingGrace |-> grace]

Half == [num |-> 1, den |-> 2]
TwoThirds == [num |-> 2, den |-> 3]

Three == {a, b, c}
Heavy == SnapshotOf([v \in Three |-> IF v = a THEN 2 ELSE 1], 4)
WithoutC == SnapshotOf([v \in Three |-> IF v = c THEN 0 ELSE 2], 5)

-----------------------------------------------------------------------------
(* One key ID, for which keygens are started until one succeeds, a         *)
(* validator that opts out, thresholds in either order, and two signing    *)
(* sessions with the key.                                                  *)

MCKeyIDs == {k1}
MCSnapshots == {Heavy, WithoutC}
MCParams == {Param(TwoThirds, Half, 2, 0), Param(Half, TwoThirds, 2, 1)}
NoKeys == <<>>
MCOptOuts == {c}

-----------------------------------------------------------------------------
(* Signing alone: one key from genesis, held by all three validators.      *)

GenesisSnapshots == {Heavy}
GenesisParams == {Param(TwoThirds, Half, 3, 1), Param(TwoThirds, Half, 2, 2)}
OneKey == (k1 :> [snap |-> Heavy, threshold |-> Half, pubKeys |-> Three])
NoOptOuts == {}
=============================================================================
