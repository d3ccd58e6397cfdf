------------------------------ MODULE Snapshot ------------------------------
(***************************************************************************)
(* Snapshots of x/snapshot: the validators that take part in a poll or a   *)
(* key generation, their weights, and the weight a threshold asks for.     *)
(***************************************************************************)
EXTENDS Naturals

(***************************************************************************)
(* What CreateSnapshot validated: the participants are exactly the         *)
(* validators with a weight, the weight of a set of validators is the sum  *)
(* of theirs (an additive measure), and the participants are among the     *)
(* bonded validators.                                                      *)
(***************************************************************************)
IsSnapshot(s, validators) ==
    /\ s.participants \in SUBSET validators
    /\ s.participants # {}
    /\ s.weight \in [SUBSET validators -> Nat]
    /\ \A A, B \in SUBSET validators :
          A \cap B = {} => s.weight[A \cup B] = s.weight[A] + s.weight[B]
    /\ \A v \in validators : v \in s.participants <=> s.weight[{v}] > 0
    /\ s.bonded \in Nat
    /\ s.weight[validators] <= s.bonded

\* utils.Threshold in (0, 1]
IsThreshold(t) ==
    /\ t \in [num : Nat \ {0}, den : Nat \ {0}]
    /\ t.num <= t.den

CalculateMinPassingWeight(bonded, t) ==
    LET quo == (bonded * t.num) \div t.den
    IN  IF quo * t.den >= bonded * t.num THEN quo ELSE quo + 1
=============================================================================
