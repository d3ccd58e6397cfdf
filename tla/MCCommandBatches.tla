-------------------------- MODULE MCCommandBatches --------------------------
(* Instances of CommandBatches for model checking.                         *)
EXTENDS CommandBatches

CONSTANTS v

\* a deployment exceeds the gas limit by itself
Costs == [approve |-> 1, deploy |-> 3, transfer |-> 1]

Three == 1..3
Four == 1..4
\* batch IDs are hashes: nothing depends on which one is taken
FirstID(free) == IF free = {} THEN {} ELSE {Min(free)}

OneSigner == {v}
AnySigner(k, S) == S # {}
=============================================================================
