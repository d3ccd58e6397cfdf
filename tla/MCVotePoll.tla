----------------------------- MODULE MCVotePoll -----------------------------
(* Instances of VotePoll for model checking.                               *)
EXTENDS VotePoll, FiniteSetsExt

CONSTANTS a, b, c, e1, e2

WeightOf(w) == [S \in SUBSET DOMAIN w |-> MapThenSumSet(LAMBDA v : w[v], S)]
SnapshotOf(w, bonded) ==
    [participants |-> {v \in DOMAIN w : w[v] > 0}, weight |-> WeightOf(w), bonded |-> bonded]

MCThresholds == {[num |-> 51, den |-> 100]}

-----------------------------------------------------------------------------
(* Three voters, one of them heavier, or two of them beside a bonded       *)
(* validator that does not maintain the chain, or two equal ones, both     *)
(* needed.  An end blocker handles one poll per block.                     *)

MCVoters == {a, b, c}
MCVotes == {{}, {e1}, {e2}}
MCHashRank == [d \in MCVotes |-> CASE d = {} -> 2 [] d = {e1} -> 1 [] OTHER -> 3]

Full == SnapshotOf([v \in MCVoters |-> IF v = a THEN 2 ELSE 1], 4)
Partial == SnapshotOf([v \in MCVoters |-> IF v = c THEN 0 ELSE 2], 5)
Pair == SnapshotOf([v \in MCVoters |-> IF v = c THEN 0 ELSE 1], 2)

MCSnapshots == {Full, Partial, Pair}
MCMinVoterCounts == {1, 3}
MCLockingPeriods == {2, 3}
MCGracePeriods == {0, 1, 2}
MCEndBlockerLimits == {1}

-----------------------------------------------------------------------------
(* One poll is explored in depth; a second one is opened beside or after a *)
(* poll of the pair that has no grace period, and is such a poll itself.   *)

IsSmall(m) ==
    /\ m.snap \in {Pair, NoVote}
    /\ m.gracePeriod = 0
    /\ \A v \in Voters : m.votes[v] # {e2}

SecondIsSmall ==
    count = 2 => /\ \A p \in PollIDs : IsSmall(polls[p]) /\ IsSmall(closed[p].poll)
                 /\ c \in maintainers

MCSpec == Init /\ [][Next /\ SecondIsSmall']_vars /\ WF_vars(EndBlocker)
=============================================================================
