------------------------- MODULE PollsAndKeysProofs --------------------------
(* Proofs of the safety properties of VotePoll and KeyRotation, for every  *)
(* value of their constants: any voters, snapshots and thresholds, and any *)
(* chains, keys, bounds and values of ActiveEpochCount.                    *)
EXTENDS VotePoll, KeyRotation, FiniteSetTheorems, TLAPS

USE SMTT(20), ZenonT(10)

\* every voting threshold is more than one half
MajorityThresholds == \A t \in Thresholds : 2 * t.num > t.den

-----------------------------------------------------------------------------
(* Weights.                                                                *)

(* The weight of disjoint sets of voters adds up.                          *)
LEMMA AdditiveWeight ==
    ASSUME NEW s \in Snapshots,
           NEW A \in SUBSET Voters, NEW B \in SUBSET Voters, A \cap B = {},
           NEW C \in SUBSET Voters, C = A \cup B
    PROVE  /\ s.weight[C] = s.weight[A] + s.weight[B]
           /\ s.weight[A] \in Nat
           /\ s.weight[B] \in Nat
           /\ s.weight[C] \in Nat
<1>1. IsSnapshot(s, Voters)
  BY SnapshotAssumption
<1>2. s.weight[A \cup B] = s.weight[A] + s.weight[B]
  BY <1>1, Zenon DEF IsSnapshot
<1>3. s.weight \in [SUBSET Voters -> Nat]
  BY <1>1 DEF IsSnapshot
<1> QED
  BY <1>2, <1>3

(* The weight of no voter at all is zero: snapshot weights are sums.       *)
LEMMA EmptyWeight ==
    ASSUME NEW s \in Snapshots
    PROVE  s.weight[{}] = 0
<1>1. {} \in SUBSET Voters /\ {} \cap {} = {} /\ {} = {} \cup {}
  OBVIOUS
<1>2. s.weight[{}] = s.weight[{}] + s.weight[{}] /\ s.weight[{}] \in Nat
  BY <1>1, AdditiveWeight
<1>3. ASSUME NEW x \in Nat, x = x + x PROVE x = 0
  BY <1>3
<1> QED
  BY <1>2, <1>3, Zenon

(* Two disjoint sets of voters together weigh at most what all voters do.  *)
LEMMA DisjointWeight ==
    ASSUME NEW s \in Snapshots,
           NEW A \in SUBSET Voters, NEW B \in SUBSET Voters, A \cap B = {}
    PROVE  s.weight[A] + s.weight[B] <= s.weight[Voters]
<1> DEFINE U == A \cup B
           C == Voters \ U
<1>1. /\ U \in SUBSET Voters
      /\ C \in SUBSET Voters
      /\ U \cap C = {}
      /\ Voters = U \cup C
      /\ Voters \in SUBSET Voters
  OBVIOUS
<1>2. s.weight[U] = s.weight[A] + s.weight[B]
  BY <1>1, AdditiveWeight
<1>3. /\ s.weight[Voters] = s.weight[U] + s.weight[C]
      /\ s.weight[U] \in Nat /\ s.weight[C] \in Nat
  <2>1. ASSUME NEW X \in SUBSET Voters, NEW Y \in SUBSET Voters, X \cap Y = {},
               Voters = X \cup Y
        PROVE  /\ s.weight[Voters] = s.weight[X] + s.weight[Y]
               /\ s.weight[X] \in Nat /\ s.weight[Y] \in Nat
    <3>0. X \cap Y = {}
      BY <2>1
    <3>1. /\ s.weight[X \cup Y] = s.weight[X] + s.weight[Y]
          /\ s.weight[X] \in Nat /\ s.weight[Y] \in Nat
      BY <3>0, SnapshotAssumption, Zenon DEF IsSnapshot
    <3> QED
      BY <2>1, <3>1, Zenon
  <2> HIDE DEF U, C
  <2> QED
    BY <1>1, <2>1, Zenon
<1>4. s.weight[A] \in Nat /\ s.weight[B] \in Nat
  BY SnapshotAssumption DEF IsSnapshot
<1> QED
  <2> HIDE DEF U, C
  <2> QED
    BY <1>2, <1>3, <1>4

(* The minimum passing weight is a natural number.                         *)
LEMMA PassingWeightType ==
    ASSUME NEW bonded \in Nat, NEW t \in Thresholds
    PROVE  CalculateMinPassingWeight(bonded, t) \in Nat
<1>1. t.num \in Nat /\ t.den \in Nat \ {0}
  BY ParamsAssumption DEF IsThreshold
<1>2. ASSUME NEW x \in Nat, NEW y \in Nat \ {0} PROVE x \div y \in Nat
  OBVIOUS
<1>3. bonded * t.num \in Nat
  BY <1>1
<1>4. (bonded * t.num) \div t.den \in Nat
  BY <1>1, <1>2, <1>3
<1> QED
  BY <1>4 DEF CalculateMinPassingWeight

(* A threshold above one half asks for more than half of the weight.       *)
LEMMA MajorityThreshold ==
    ASSUME NEW bonded \in Nat \ {0}, NEW t \in Thresholds, 2 * t.num > t.den
    PROVE  2 * CalculateMinPassingWeight(bonded, t) > bonded
<1> DEFINE n == t.num
           d == t.den
           w == CalculateMinPassingWeight(bonded, t)
<1>1. n \in Nat /\ d \in Nat \ {0}
  BY ParamsAssumption DEF IsThreshold
<1>2. w \in Nat
  BY PassingWeightType
<1>3. w * d >= bonded * n
  <2> DEFINE x == bonded * n
             q == x \div d
  <2>1. x \in Nat
    BY <1>1
  <2>2. ASSUME NEW u \in Nat, NEW y \in Nat \ {0} PROVE (u \div y) \in Nat /\ u < ((u \div y) + 1) * y
    OBVIOUS
  <2>3. q \in Nat /\ x < (q + 1) * d
    BY <1>1, <2>1, <2>2
  <2>4. w = IF q * d >= x THEN q ELSE q + 1
    BY DEF CalculateMinPassingWeight
  <2> QED
    BY <2>1, <2>3, <2>4, <1>1
<1> QED
  BY <1>1, <1>2, <1>3

-----------------------------------------------------------------------------
(* One poll.                                                               *)

WellFormed(m) ==
    /\ m.snap \in Snapshots
    /\ Voted(m) \subseteq m.snap.participants
    /\ m.late \subseteq Voted(m)
    /\ m.state = "Pending" => m.late = {}
    /\ m.minVoterCount <= Cardinality(m.snap.participants)
    /\ \E t \in Thresholds : m.passing = CalculateMinPassingWeight(m.snap.bonded, t)
    /\ m.snap.weight[m.snap.participants] >= m.passing

PollInv(m) ==
    m.state # "NonExistent" =>
        /\ WellFormed(m)
        /\ m.state = "Completed" => HasQuorum(m)
        /\ m.state = "Pending" => CanStillPass(m)
        /\ m.state = "Failed" => CouldNotPass(m)

(* Weights and counts of a stored poll are natural numbers.                *)
LEMMA PollNumbers ==
    ASSUME NEW m \in PollType, m.snap \in Snapshots
    PROVE  /\ m.passing \in Nat /\ m.minVoterCount \in Nat
           /\ m.snap.participants \in SUBSET Voters
           /\ m.snap.weight \in [SUBSET Voters -> Nat]
           /\ \A d : VotersFor(m, d) \in SUBSET Voters /\ Tally(m, d) \in Nat
           /\ Voted(m) \in SUBSET Voters
           /\ \A S \in SUBSET Voters : Cardinality(S) \in Nat
<1>1. /\ m.snap.participants \in SUBSET Voters
      /\ m.snap.weight \in [SUBSET Voters -> Nat]
  BY SnapshotAssumption, Zenon DEF IsSnapshot
<1>2. m.passing \in Nat /\ m.minVoterCount \in Nat
  BY DEF PollType
<1>3. \A d : VotersFor(m, d) \in SUBSET Voters
  BY DEF VotersFor
<1>4. \A d : Tally(m, d) \in Nat
  BY <1>1, <1>3 DEF Tally
<1>5. Voted(m) \in SUBSET Voters
  BY DEF Voted
<1>6. \A S \in SUBSET Voters : Cardinality(S) \in Nat
  BY VotersAssumption, FS_Subset, FS_CardinalityType
<1> QED
  BY <1>1, <1>2, <1>3, <1>4, <1>5, <1>6

(* A value nobody voted for has no weight, so no value outweighs the       *)
(* majority vote.                                                          *)
LEMMA MajorityIsHeaviest ==
    ASSUME NEW m \in PollType, m.snap \in Snapshots,
           NEW top \in Votes, IsMajorityVote(m, top),
           NEW d \in Votes
    PROVE  Tally(m, d) <= Tally(m, top)
<1>1. Tally(m, d) \in Nat /\ Tally(m, top) \in Nat
  BY PollNumbers
<1>2. CASE d \in TalliedVotes(m)
  BY <1>1, <1>2 DEF IsMajorityVote
<1>3. CASE d \notin TalliedVotes(m)
  <2>1. VotersFor(m, d) = {}
    BY <1>3 DEF TalliedVotes
  <2>2. Tally(m, d) = 0
    BY <2>1, EmptyWeight DEF Tally
  <2> QED
    BY <1>1, <2>2
<1> QED
  BY <1>2, <1>3

(* cannotWin computes with differences of weights what CouldReach says of  *)
(* sets of voters.                                                         *)
LEMMA CannotWinMeans ==
    ASSUME NEW m \in PollType, WellFormed(m), NEW d \in Votes
    PROVE  cannotWin(m, d) <=> ~ CouldReach(m, d)
<1> DEFINE w == m.snap.weight
           all == m.snap.participants
           missing == all \ Voted(m)
           for == VotersFor(m, d)
<1>1. /\ IsSnapshot(m.snap, Voters) /\ m.passing \in Nat
      /\ all \in SUBSET Voters /\ missing \in SUBSET Voters /\ for \in SUBSET Voters
      /\ Voted(m) \in SUBSET Voters /\ Voted(m) \subseteq all
  BY PollNumbers, SnapshotAssumption DEF WellFormed
<1>2. /\ w \in [SUBSET Voters -> Nat]
      /\ \A A, B \in SUBSET Voters : A \cap B = {} => w[A \cup B] = w[A] + w[B]
  BY <1>1, Zenon DEF IsSnapshot
<1>3. for \subseteq Voted(m)
  BY VotesAssumption DEF VotersFor, Voted, HasVoted
<1>4. /\ for \cap missing = {} /\ Voted(m) \cap missing = {}
      /\ Voted(m) \cup missing = all
  BY <1>1, <1>3
<1> HIDE DEF w, all, missing, for
<1>5. w[for \cup missing] = w[for] + w[missing]
  BY <1>1, <1>2, <1>4
<1>6. w[Voted(m) \cup missing] = w[Voted(m)] + w[missing]
  BY <1>1, <1>2, <1>4, Zenon
<1>7. w[all] = w[Voted(m)] + w[missing]
  BY <1>4, <1>6, Zenon
<1>8. /\ w[for] \in Nat /\ w[missing] \in Nat /\ w[all] \in Nat /\ w[Voted(m)] \in Nat
  BY <1>1, <1>2
<1>9. ASSUME NEW f \in Nat, NEW g \in Nat, NEW a \in Nat, NEW u \in Nat, NEW p \in Nat, a = u + g
      PROVE  f + (a - u) < p <=> ~ (f + g >= p)
  BY <1>9
<1>10. cannotWin(m, d) <=> w[for] + (w[all] - w[Voted(m)]) < m.passing
  BY DEF cannotWin, Tally, w, all, for
<1>11. CouldReach(m, d) <=> w[for \cup missing] >= m.passing
  BY DEF CouldReach, w, all, missing, for
<1>12. w[for] + (w[all] - w[Voted(m)]) < m.passing <=> ~ (w[for] + w[missing] >= m.passing)
  BY <1>1, <1>7, <1>8, <1>9
<1> QED
  BY <1>5, <1>10, <1>11, <1>12

(* A new poll is well formed and can still pass.                           *)
LEMMA NewPoll ==
    ASSUME NEW s \in Snapshots, NEW t \in Thresholds, NEW n \in MinVoterCounts,
           NEW g \in GracePeriods, NEW x \in Nat,
           n <= Cardinality(s.participants),
           s.weight[s.participants] >= CalculateMinPassingWeight(s.bonded, t)
    PROVE  LET m == Build(s, CalculateMinPassingWeight(s.bonded, t), n, g, x)
           IN  m \in PollType /\ PollInv(m) /\ m.state = "Pending" /\ m.snap = s
<1> DEFINE passing == CalculateMinPassingWeight(s.bonded, t)
           m == Build(s, passing, n, g, x)
           anyVote == {}
<1>0. anyVote \in Votes
  BY VotesAssumption
<1> HIDE DEF anyVote
<1>1. passing \in Nat
  BY PassingWeightType, SnapshotAssumption DEF IsSnapshot
<1>2. m \in PollType /\ m.state = "Pending"
  <2> HIDE DEF passing
  <2> QED
    BY <1>1, ParamsAssumption, Zenon DEF PollType, NoPoll, States, Build
<1>3. /\ m.snap = s /\ m.passing = passing /\ m.minVoterCount = n /\ m.late = {}
      /\ m.votes = [v \in Voters |-> NoVote]
  BY DEF NoPoll, Build
<1> HIDE DEF m
<1>4. Voted(m) = {}
  BY <1>3 DEF Voted, HasVoted
<1>5. WellFormed(m)
  BY <1>2, <1>3, <1>4 DEF WellFormed
<1>6. CanStillPass(m)
  <2>1. PICK v \in s.participants : v \in Voters
    BY SnapshotAssumption DEF IsSnapshot
  <2>2. ~ HasVoted(m, v)
    BY <1>3, <2>1 DEF HasVoted
  <2>3. VotersFor(m, anyVote) = {}
    BY <1>0, <1>3, VotesAssumption DEF VotersFor
  <2>4. ~ cannotWin(m, anyVote)
    <3>1. Tally(m, anyVote) = 0 /\ s.weight[Voted(m)] = 0
      BY <1>3, <1>4, <2>3, EmptyWeight DEF Tally
    <3>2. s.weight[s.participants] \in Nat
      BY SnapshotAssumption DEF IsSnapshot
    <3> HIDE DEF passing
    <3> QED
      BY <1>1, <1>3, <3>1, <3>2 DEF cannotWin, passing
  <2> QED
    BY <1>0, <1>2, <1>3, <1>5, <2>1, <2>2, <2>4, CannotWinMeans DEF CanStillPass, Voted
<1> QED
  BY <1>2, <1>3, <1>5, <1>6 DEF PollInv, m

\* n is m with the vote d of v recorded, its late voters being late
Tallied(m, n, v, d, late) ==
    /\ n \in PollType
    /\ n.state = m.state /\ n.snap = m.snap /\ n.passing = m.passing
    /\ n.minVoterCount = m.minVoterCount /\ n.result = m.result
    /\ n.late = late
    /\ n.votes = [m.votes EXCEPT ![v] = d]

(* TallyVote records a vote, among the late ones or not.                   *)
LEMMA TallyVoteRecords ==
    ASSUME NEW m \in PollType, NEW v \in Voters, NEW d \in Votes
    PROVE  /\ Tallied(m, TallyVote(m, v, d, FALSE), v, d, m.late)
           /\ Tallied(m, TallyVote(m, v, d, TRUE), v, d, m.late \cup {v})
  BY Zenon DEF TallyVote, PollType, Tallied

(* A vote recorded by TallyVote: its voter joins those who voted.          *)
LEMMA TallyEffect ==
    ASSUME NEW m \in PollType, PollInv(m), m.state # "NonExistent",
           NEW v \in Voters, m.snap.weight[{v}] # 0,
           NEW d \in Votes,
           NEW n \in PollType, n.snap = m.snap, n.votes[v] = d,
           \A w \in Voters : w # v => n.votes[w] = m.votes[w]
    PROVE  /\ Voted(n) = Voted(m) \cup {v}
           /\ Voted(n) \subseteq n.snap.participants
<1>2. m.votes \in [Voters -> Votes \cup {NoVote}]
  BY DEF PollType
<1>3. Voted(n) = Voted(m) \cup {v}
  BY <1>2, VotesAssumption DEF Voted, HasVoted
<1>4. WellFormed(m)
  BY DEF PollInv
<1>5. m.snap \in Snapshots
  BY <1>4 DEF WellFormed
<1>6. v \in m.snap.participants
  <2>1. m.snap.weight[{v}] \in Nat
    BY <1>5, PollNumbers
  <2>2. m.snap.weight[{v}] > 0
    BY <2>1
  <2> QED
    BY <1>5, <2>2, SnapshotAssumption, Zenon DEF IsSnapshot
<1>7. Voted(n) \subseteq n.snap.participants
  BY <1>3, <1>4, <1>6 DEF WellFormed
<1> QED
  BY <1>3, <1>7

(* A vote before completion: whatever the new tallies decide, the poll     *)
(* keeps its invariant.                                                    *)
LEMMA VoteInTime ==
    ASSUME NEW m \in PollType, PollInv(m), m.state = "Pending",
           NEW v \in Voters, ~ HasVoted(m, v), m.snap.weight[{v}] # 0,
           NEW d \in Votes,
           NEW n, Tallied(m, n, v, d, m.late),
           NEW top \in Votes, IsMajorityVote(n, top),
           NEW h \in Nat
    PROVE  /\ n \in PollType
           /\ hasEnoughVotes(n, top) =>
                 LET r == [n EXCEPT !.state = "Completed", !.result = top, !.completedAt = h]
                 IN  r \in PollType /\ r.state = "Completed" /\ r.snap = m.snap /\ PollInv(r)
           /\ cannotWin(n, top) =>
                 LET r == [n EXCEPT !.state = "Failed"]
                 IN  r \in PollType /\ r.state = "Failed" /\ r.snap = m.snap /\ PollInv(r)
           /\ ~ hasEnoughVotes(n, top) /\ ~ cannotWin(n, top) =>
                 n.state = "Pending" /\ n.snap = m.snap /\ PollInv(n)
<1>1. WellFormed(m)
  BY DEF PollInv
<1>0. /\ n \in PollType
      /\ n.state = m.state /\ n.snap = m.snap /\ n.passing = m.passing
      /\ n.minVoterCount = m.minVoterCount /\ n.result = m.result
      /\ n.late = m.late
      /\ n.votes = [m.votes EXCEPT ![v] = d]
  BY DEF Tallied
<1>2. /\ n \in PollType
      /\ n.state = m.state /\ n.snap = m.snap /\ n.passing = m.passing
      /\ n.minVoterCount = m.minVoterCount /\ n.result = m.result
      /\ n.late = m.late
      /\ n.votes = [m.votes EXCEPT ![v] = d]
      /\ Voted(n) = Voted(m) \cup {v}
      /\ Voted(n) \subseteq n.snap.participants
  <2>1. m.state # "NonExistent"
    OBVIOUS
  <2>2. n.votes[v] = d /\ \A w \in Voters : w # v => n.votes[w] = m.votes[w]
    BY <1>0 DEF PollType
  <2>3. Voted(n) = Voted(m) \cup {v} /\ Voted(n) \subseteq n.snap.participants
    BY <1>0, <2>1, <2>2, TallyEffect, Zenon
  <2> QED
    BY <1>0, <2>3
<1>3. n.late = {}
  BY <1>1, <1>2 DEF WellFormed
<1>4. n.snap \in Snapshots
  BY <1>1, <1>2 DEF WellFormed
<1>5. WellFormed(n)
  BY <1>1, <1>2, <1>3 DEF WellFormed
<1>6. ASSUME hasEnoughVotes(n, top)
      PROVE  LET r == [n EXCEPT !.state = "Completed", !.result = top, !.completedAt = h]
             IN  r \in PollType /\ r.state = "Completed" /\ r.snap = m.snap /\ PollInv(r)
  <2> DEFINE r == [n EXCEPT !.state = "Completed", !.result = top, !.completedAt = h]
  <2>1. /\ r \in PollType /\ r.state = "Completed" /\ r.result = top
        /\ r.snap = n.snap /\ r.passing = n.passing /\ r.minVoterCount = n.minVoterCount
        /\ r.late = n.late /\ r.votes = n.votes
    BY <1>2, Zenon DEF PollType, States
  <2> HIDE DEF r
  <2>2. Voted(r) = Voted(n) /\ \A e : VotersFor(r, e) = VotersFor(n, e)
    BY <2>1 DEF Voted, HasVoted, VotersFor
  <2>3. WellFormed(r)
    BY <1>5, <2>1, <2>2 DEF WellFormed
  <2>4. VotersFor(r, top) \ r.late = VotersFor(n, top) /\ Voted(r) \ r.late = Voted(n)
    BY <1>3, <2>1, <2>2
  <2>5. HasQuorum(r)
    BY <1>6, <2>1, <2>4, Zenon DEF HasQuorum, hasEnoughVotes, Tally
  <2>6. PollInv(r)
    BY <2>1, <2>3, <2>5 DEF PollInv
  <2> QED
    BY <1>2, <2>1, <2>6 DEF r
<1>7. ASSUME cannotWin(n, top)
      PROVE  LET r == [n EXCEPT !.state = "Failed"]
             IN  r \in PollType /\ r.state = "Failed" /\ r.snap = m.snap /\ PollInv(r)
  <2> DEFINE r == [n EXCEPT !.state = "Failed"]
  <2>1. /\ r \in PollType /\ r.state = "Failed"
        /\ r.snap = n.snap /\ r.passing = n.passing /\ r.minVoterCount = n.minVoterCount
        /\ r.late = n.late /\ r.votes = n.votes
    BY <1>2 DEF PollType, States
  <2> HIDE DEF r
  <2>2. Voted(r) = Voted(n) /\ \A e : VotersFor(r, e) = VotersFor(n, e)
    BY <2>1 DEF Voted, HasVoted, VotersFor
  <2>3. WellFormed(r)
    BY <1>5, <2>1, <2>2 DEF WellFormed
  <2>4. ASSUME NEW e \in Votes PROVE cannotWin(r, e)
    <3>1. Tally(n, e) <= Tally(n, top)
      BY <1>2, <1>4, MajorityIsHeaviest
    <3>2. /\ Tally(n, e) \in Nat /\ Tally(n, top) \in Nat /\ n.passing \in Nat
          /\ n.snap.weight[n.snap.participants] \in Nat
          /\ n.snap.weight[Voted(n)] \in Nat
      BY <1>2, <1>4, PollNumbers
    <3>3. cannotWin(n, e)
      <4>1. ASSUME NEW x \in Nat, NEW y \in Nat, NEW w \in Nat, NEW u \in Nat, NEW z \in Nat,
                   x <= y, y + (w - u) < z
            PROVE  x + (w - u) < z
        BY <4>1
      <4>2. Tally(n, top) + (n.snap.weight[n.snap.participants] - n.snap.weight[Voted(n)])
               < n.passing
        BY <1>7 DEF cannotWin
      <4>3. Tally(n, e) + (n.snap.weight[n.snap.participants] - n.snap.weight[Voted(n)])
               < n.passing
        BY <3>1, <3>2, <4>1, <4>2
      <4> QED
        BY <4>3 DEF cannotWin
    <3> QED
      BY <2>1, <2>2, <3>3 DEF cannotWin, Tally
  <2>5. PollInv(r)
    BY <2>1, <2>3, <2>4, CannotWinMeans DEF PollInv, CouldNotPass
  <2> QED
    BY <1>2, <2>1, <2>5 DEF r
<1>8. ASSUME ~ hasEnoughVotes(n, top), ~ cannotWin(n, top)
      PROVE  PollInv(n)
  <2>1. \E w \in n.snap.participants : ~ HasVoted(n, w)
    <3>1. SUFFICES ASSUME \A w \in n.snap.participants : HasVoted(n, w) PROVE FALSE
      OBVIOUS
    <3>2. Voted(n) = n.snap.participants
      BY <1>2, <1>4, <3>1, PollNumbers DEF Voted
    <3>3. /\ Tally(n, top) \in Nat /\ n.passing \in Nat /\ n.minVoterCount \in Nat
          /\ n.snap.weight[n.snap.participants] \in Nat
          /\ Cardinality(n.snap.participants) \in Nat
      BY <1>2, <1>4, PollNumbers
    <3>4. Tally(n, top) >= n.passing
      <4>1. ~ (Tally(n, top) + (n.snap.weight[n.snap.participants]
                                  - n.snap.weight[n.snap.participants]) < n.passing)
        BY <1>8, <3>2 DEF cannotWin
      <4>2. ASSUME NEW x \in Nat, NEW w \in Nat, NEW z \in Nat, ~ (x + (w - w) < z)
            PROVE  x >= z
        BY <4>2
      <4> QED
        BY <3>3, <4>1, <4>2
    <3>5. Cardinality(Voted(n)) >= n.minVoterCount
      BY <1>5, <3>2, <3>3 DEF WellFormed
    <3> QED
      BY <1>8, <3>4, <3>5 DEF hasEnoughVotes
  <2>2. CanStillPass(n)
    BY <1>2, <1>5, <1>8, <2>1, CannotWinMeans DEF CanStillPass, Voted
  <2> QED
    BY <1>2, <1>5, <2>2 DEF PollInv
<1> QED
  BY <1>2, <1>6, <1>7, <1>8

(* A late vote leaves the quorum of the result alone.                      *)
LEMMA VoteLateKeepsQuorum ==
    ASSUME NEW m \in PollType, PollInv(m), m.state = "Completed",
           NEW v \in Voters, ~ HasVoted(m, v), m.snap.weight[{v}] # 0,
           NEW d \in Votes,
           NEW n, Tallied(m, n, v, d, m.late \cup {v})
    PROVE  n \in PollType /\ n.state = "Completed" /\ n.snap = m.snap /\ PollInv(n)
<1>1. WellFormed(m) /\ HasQuorum(m)
  BY DEF PollInv
<1>0. /\ n \in PollType
      /\ n.state = m.state /\ n.snap = m.snap /\ n.passing = m.passing
      /\ n.minVoterCount = m.minVoterCount /\ n.result = m.result
      /\ n.late = m.late \cup {v}
      /\ n.votes = [m.votes EXCEPT ![v] = d]
  BY DEF Tallied
<1>2. /\ n \in PollType
      /\ n.state = m.state /\ n.snap = m.snap /\ n.passing = m.passing
      /\ n.minVoterCount = m.minVoterCount /\ n.result = m.result
      /\ n.late = m.late \cup {v}
      /\ n.votes = [m.votes EXCEPT ![v] = d]
      /\ Voted(n) = Voted(m) \cup {v}
      /\ Voted(n) \subseteq n.snap.participants
  <2>1. m.state # "NonExistent"
    OBVIOUS
  <2>2. n.votes[v] = d /\ \A w \in Voters : w # v => n.votes[w] = m.votes[w]
    BY <1>0 DEF PollType
  <2>3. Voted(n) = Voted(m) \cup {v} /\ Voted(n) \subseteq n.snap.participants
    BY <1>0, <2>1, <2>2, TallyEffect, Zenon
  <2> QED
    BY <1>0, <2>3
<1>3. WellFormed(n)
  BY <1>1, <1>2 DEF WellFormed
<1>4. Voted(n) \ n.late = Voted(m) \ m.late
  BY <1>2 DEF Voted
<1>5. VotersFor(n, n.result) \ n.late = VotersFor(m, m.result) \ m.late
  <2>1. m.votes \in [Voters -> Votes \cup {NoVote}] /\ m.result \in Votes
    BY <1>1 DEF PollType, HasQuorum
  <2> QED
    <3>1. ASSUME NEW w \in Voters
          PROVE  (n.votes[w] = m.result /\ w \notin n.late) <=> (m.votes[w] = m.result /\ w \notin m.late)
      <4>1. CASE w = v
        BY <1>2, <2>1, <4>1, VotesAssumption DEF HasVoted
      <4>2. CASE w # v
        BY <1>2, <2>1, <4>2
      <4> QED
        BY <4>1, <4>2
    <3> QED
      BY <1>2, <3>1 DEF VotersFor
<1>6. HasQuorum(n)
  BY <1>1, <1>2, <1>4, <1>5, Zenon DEF HasQuorum
<1> QED
  BY <1>2, <1>3, <1>6 DEF PollInv

(* With thresholds above one half the majority vote of a completed poll is *)
(* its result, however many late votes are counted.                        *)
LEMMA MajorityIsResult ==
    ASSUME MajorityThresholds,
           NEW m \in PollType, PollInv(m), m.state = "Completed",
           NEW d \in Votes
    PROVE  IsMajorityVote(m, d) <=> d = m.result
<1> DEFINE r == m.result
           onTime == VotersFor(m, r) \ m.late
<1>1. WellFormed(m) /\ HasQuorum(m) /\ r \in Votes
  BY DEF PollInv, HasQuorum
<1>2. /\ m.snap \in Snapshots /\ IsSnapshot(m.snap, Voters)
      /\ m.passing \in Nat
      /\ \A e : VotersFor(m, e) \in SUBSET Voters /\ Tally(m, e) \in Nat
  BY <1>1, PollNumbers, SnapshotAssumption DEF WellFormed
<1>3. m.snap.bonded \in Nat \ {0} /\ m.snap.weight[Voters] <= m.snap.bonded
  <2>1. PICK v \in Voters : m.snap.weight[{v}] > 0
    BY <1>2, Zenon DEF IsSnapshot
  <2>2. {v} \in SUBSET Voters /\ {} \in SUBSET Voters /\ {v} \cap {} = {} /\ Voters \in SUBSET Voters
    OBVIOUS
  <2>3. m.snap.weight[{v}] + m.snap.weight[{}] <= m.snap.weight[Voters]
    BY <1>2, <2>2, DisjointWeight
  <2>4. m.snap.weight[{}] = 0 /\ m.snap.weight[{v}] \in Nat /\ m.snap.weight[Voters] \in Nat
    BY <1>2, <2>2, EmptyWeight DEF IsSnapshot
  <2> QED
    BY <1>2, <2>1, <2>3, <2>4 DEF IsSnapshot
<1>4. 2 * m.passing > m.snap.bonded
  BY <1>1, <1>3, MajorityThreshold DEF WellFormed, MajorityThresholds
<1>5. Tally(m, r) >= m.passing
  <2> DEFINE lateForResult == VotersFor(m, r) \cap m.late
  <2>1. /\ onTime \in SUBSET Voters /\ lateForResult \in SUBSET Voters
        /\ onTime \cap lateForResult = {}
        /\ VotersFor(m, r) = onTime \cup lateForResult
    BY <1>2
  <2>2. /\ m.snap.weight[VotersFor(m, r)] = m.snap.weight[onTime] + m.snap.weight[lateForResult]
        /\ m.snap.weight[onTime] \in Nat /\ m.snap.weight[lateForResult] \in Nat
    <3>1. /\ m.snap.weight[onTime \cup lateForResult]
                = m.snap.weight[onTime] + m.snap.weight[lateForResult]
          /\ m.snap.weight[onTime] \in Nat /\ m.snap.weight[lateForResult] \in Nat
      <4>1. /\ onTime \in SUBSET Voters /\ lateForResult \in SUBSET Voters
            /\ onTime \cap lateForResult = {}
        BY <2>1
      <4> HIDE DEF onTime, lateForResult
      <4> QED
        BY <1>2, <4>1, Zenon DEF IsSnapshot
    <3> HIDE DEF onTime, lateForResult
    <3> QED
      BY <2>1, <3>1, Zenon
  <2>3. m.snap.weight[onTime] >= m.passing
    BY <1>1 DEF HasQuorum
  <2> HIDE DEF onTime, lateForResult
  <2> QED
    BY <1>2, <2>2, <2>3 DEF Tally
<1>6. ASSUME NEW e \in Votes, e # r
      PROVE  Tally(m, e) < Tally(m, r)
  <2>1. VotersFor(m, e) \cap VotersFor(m, r) = {}
    BY <1>6 DEF VotersFor
  <2>2. Tally(m, e) + Tally(m, r) <= m.snap.weight[Voters]
    BY <1>2, <2>1, DisjointWeight DEF Tally
  <2>3. m.snap.weight[Voters] \in Nat
    BY <1>2 DEF IsSnapshot
  <2>4. ASSUME NEW x \in Nat, NEW y \in Nat, NEW w \in Nat, NEW b \in Nat, NEW q \in Nat,
               x + y <= w, w <= b, 2 * q > b, y >= q
        PROVE  x < y
    BY <2>4
  <2> QED
    BY <1>2, <1>3, <1>4, <1>5, <2>2, <2>3, <2>4
<1>7. r \in TalliedVotes(m)
  <2>1. Tally(m, r) > 0
    BY <1>2, <1>3, <1>4, <1>5
  <2>2. VotersFor(m, r) # {}
    BY <1>2, <2>1, EmptyWeight DEF Tally
  <2> QED
    BY <1>1, <2>2 DEF TalliedVotes
<1>8. CASE d = r
  <2>1. ASSUME NEW e \in TalliedVotes(m)
        PROVE  \/ Tally(m, e) < Tally(m, d)
               \/ Tally(m, e) = Tally(m, d) /\ HashRank[d] <= HashRank[e]
    <3>1. e \in Votes /\ HashRank[r] \in Nat
      BY <1>1, VotesAssumption DEF TalliedVotes
    <3> QED
      BY <1>6, <1>8, <3>1
  <2> QED
    BY <1>7, <1>8, <2>1 DEF IsMajorityVote
<1>9. CASE d # r
  <2>1. Tally(m, d) < Tally(m, r)
    BY <1>6, <1>9
  <2> QED
    BY <1>2, <1>7, <1>9, <2>1 DEF IsMajorityVote
<1> QED
  BY <1>8, <1>9

(* The end blocker's verdict on a completed poll follows its result.       *)
LEMMA VerdictFollowsResult ==
    ASSUME MajorityThresholds,
           NEW m \in PollType, PollInv(m), m.state = "Completed"
    PROVE  JudgedByResult(m, [v \in Voters |-> Verdict(m, v)])
<1>1. m.result \in Votes
  BY DEF PollInv, HasQuorum
<1>2. \A v \in Voters : HasVotedCorrectly(m, v) <=> m.votes[v] = m.result
  BY <1>1, MajorityIsResult DEF HasVotedCorrectly
<1>3. \A v \in Voters : Verdict(m, v) = HandleCompletedPoll(m, v)
  BY DEF Verdict
<1> QED
  BY <1>2, <1>3 DEF JudgedByResult, HandleCompletedPoll

-----------------------------------------------------------------------------
(* The inductive invariant.                                                *)

IInv ==
    /\ TypeOK
    /\ QueueMatchesPolls
    /\ \A p \in PollIDs : p >= count => closed[p] = NotClosed
    /\ \A p \in PollIDs : PollInv(polls[p])

LEMMA InitInv == Init => IInv
<1> SUFFICES ASSUME Init PROVE IInv
  OBVIOUS
<1> USE DEF Init
<1>1. NoPoll \in PollType /\ NoPoll.state = "NonExistent"
  BY DEF NoPoll, PollType, States
<1>2. TypeOK
  BY <1>1, ParamsAssumption DEF TypeOK, Heights, NotClosed, Verdicts
<1>3. QueueMatchesPolls
  BY <1>1 DEF QueueMatchesPolls
<1>4. \A p \in PollIDs : PollInv(polls[p]) /\ closed[p] = NotClosed
  BY <1>1 DEF PollInv
<1> QED
  BY <1>2, <1>3, <1>4 DEF IInv

(* A poll kept as it is, replaced by one that exists in its place, or      *)
(* opened: what a transaction may do to poll p without disturbing the      *)
(* invariant.                                                              *)
LEMMA PollUpdate ==
    ASSUME IInv, NEW p \in PollIDs, p \in queue, NEW m \in PollType,
           m.state # "NonExistent", m.snap \in Snapshots, PollInv(m),
           polls' = [polls EXCEPT ![p] = m],
           confirmed' \in SUBSET (UNION Votes),
           UNCHANGED <<height, count, queue, maintainers, closed>>
    PROVE  IInv'
<1> USE DEF IInv
<1>1. TypeOK'
  BY DEF TypeOK
<1>2. QueueMatchesPolls'
  BY DEF QueueMatchesPolls, TypeOK
<1>3. (\A q \in PollIDs : q >= count => closed[q] = NotClosed)'
  OBVIOUS
<1>4. (\A q \in PollIDs : PollInv(polls[q]))'
  BY DEF TypeOK
<1> QED
  BY <1>1, <1>2, <1>3, <1>4

LEMMA InitializePollInv == IInv /\ InitializePoll => IInv'
<1> SUFFICES ASSUME IInv, InitializePoll PROVE IInv'
  OBVIOUS
<1> USE DEF IInv
<1>1. PICK s \in Snapshots, t \in Thresholds, n \in MinVoterCounts,
           r \in LockingPeriods, g \in GracePeriods :
        LET passing == CalculateMinPassingWeight(s.bonded, t) IN
        /\ n <= Cardinality(s.participants)
        /\ s.weight[s.participants] >= passing
        /\ polls' = [polls EXCEPT ![count] = Build(s, passing, n, g, height + r)]
        /\ queue' = queue \cup {count}
  BY Zenon DEF InitializePoll
<1> DEFINE new == Build(s, CalculateMinPassingWeight(s.bonded, t), n, g, height + r)
<1>2. new \in PollType /\ new.state = "Pending" /\ new.snap = s /\ PollInv(new)
  <2>1. height + r \in Nat
    BY ParamsAssumption DEF TypeOK, Heights
  <2> QED
    BY <1>1, <2>1, NewPoll
<1> HIDE DEF new
<1>3. /\ count \in PollIDs /\ count' = count + 1 /\ count' \in 0 .. PollBound
      /\ UNCHANGED <<height, maintainers, confirmed, closed>>
  BY ParamsAssumption DEF InitializePoll, TypeOK, PollIDs
<1>4. polls' = [polls EXCEPT ![count] = new] /\ queue' = queue \cup {count}
  BY <1>1 DEF new
<1>5. TypeOK'
  BY <1>2, <1>3, <1>4 DEF TypeOK
<1>6. \A p \in PollIDs : p \in Int /\ count \in Int
  BY <1>3 DEF PollIDs
<1>7. QueueMatchesPolls'
  BY <1>2, <1>3, <1>4, <1>6 DEF QueueMatchesPolls, TypeOK
<1>8. (\A p \in PollIDs : p >= count => closed[p] = NotClosed)'
  BY <1>3, <1>6
<1>9. (\A q \in PollIDs : PollInv(polls[q]))'
  BY <1>2, <1>3, <1>4 DEF TypeOK
<1> QED
  BY <1>5, <1>7, <1>8, <1>9

LEMMA VoteBeforeCompletionInv ==
    ASSUME IInv, NEW p \in PollIDs, NEW v \in Voters, NEW d \in Votes,
           voteBeforeCompletion(p, v, d)
    PROVE  IInv'
<1> DEFINE m == polls[p]
           n == TallyVote(m, v, d, FALSE)
<1>1. /\ m \in PollType /\ PollInv(m) /\ m.state = "Pending" /\ m.snap \in Snapshots
      /\ p \in queue
      /\ ~ HasVoted(m, v) /\ m.snap.weight[{v}] # 0
  BY DEF voteBeforeCompletion, MayVote, IInv, TypeOK, QueueMatchesPolls
<1>2. Tallied(m, n, v, d, m.late)
  BY <1>1, TallyVoteRecords, Zenon
<1>3. UNCHANGED <<height, count, queue, maintainers, closed>>
  BY DEF voteBeforeCompletion
<1>4. PICK top \in Votes :
        /\ IsMajorityVote(n, top)
        /\ \/ /\ hasEnoughVotes(n, top)
              /\ polls' = [polls EXCEPT ![p] =
                    [n EXCEPT !.state = "Completed", !.result = top, !.completedAt = height]]
              /\ HandleResult(top)
           \/ /\ cannotWin(n, top)
              /\ polls' = [polls EXCEPT ![p] = [n EXCEPT !.state = "Failed"]]
              /\ UNCHANGED confirmed
           \/ /\ ~ hasEnoughVotes(n, top)
              /\ ~ cannotWin(n, top)
              /\ polls' = [polls EXCEPT ![p] = n]
              /\ UNCHANGED confirmed
  BY Zenon DEF voteBeforeCompletion
<1>5. height \in Nat /\ confirmed \in SUBSET (UNION Votes)
  BY ParamsAssumption DEF IInv, TypeOK, Heights
<1> HIDE DEF m, n
<1>6. /\ n \in PollType
      /\ hasEnoughVotes(n, top) =>
            LET r == [n EXCEPT !.state = "Completed", !.result = top, !.completedAt = height]
            IN  r \in PollType /\ r.state = "Completed" /\ r.snap = m.snap /\ PollInv(r)
      /\ cannotWin(n, top) =>
            LET r == [n EXCEPT !.state = "Failed"]
            IN  r \in PollType /\ r.state = "Failed" /\ r.snap = m.snap /\ PollInv(r)
      /\ ~ hasEnoughVotes(n, top) /\ ~ cannotWin(n, top) =>
            n.state = "Pending" /\ n.snap = m.snap /\ PollInv(n)
  BY <1>1, <1>2, <1>4, <1>5, VoteInTime, Zenon
<1>7. CASE hasEnoughVotes(n, top) /\ HandleResult(top) /\
           polls' = [polls EXCEPT ![p] =
              [n EXCEPT !.state = "Completed", !.result = top, !.completedAt = height]]
  <2> DEFINE r == [n EXCEPT !.state = "Completed", !.result = top, !.completedAt = height]
  <2>1. confirmed' \in SUBSET (UNION Votes)
    BY <1>5, <1>7 DEF HandleResult
  <2>2. /\ r \in PollType /\ r.state # "NonExistent" /\ r.snap \in Snapshots /\ PollInv(r)
        /\ polls' = [polls EXCEPT ![p] = r]
    BY <1>1, <1>6, <1>7
  <2> HIDE DEF r
  <2> QED
    BY <1>1, <1>3, <2>1, <2>2, PollUpdate, Zenon
<1>8. CASE cannotWin(n, top) /\ UNCHANGED confirmed /\
           polls' = [polls EXCEPT ![p] = [n EXCEPT !.state = "Failed"]]
  <2> DEFINE r == [n EXCEPT !.state = "Failed"]
  <2>1. confirmed' \in SUBSET (UNION Votes)
    BY <1>5, <1>8
  <2>2. /\ r \in PollType /\ r.state # "NonExistent" /\ r.snap \in Snapshots /\ PollInv(r)
        /\ polls' = [polls EXCEPT ![p] = r]
    BY <1>1, <1>6, <1>8
  <2> HIDE DEF r
  <2> QED
    BY <1>1, <1>3, <2>1, <2>2, PollUpdate, Zenon
<1>9. CASE /\ ~ hasEnoughVotes(n, top) /\ ~ cannotWin(n, top)
           /\ polls' = [polls EXCEPT ![p] = n] /\ UNCHANGED confirmed
  <2>1. confirmed' \in SUBSET (UNION Votes)
    BY <1>5, <1>9
  <2>2. n \in PollType /\ n.state # "NonExistent" /\ n.snap \in Snapshots /\ PollInv(n)
    BY <1>1, <1>6, <1>9
  <2> QED
    BY <1>1, <1>3, <1>9, <2>1, <2>2, PollUpdate, Zenon
<1> QED
  BY <1>4, <1>7, <1>8, <1>9

LEMMA VoteLateInv ==
    ASSUME IInv, NEW p \in PollIDs, NEW v \in Voters, NEW d \in Votes, voteLate(p, v, d)
    PROVE  IInv'
<1> DEFINE m == polls[p]
           n == TallyVote(m, v, d, TRUE)
<1>1. /\ m \in PollType /\ PollInv(m) /\ m.state = "Completed" /\ m.snap \in Snapshots
      /\ p \in queue
      /\ ~ HasVoted(m, v) /\ m.snap.weight[{v}] # 0
  BY DEF voteLate, MayVote, IInv, TypeOK, QueueMatchesPolls
<1>2. Tallied(m, n, v, d, m.late \cup {v})
  BY <1>1, TallyVoteRecords, Zenon
<1>3. /\ UNCHANGED <<height, count, queue, maintainers, closed>>
      /\ confirmed' \in SUBSET (UNION Votes)
      /\ polls' = [polls EXCEPT ![p] = n]
  BY DEF voteLate, IInv, TypeOK
<1> HIDE DEF m, n
<1>4. n \in PollType /\ n.state = "Completed" /\ n.snap = m.snap /\ PollInv(n)
  BY <1>1, <1>2, VoteLateKeepsQuorum, Zenon
<1> QED
  BY <1>1, <1>3, <1>4, PollUpdate, Zenon

\* what the end blocker does to the polls, when it handles H
Closing(H) ==
    /\ H \in SUBSET queue
    /\ queue' = queue \ H
    /\ polls' = [p \in PollIDs |-> IF p \in H THEN NoPoll ELSE polls[p]]
    /\ closed' = [p \in PollIDs |->
          IF p \in H
          THEN [poll |-> polls[p], verdict |-> [v \in Voters |-> Verdict(polls[p], v)]]
          ELSE closed[p]]

LEMMA EndBlockerCloses ==
    ASSUME EndBlocker
    PROVE  \E H \in SUBSET queue : Closing(H)
  BY Zenon DEF EndBlocker, PollsToHandle, Expired, Closing

LEMMA NextBlockType == height \in Heights /\ NextBlock => height' \in Heights
  BY ParamsAssumption DEF Heights, NextBlock

LEMMA EndBlockerInv == IInv /\ EndBlocker => IInv'
<1> SUFFICES ASSUME IInv, EndBlocker PROVE IInv'
  OBVIOUS
<1> USE DEF IInv
<1>1. PICK H \in SUBSET queue : Closing(H)
  BY EndBlockerCloses
<1>2. height' \in Heights /\ UNCHANGED <<count, maintainers, confirmed>>
  BY NextBlockType DEF EndBlocker, TypeOK
<1>3. NoPoll \in PollType /\ NoPoll.state = "NonExistent"
  BY DEF NoPoll, PollType, States
<1>4. \A m, v : Verdict(m, v) \in Verdicts
  BY DEF Verdict, HandleExpiredPoll, HandleCompletedPoll, Verdicts
<1>5. TypeOK'
  <2>1. polls' \in [PollIDs -> PollType] /\ queue' \in SUBSET PollIDs
    BY <1>1, <1>3 DEF Closing, TypeOK
  <2>2. closed' \in [PollIDs -> [poll : PollType, verdict : [Voters -> Verdicts]]]
    BY <1>1, <1>4 DEF Closing, TypeOK
  <2> QED
    BY <1>2, <2>1, <2>2 DEF TypeOK
<1>6. QueueMatchesPolls'
  BY <1>1, <1>2, <1>3, Zenon DEF QueueMatchesPolls, Closing, TypeOK
<1>7. (\A p \in PollIDs : p >= count => closed[p] = NotClosed)'
  <2>1. \A p \in H : p \in PollIDs /\ p < count
    BY DEF QueueMatchesPolls, TypeOK
  <2>2. \A p \in PollIDs : p \in Int /\ count \in Int
    BY DEF PollIDs, TypeOK
  <2> QED
    BY <1>1, <1>2, <2>1, <2>2 DEF Closing
<1>8. (\A q \in PollIDs : PollInv(polls[q]))'
  BY <1>1, <1>3 DEF Closing, PollInv
<1> QED
  BY <1>5, <1>6, <1>7, <1>8

(* Every step, whatever the transactions and end blockers do, preserves    *)
(* the invariant.                                                          *)
LEMMA NextInv == IInv /\ [Next]_vars => IInv'
<1> SUFFICES ASSUME IInv, [Next]_vars PROVE IInv'
  OBVIOUS
<1>1. CASE InitializePoll
  BY <1>1, InitializePollInv
<1>2. CASE Vote
  BY <1>2, VoteBeforeCompletionInv, VoteLateInv DEF Vote
<1>3. CASE \E v \in Voters : RegisterChainMaintainer(v)
  BY <1>3 DEF RegisterChainMaintainer, IInv, TypeOK, QueueMatchesPolls
<1>4. CASE \E v \in Voters : RemoveChainMaintainer(v)
  BY <1>4 DEF RemoveChainMaintainer, IInv, TypeOK, QueueMatchesPolls
<1>5. CASE EndBlocker
  BY <1>5, EndBlockerInv
<1>6. CASE EndBlockerError
  <2>1. /\ height' \in Heights
        /\ UNCHANGED <<count, polls, queue, maintainers, confirmed, closed>>
    BY <1>6, NextBlockType DEF EndBlockerError, IInv, TypeOK
  <2> QED
    BY <2>1 DEF IInv, TypeOK, QueueMatchesPolls
<1>7. CASE UNCHANGED vars
  BY <1>7 DEF vars, IInv, TypeOK, QueueMatchesPolls
<1> QED
  BY <1>1, <1>2, <1>3, <1>4, <1>5, <1>6, <1>7 DEF Next

LEMMA Invariance == Spec => []IInv
  BY InitInv, NextInv, PTL DEF Spec

-----------------------------------------------------------------------------
(* The poll store, its queue and the history of closed polls keep their    *)
(* types under all transactions and end blockers.                          *)
THEOREM PollTypes == Spec => []TypeOK
<1>1. IInv => TypeOK
  BY DEF IInv
<1> QED
  BY <1>1, Invariance, PTL

(* handlePollsAtExpiry never meets a queued poll that does not exist, and  *)
(* every existing poll is queued: neither of its panics is reachable.      *)
THEOREM QueueConsistency == Spec => []QueueMatchesPolls
<1>1. IInv => QueueMatchesPolls
  BY DEF IInv
<1> QED
  BY <1>1, Invariance, PTL

(* The result x/evm acts on always rests on a quorum of votes cast before  *)
(* completion, whatever late votes are tallied afterwards.                 *)
THEOREM Quorum == Spec => []ResultHasQuorum
<1>1. IInv => ResultHasQuorum
  BY DEF IInv, PollInv, ResultHasQuorum
<1> QED
  BY <1>1, Invariance, PTL

(* poll.Vote leaves no undecided poll pending: a pending poll misses a     *)
(* voter and can still pass.                                               *)
THEOREM NoStuckPoll == Spec => []PendingCanStillPass
<1>1. IInv => PendingCanStillPass
  BY DEF IInv, PollInv, PendingCanStillPass
<1> QED
  BY <1>1, Invariance, PTL

(* poll.Vote gives a poll up only when no value can reach the passing      *)
(* weight any more, although cannotWin looks at the majority vote alone.   *)
THEOREM NoEarlyFailure == Spec => []FailedCouldNotPass
<1>1. IInv => FailedCouldNotPass
  BY DEF IInv, PollInv, FailedCouldNotPass
<1> QED
  BY <1>1, Invariance, PTL

(* cannotWin is exact: polls fail as soon as they cannot pass, no earlier. *)
THEOREM ExactFailure == Spec => []FailsExactly
  BY NoStuckPoll, NoEarlyFailure, PTL DEF FailsExactly

(* With voting thresholds above one half (the default is 51%) the end      *)
(* blocker rewards exactly voters for the result, although it judges by    *)
(* tallies that late votes have changed.                                   *)
THEOREM FairVerdicts ==
    ASSUME MajorityThresholds
    PROVE  Spec => []VerdictMatchesResult
<1>1. Init => VerdictMatchesResult
  BY DEF Init, VerdictMatchesResult, NotClosed, NoPoll
<1>2. IInv /\ VerdictMatchesResult /\ [Next]_vars => VerdictMatchesResult'
  <2> SUFFICES ASSUME IInv, VerdictMatchesResult, [Next]_vars
               PROVE  VerdictMatchesResult'
    OBVIOUS
  <2>1. CASE EndBlocker
    <3>1. PICK H \in SUBSET queue : Closing(H)
      BY <2>1, EndBlockerCloses
    <3>2. SUFFICES ASSUME NEW p \in PollIDs, closed'[p].poll.state = "Completed"
                   PROVE  JudgedByResult(closed'[p].poll, closed'[p].verdict)
      BY DEF VerdictMatchesResult
    <3>3. CASE p \in H
      <4>1. /\ closed'[p].poll = polls[p]
            /\ closed'[p].verdict = [v \in Voters |-> Verdict(polls[p], v)]
        BY <3>1, <3>3 DEF Closing
      <4>2. polls[p] \in PollType /\ PollInv(polls[p]) /\ polls[p].state = "Completed"
        BY <3>2, <4>1 DEF IInv, TypeOK
      <4>3. JudgedByResult(polls[p], [v \in Voters |-> Verdict(polls[p], v)])
        BY <4>2, VerdictFollowsResult
      <4> QED
        BY <4>1, <4>3
    <3>4. CASE p \notin H
      BY <3>1, <3>2, <3>4 DEF Closing, VerdictMatchesResult
    <3> QED
      BY <3>3, <3>4
  <2>2. CASE UNCHANGED closed
    BY <2>2 DEF VerdictMatchesResult
  <2> QED
    BY <2>1, <2>2, Zenon DEF Next, vars, InitializePoll, Vote, voteBeforeCompletion, voteLate,
          RegisterChainMaintainer, RemoveChainMaintainer, EndBlockerError
<1> QED
  BY <1>1, <1>2, Invariance, PTL DEF Spec

(* No vote reopens or changes a decided poll: only the end blocker ends it.*)
THEOREM Finality == Spec => DecisionsAreFinal
<1> DEFINE Final(p) ==
      polls[p].state \in {"Completed", "Failed"} =>
          \/ polls'[p].state = "NonExistent" /\ p \notin queue'
          \/ /\ polls'[p].state = polls[p].state
             /\ polls'[p].result = polls[p].result
             /\ polls'[p].completedAt = polls[p].completedAt
<1>1. IInv /\ [Next]_vars => [\A p \in PollIDs : Final(p)]_vars
  <2> SUFFICES ASSUME IInv, Next, NEW p \in PollIDs
               PROVE  Final(p)
    OBVIOUS
  <2>1. polls \in [PollIDs -> PollType]
    BY DEF IInv, TypeOK
  <2>2. CASE InitializePoll
    <3>1. polls[count].state = "NonExistent" /\ count \in PollIDs
      BY <2>2, ParamsAssumption DEF InitializePoll, IInv, TypeOK, PollIDs, QueueMatchesPolls
    <3>2. p # count => polls'[p] = polls[p]
      BY <2>1, <2>2 DEF InitializePoll
    <3> QED
      BY <3>1, <3>2
  <2>3. ASSUME NEW q \in PollIDs, NEW v \in Voters, NEW d \in Votes, voteBeforeCompletion(q, v, d)
        PROVE  Final(p)
    <3>1. polls[q].state = "Pending"
      BY <2>3 DEF voteBeforeCompletion
    <3>2. p # q => polls'[p] = polls[p]
      BY <2>1, <2>3, Zenon DEF voteBeforeCompletion
    <3> QED
      BY <3>1, <3>2
  <2>4. ASSUME NEW q \in PollIDs, NEW v \in Voters, NEW d \in Votes, voteLate(q, v, d)
        PROVE  Final(p)
    <3>1. p # q => polls'[p] = polls[p]
      BY <2>1, <2>4 DEF voteLate
    <3>2. p = q => /\ polls'[p].state = polls[p].state
                   /\ polls'[p].result = polls[p].result
                   /\ polls'[p].completedAt = polls[p].completedAt
      BY <2>1, <2>4, Zenon DEF voteLate, TallyVote, PollType
    <3> QED
      BY <3>1, <3>2
  <2>5. CASE EndBlocker
    <3>1. PICK H \in SUBSET queue : Closing(H)
      BY <2>5, EndBlockerCloses
    <3> QED
      BY <3>1 DEF Closing, NoPoll
  <2>6. CASE UNCHANGED polls
    BY <2>6
  <2> QED
    BY <2>2, <2>3, <2>4, <2>5, <2>6, Zenon DEF Next, Vote, RegisterChainMaintainer,
          RemoveChainMaintainer, EndBlockerError
<1> QED
  BY <1>1, Invariance, PTL DEF Spec, DecisionsAreFinal

-----------------------------------------------------------------------------
(* Keys.                                                                   *)

\* governance never raises, or never lowers, ActiveEpochCount
NeverRaised == \A change \in ParamChanges : change[2] <= change[1]
NeverLowered == \A change \in ParamChanges : change[2] >= change[1]

(* The inductive invariant: what a step needs to know of the keys in use   *)
(* is that they are ready and used once.                                   *)
RotationInv == RotationTypeOK /\ KeysReady /\ OneUsePerKey

-----------------------------------------------------------------------------
(* Epochs in use have a number in 1 .. Len(epochs[c]).                     *)
LEMMA EpochNumbers ==
    ASSUME RotationTypeOK, NEW c \in Chains
    PROVE  /\ epochs[c] \in Seq(KeyIDs)
           /\ Len(epochs[c]) \in Nat
           /\ rotationCount[c] \in Nat
           /\ Len(epochs[c]) = rotationCount[c] \/ Len(epochs[c]) = rotationCount[c] + 1
           /\ DOMAIN epochs[c] = 1 .. Len(epochs[c])
           /\ \A i \in DOMAIN epochs[c] : epochs[c][i] \in KeyIDs
           /\ activeEpochCount \in Nat /\ activeEpochCount > 0
<1>1. epochs[c] \in Seq(KeyIDs) /\ rotationCount[c] \in Nat
  BY DEF RotationTypeOK
<1>2. Len(epochs[c]) \in Nat /\ DOMAIN epochs[c] = 1 .. Len(epochs[c])
      /\ \A i \in DOMAIN epochs[c] : epochs[c][i] \in KeyIDs
  BY <1>1
<1>3. Len(epochs[c]) - rotationCount[c] \in {0, 1}
  BY DEF RotationTypeOK
<1>4. activeEpochCount \in Nat /\ activeEpochCount > 0
  BY EpochAssumption DEF RotationTypeOK
<1> QED
  BY <1>1, <1>2, <1>3, <1>4

(* Appending a key to a chain's epochs keeps the earlier epochs.           *)
LEMMA AppendEpoch ==
    ASSUME RotationTypeOK, NEW c \in Chains, NEW k \in KeyIDs,
           epochs' = [epochs EXCEPT ![c] = Append(@, k)]
    PROVE  /\ epochs' \in [Chains -> Seq(KeyIDs)]
           /\ Len(epochs'[c]) = Len(epochs[c]) + 1
           /\ epochs'[c][Len(epochs[c]) + 1] = k
           /\ \A i \in DOMAIN epochs[c] : epochs'[c][i] = epochs[c][i]
           /\ DOMAIN epochs'[c] = DOMAIN epochs[c] \cup {Len(epochs[c]) + 1}
           /\ \A d \in Chains : d # c => epochs'[d] = epochs[d]
<1>1. epochs \in [Chains -> Seq(KeyIDs)]
  BY DEF RotationTypeOK
<1>2. epochs'[c] = Append(epochs[c], k) /\ epochs[c] \in Seq(KeyIDs)
  BY <1>1
<1>3. Len(epochs[c]) \in Nat /\ DOMAIN epochs[c] = 1 .. Len(epochs[c])
  BY <1>2
<1>4. /\ epochs'[c] \in Seq(KeyIDs)
      /\ Len(epochs'[c]) = Len(epochs[c]) + 1
      /\ epochs'[c][Len(epochs[c]) + 1] = k
      /\ \A i \in DOMAIN epochs[c] : epochs'[c][i] = epochs[c][i]
  BY <1>2, <1>3
<1>5. DOMAIN epochs'[c] = 1 .. (Len(epochs[c]) + 1)
  BY <1>4
<1>6. 1 .. (Len(epochs[c]) + 1) = (1 .. Len(epochs[c])) \cup {Len(epochs[c]) + 1}
  BY <1>3
<1> QED
  BY <1>1, <1>3, <1>4, <1>5, <1>6
-----------------------------------------------------------------------------
(* Each action preserves the type invariant.                               *)

LEMMA AssignKeyTypes ==
    ASSUME RotationTypeOK, NEW c \in Chains, NEW k \in KeyIDs, AssignKey(c, k)
    PROVE  RotationTypeOK'
<1>1. /\ epochs' \in [Chains -> Seq(KeyIDs)]
      /\ Len(epochs'[c]) = Len(epochs[c]) + 1
      /\ \A d \in Chains : d # c => epochs'[d] = epochs[d]
  <2>1. epochs' = [epochs EXCEPT ![c] = Append(@, k)]
    BY DEF AssignKey
  <2> QED
    BY <2>1, AppendEpoch, Zenon
<1>2. Len(epochs[c]) = rotationCount[c] /\ rotationCount[c] \in Nat
  BY EpochNumbers DEF AssignKey, HasNextKey
<1>3. ASSUME NEW d \in Chains PROVE Len(epochs'[d]) - rotationCount[d] \in {0, 1}
  <2>1. CASE d = c
    BY <2>1, <1>1, <1>2
  <2>2. CASE d # c
    BY <2>2, <1>1 DEF RotationTypeOK
  <2> QED
    BY <2>1, <2>2
<1> QED
  BY <1>1, <1>3 DEF RotationTypeOK, AssignKey, KeyStates

LEMMA ManualRotateKeyTypes ==
    ASSUME RotationTypeOK, NEW c \in Chains, NEW k \in KeyIDs, ManualRotateKey(c, k)
    PROVE  RotationTypeOK'
<1>1. /\ epochs' \in [Chains -> Seq(KeyIDs)]
      /\ Len(epochs'[c]) = Len(epochs[c]) + 1
      /\ \A d \in Chains : d # c => epochs'[d] = epochs[d]
  <2>1. epochs' = [epochs EXCEPT ![c] = Append(@, k)]
    BY DEF ManualRotateKey
  <2> QED
    BY <2>1, AppendEpoch, Zenon
<1>2. /\ Len(epochs[c]) = 0
      /\ activeEpochCount \in Nat /\ activeEpochCount > 0
  BY EpochNumbers DEF ManualRotateKey, HasNextKey, HasCurrentKey
<1>3. /\ rotationCount' = [rotationCount EXCEPT ![c] = 1]
      /\ rotationCount \in [Chains -> Nat]
  BY DEF ManualRotateKey, RotationTypeOK
<1>4. ASSUME NEW d \in Chains PROVE Len(epochs'[d]) - rotationCount'[d] \in {0, 1}
  <2>1. CASE d = c
    BY <2>1, <1>1, <1>2, <1>3
  <2>2. CASE d # c
    BY <2>2, <1>1, <1>3 DEF RotationTypeOK
  <2> QED
    BY <2>1, <2>2
<1>5. keyState' \in [KeyIDs -> KeyStates]
  BY <1>2 DEF ManualRotateKey, deactivateKeyAtEpoch, RotationTypeOK, KeyStates
<1>6. activeEpochCount' \in ActiveEpochCounts /\ rotationCount' \in [Chains -> Nat]
  BY <1>3 DEF ManualRotateKey, RotationTypeOK
<1> QED
  BY <1>1, <1>4, <1>5, <1>6 DEF RotationTypeOK

LEMMA RotateKeyTypes ==
    ASSUME RotationTypeOK, NEW c \in Chains, RotateKey(c)
    PROVE  RotationTypeOK'
<1>1. /\ Len(epochs[c]) = rotationCount[c] + 1 /\ rotationCount[c] \in Nat
  BY EpochNumbers DEF RotateKey, HasNextKey
<1>2. /\ epochs' = epochs
      /\ rotationCount' = [rotationCount EXCEPT ![c] = rotationCount[c] + 1]
      /\ rotationCount \in [Chains -> Nat]
  BY DEF RotateKey, RotationTypeOK
<1>3. ASSUME NEW d \in Chains PROVE Len(epochs[d]) - rotationCount'[d] \in {0, 1}
  <2>1. CASE d = c
    BY <2>1, <1>1, <1>2
  <2>2. CASE d # c
    BY <2>2, <1>2 DEF RotationTypeOK
  <2> QED
    BY <2>1, <2>2
<1>4. keyState' \in [KeyIDs -> KeyStates]
  BY Zenon DEF RotateKey, deactivateKeyAtEpoch, RotationTypeOK, KeyStates
<1>5. rotationCount' \in [Chains -> Nat]
  BY <1>1, <1>2
<1> QED
  BY <1>2, <1>3, <1>4, <1>5, Zenon DEF RotationTypeOK, RotateKey

LEMMA RotationTypeStep ==
    ASSUME RotationTypeOK, RotationNext
    PROVE  RotationTypeOK'
<1>1. ASSUME NEW k \in KeyIDs, SetKey(k) PROVE RotationTypeOK'
  BY <1>1 DEF RotationTypeOK, SetKey, KeyStates
<1>2. ASSUME NEW c \in Chains, NEW k \in KeyIDs, TransferOperatorship(c, k)
      PROVE  RotationTypeOK'
  BY <1>2, AssignKeyTypes DEF TransferOperatorship
<1>3. CASE UpdateParams
  BY <1>3, EpochAssumption DEF RotationTypeOK, UpdateParams
<1> QED
  BY <1>1, <1>2, <1>3, ManualRotateKeyTypes, RotateKeyTypes DEF RotationNext
-----------------------------------------------------------------------------
(* Each action preserves the invariant.                                    *)

LEMMA RotationInitInv == RotationInit => RotationInv
<1> SUFFICES ASSUME RotationInit PROVE RotationInv
  OBVIOUS
<1>1. \A c \in Chains : epochs[c] = <<>> /\ rotationCount[c] = 0
  BY Zenon DEF RotationInit
<1>2. ASSUME NEW c \in Chains PROVE DOMAIN epochs[c] = {}
  <2>1. Len(epochs[c]) = 0 /\ DOMAIN epochs[c] = 1 .. Len(epochs[c])
    BY <1>1
  <2> QED
    BY <2>1
<1>3. RotationTypeOK
  BY <1>1 DEF RotationInit, RotationTypeOK, KeyStates
<1> QED
  BY <1>2, <1>3 DEF RotationInv, KeysReady, OneUsePerKey, InUse

LEMMA SetKeyInv ==
    ASSUME RotationInv, NEW k \in KeyIDs, SetKey(k)
    PROVE  RotationInv'
<1>1. RotationTypeOK'
  BY RotationTypeStep DEF RotationInv, RotationNext
<1>2. ASSUME NEW c \in Chains PROVE InUse(c)' = InUse(c) /\ ActiveWindow(c)' = ActiveWindow(c)
  BY DEF SetKey, InUse, ActiveWindow
<1>3. KeysReady'
  <2> SUFFICES ASSUME NEW c \in Chains, NEW i \in InUse(c)
               PROVE  keyState'[epochs[c][i]] = IF i \in ActiveWindow(c) THEN "Active" ELSE "Assigned"
    BY <1>2, Zenon DEF KeysReady, SetKey
  <2>1. keyState[epochs[c][i]] = IF i \in ActiveWindow(c) THEN "Active" ELSE "Assigned"
    BY Zenon DEF RotationInv, KeysReady
  <2>2. epochs[c][i] # k
    BY <2>1 DEF SetKey
  <2>3. keyState'[epochs[c][i]] = keyState[epochs[c][i]]
    BY <2>2 DEF SetKey, RotationInv, RotationTypeOK
  <2> QED
    BY <2>1, <2>3
<1>4. OneUsePerKey'
  BY <1>2 DEF RotationInv, OneUsePerKey, SetKey
<1> QED
  BY <1>1, <1>3, <1>4 DEF RotationInv

(* The key that is assigned is not in use, so it gets its one use.         *)
LEMMA AssignKeyInv ==
    ASSUME RotationInv, NEW c \in Chains, NEW k \in KeyIDs, AssignKey(c, k)
    PROVE  RotationInv'
<1> DEFINE n == Len(epochs[c]) + 1
<1>1. RotationTypeOK /\ KeysReady /\ OneUsePerKey
  BY DEF RotationInv
<1>2. epochs' = [epochs EXCEPT ![c] = Append(@, k)]
  BY DEF AssignKey
<1>3. /\ epochs' \in [Chains -> Seq(KeyIDs)]
      /\ Len(epochs'[c]) = n
      /\ epochs'[c][n] = k
      /\ \A i \in DOMAIN epochs[c] : epochs'[c][i] = epochs[c][i]
      /\ DOMAIN epochs'[c] = DOMAIN epochs[c] \cup {n}
      /\ \A d \in Chains : d # c => epochs'[d] = epochs[d]
  BY <1>1, <1>2, AppendEpoch, Zenon
<1>4. /\ Len(epochs[c]) = rotationCount[c]
      /\ rotationCount[c] \in Nat
      /\ n = rotationCount[c] + 1
      /\ n \notin DOMAIN epochs[c]
      /\ activeEpochCount \in Nat /\ activeEpochCount > 0
  BY <1>1, EpochNumbers DEF AssignKey, HasNextKey
<1>5. /\ rotationCount' = rotationCount
      /\ activeEpochCount' = activeEpochCount
      /\ keyState[k] = "Inactive"
      /\ keyState' = [keyState EXCEPT ![k] = "Assigned"]
      /\ keyState \in [KeyIDs -> KeyStates]
  BY <1>1 DEF AssignKey, RotationTypeOK
<1>6. RotationTypeOK'
  BY <1>1, AssignKeyTypes, Zenon
<1>7. /\ InUse(c)' = InUse(c) \cup {n}
      /\ ActiveWindow(c)' = ActiveWindow(c)
      /\ n \notin InUse(c) /\ n \notin ActiveWindow(c)
  BY <1>3, <1>4, <1>5 DEF InUse, ActiveWindow
<1>8. ASSUME NEW d \in Chains, d # c
      PROVE  InUse(d)' = InUse(d) /\ ActiveWindow(d)' = ActiveWindow(d)
  BY <1>8, <1>3, <1>5 DEF InUse, ActiveWindow
<1>9. ASSUME NEW d \in Chains, NEW i \in InUse(d)
      PROVE  /\ epochs'[d][i] = epochs[d][i]
             /\ epochs[d][i] # k
             /\ keyState'[epochs[d][i]] = keyState[epochs[d][i]]
  <2>1. i \in DOMAIN epochs[d] /\ epochs[d][i] \in KeyIDs
    BY <1>1, EpochNumbers DEF InUse
  <2>2. epochs'[d][i] = epochs[d][i]
    BY <1>3, <2>1
  <2>3. epochs[d][i] # k
    BY <1>1, <1>5 DEF KeysReady
  <2> QED
    BY <1>5, <2>1, <2>2, <2>3
<1>10. KeysReady'
  <2> SUFFICES ASSUME NEW d \in Chains, NEW i \in InUse(d)'
               PROVE  keyState'[epochs'[d][i]] = IF i \in ActiveWindow(d)' THEN "Active" ELSE "Assigned"
    BY DEF KeysReady
  <2>1. CASE i \in InUse(d)
    BY <2>1, <1>1, <1>7, <1>8, <1>9 DEF KeysReady
  <2>2. CASE d = c /\ i = n
    BY <2>2, <1>3, <1>5, <1>7
  <2> QED
    BY <2>1, <2>2, <1>7, <1>8, Zenon
<1>11. OneUsePerKey'
  <2> SUFFICES ASSUME NEW d \in Chains, NEW e \in Chains, NEW i \in InUse(d)', NEW j \in InUse(e)',
                      epochs'[d][i] = epochs'[e][j]
               PROVE  d = e /\ i = j
    BY Zenon DEF OneUsePerKey
  <2>1. CASE i \in InUse(d) /\ j \in InUse(e)
    BY <2>1, <1>1, <1>9 DEF OneUsePerKey
  <2>2. CASE i \notin InUse(d)
    <3>1. d = c /\ i = n
      BY <2>2, <1>7, <1>8, Zenon
    <3>2. epochs'[e][j] = k
      BY <3>1, <1>3
    <3> QED
      BY <3>1, <3>2, <1>7, <1>8, <1>9, Zenon
  <2>3. CASE j \notin InUse(e)
    <3>1. e = c /\ j = n
      BY <2>3, <1>7, <1>8
    <3>2. epochs'[d][i] = k
      BY <3>1, <1>3
    <3> QED
      BY <3>1, <3>2, <1>7, <1>8, <1>9
  <2> QED
    BY <2>1, <2>2, <2>3
<1> QED
  BY <1>6, <1>10, <1>11 DEF RotationInv

(* The activated key is the next key, the deactivated one that of an epoch *)
(* in use, and by OneUsePerKey neither is any other key in use.            *)
LEMMA RotateKeyInv ==
    ASSUME RotationInv, NEW c \in Chains, RotateKey(c)
    PROVE  RotationInv'
<1> DEFINE n == rotationCount[c] + 1
           old == n - activeEpochCount
<1>1. RotationTypeOK /\ KeysReady /\ OneUsePerKey
  BY DEF RotationInv
<1>2. /\ rotationCount[c] \in Nat
      /\ Len(epochs[c]) = n
      /\ DOMAIN epochs[c] = 1 .. n
      /\ \A i \in DOMAIN epochs[c] : epochs[c][i] \in KeyIDs
      /\ activeEpochCount \in Nat /\ activeEpochCount > 0
  BY <1>1, EpochNumbers DEF RotateKey, HasNextKey
<1>3. /\ epochs' = epochs
      /\ activeEpochCount' = activeEpochCount
      /\ rotationCount' = [rotationCount EXCEPT ![c] = n]
      /\ rotationCount \in [Chains -> Nat]
      /\ keyState \in [KeyIDs -> KeyStates]
  BY <1>1 DEF RotateKey, RotationTypeOK
<1>4. keyState' = IF n > activeEpochCount
                  THEN [[keyState EXCEPT ![epochs[c][n]] = "Active"]
                           EXCEPT ![epochs[c][old]] = "Inactive"]
                  ELSE [keyState EXCEPT ![epochs[c][n]] = "Active"]
  BY <1>3 DEF RotateKey, deactivateKeyAtEpoch, NextKeyID
<1>5. /\ n \in InUse(c)
      /\ n > activeEpochCount => old \in InUse(c) /\ old # n
  BY <1>2 DEF InUse
<1>6. RotationTypeOK'
  BY <1>1, RotateKeyTypes
<1>7. ASSUME NEW i \in InUse(c)'
      PROVE  i \in InUse(c) /\ i \in ActiveWindow(c)' /\ (i # n => i \in ActiveWindow(c)) /\ i # old
  BY <1>2, <1>3 DEF InUse, ActiveWindow
<1>8. ASSUME NEW d \in Chains, d # c
      PROVE  InUse(d)' = InUse(d) /\ ActiveWindow(d)' = ActiveWindow(d)
  BY <1>8, <1>3 DEF InUse, ActiveWindow
<1>9. ASSUME NEW d \in Chains, NEW i \in InUse(d)'
      PROVE  i \in InUse(d)
  BY <1>7, <1>8
<1>10. ASSUME NEW d \in Chains, NEW i \in InUse(d)', ~ (d = c /\ i = n)
       PROVE  keyState'[epochs[d][i]] = keyState[epochs[d][i]]
  <2>1. i \in InUse(d) /\ epochs[d][i] \in KeyIDs
    BY <1>9, <1>1, EpochNumbers DEF InUse
  <2>2. epochs[d][i] # epochs[c][n]
    BY <2>1, <1>1, <1>5, <1>10 DEF OneUsePerKey
  <2>3. n > activeEpochCount => epochs[d][i] # epochs[c][old]
    BY <2>1, <1>1, <1>5, <1>7 DEF OneUsePerKey
  <2> HIDE DEF n, old
  <2> QED
    BY <2>1, <2>2, <2>3, <1>3, <1>4
<1>11. keyState'[epochs[c][n]] = "Active"
  <2>1. epochs[c][n] \in KeyIDs
    BY <1>2
  <2>2. n > activeEpochCount => epochs[c][n] # epochs[c][old]
    BY <1>1, <1>5 DEF OneUsePerKey
  <2> HIDE DEF n, old
  <2> QED
    BY <2>1, <2>2, <1>3, <1>4
<1>12. KeysReady'
  <2> SUFFICES ASSUME NEW d \in Chains, NEW i \in InUse(d)'
               PROVE  keyState'[epochs[d][i]] = IF i \in ActiveWindow(d)' THEN "Active" ELSE "Assigned"
    BY <1>3 DEF KeysReady
  <2>1. CASE d = c /\ i = n
    BY <2>1, <1>7, <1>11
  <2>2. CASE d = c /\ i # n
    BY <2>2, <1>1, <1>7, <1>10, Zenon DEF KeysReady
  <2>3. CASE d # c
    BY <2>3, <1>1, <1>8, <1>10 DEF KeysReady
  <2> QED
    BY <2>1, <2>2, <2>3
<1>13. OneUsePerKey'
  BY <1>1, <1>3, <1>9 DEF OneUsePerKey
<1> QED
  BY <1>6, <1>12, <1>13 DEF RotationInv

LEMMA ManualRotateKeyInv ==
    ASSUME RotationInv, NEW c \in Chains, NEW k \in KeyIDs, ManualRotateKey(c, k)
    PROVE  RotationInv'
<1>1. RotationTypeOK /\ KeysReady /\ OneUsePerKey
  BY DEF RotationInv
<1>2. epochs' = [epochs EXCEPT ![c] = Append(@, k)]
  BY DEF ManualRotateKey
<1>3. /\ Len(epochs[c]) = 0 /\ rotationCount[c] = 0
      /\ activeEpochCount \in Nat /\ activeEpochCount > 0
      /\ DOMAIN epochs[c] = {}
  BY <1>1, EpochNumbers DEF ManualRotateKey, HasNextKey, HasCurrentKey
<1>4. /\ epochs' \in [Chains -> Seq(KeyIDs)]
      /\ Len(epochs'[c]) = 1
      /\ epochs'[c][1] = k
      /\ DOMAIN epochs'[c] = {1}
      /\ \A d \in Chains : d # c => epochs'[d] = epochs[d]
  <2>1. /\ epochs' \in [Chains -> Seq(KeyIDs)]
        /\ Len(epochs'[c]) = Len(epochs[c]) + 1
        /\ epochs'[c][Len(epochs[c]) + 1] = k
        /\ DOMAIN epochs'[c] = DOMAIN epochs[c] \cup {Len(epochs[c]) + 1}
        /\ \A d \in Chains : d # c => epochs'[d] = epochs[d]
    BY <1>1, <1>2, AppendEpoch, Zenon
  <2>2. Len(epochs[c]) + 1 = 1
    BY <1>3
  <2> QED
    BY <2>1, <2>2, <1>3
<1>5. /\ rotationCount' = [rotationCount EXCEPT ![c] = 1]
      /\ rotationCount \in [Chains -> Nat]
      /\ activeEpochCount' = activeEpochCount
      /\ keyState[k] = "Inactive"
      /\ keyState \in [KeyIDs -> KeyStates]
  BY <1>1 DEF ManualRotateKey, RotationTypeOK
<1>6. keyState' = [keyState EXCEPT ![k] = "Active"]
  BY <1>3 DEF ManualRotateKey, deactivateKeyAtEpoch
<1>7. RotationTypeOK'
  BY <1>1, ManualRotateKeyTypes
<1>8. InUse(c)' = {1} /\ ActiveWindow(c)' = {1} /\ InUse(c) = {}
  BY <1>3, <1>4, <1>5 DEF InUse, ActiveWindow
<1>9. ASSUME NEW d \in Chains, d # c
      PROVE  InUse(d)' = InUse(d) /\ ActiveWindow(d)' = ActiveWindow(d) /\ epochs'[d] = epochs[d]
  BY <1>9, <1>4, <1>5 DEF InUse, ActiveWindow
<1>10. ASSUME NEW d \in Chains, NEW i \in InUse(d)
       PROVE  epochs[d][i] # k /\ keyState'[epochs[d][i]] = keyState[epochs[d][i]]
  <2>1. epochs[d][i] \in KeyIDs
    BY <1>1, EpochNumbers DEF InUse
  <2>2. epochs[d][i] # k
    BY <1>1, <1>5 DEF KeysReady
  <2> QED
    BY <1>5, <1>6, <2>1, <2>2, Zenon
<1>11. KeysReady'
  <2> SUFFICES ASSUME NEW d \in Chains, NEW i \in InUse(d)'
               PROVE  keyState'[epochs'[d][i]] = IF i \in ActiveWindow(d)' THEN "Active" ELSE "Assigned"
    BY DEF KeysReady
  <2>1. CASE d = c
    BY <2>1, <1>4, <1>5, <1>6, <1>8, Zenon
  <2>2. CASE d # c
    BY <2>2, <1>1, <1>9, <1>10 DEF KeysReady
  <2> QED
    BY <2>1, <2>2
<1>12. OneUsePerKey'
  <2> SUFFICES ASSUME NEW d \in Chains, NEW e \in Chains, NEW i \in InUse(d)', NEW j \in InUse(e)',
                      epochs'[d][i] = epochs'[e][j]
               PROVE  d = e /\ i = j
    BY DEF OneUsePerKey
  <2>1. CASE d = c /\ e = c
    BY <2>1, <1>8, Zenon
  <2>2. CASE d # c /\ e # c
    BY <2>2, <1>1, <1>9 DEF OneUsePerKey
  <2>3. CASE d = c /\ e # c
    BY <2>3, <1>4, <1>8, <1>9, <1>10
  <2>4. CASE d # c /\ e = c
    BY <2>4, <1>4, <1>8, <1>9, <1>10
  <2> QED
    BY <2>1, <2>2, <2>3, <2>4, Zenon
<1> QED
  BY <1>7, <1>11, <1>12 DEF RotationInv

(* A smaller ActiveEpochCount only takes epochs out of use.                *)
LEMMA UpdateParamsInv ==
    ASSUME NeverRaised, RotationInv, UpdateParams
    PROVE  RotationInv'
<1>1. RotationTypeOK /\ KeysReady /\ OneUsePerKey
  BY DEF RotationInv
<1>2. /\ keyState' = keyState /\ epochs' = epochs /\ rotationCount' = rotationCount
      /\ activeEpochCount' \in ActiveEpochCounts
      /\ activeEpochCount' <= activeEpochCount
  BY EpochAssumption DEF UpdateParams, NeverRaised
<1>3. RotationTypeOK'
  BY <1>1, <1>2 DEF RotationTypeOK
<1>4. ASSUME NEW c \in Chains, NEW i \in InUse(c)'
      PROVE  i \in InUse(c) /\ (i \in ActiveWindow(c)' <=> i \in ActiveWindow(c))
  <2>1. /\ DOMAIN epochs[c] = 1 .. Len(epochs[c]) /\ Len(epochs[c]) \in Nat
        /\ rotationCount[c] \in Nat
        /\ activeEpochCount \in Nat /\ activeEpochCount' \in Nat
    BY <1>1, <1>2, EpochNumbers, EpochAssumption
  <2> QED
    BY <2>1, <1>2 DEF InUse, ActiveWindow
<1>5. KeysReady' /\ OneUsePerKey'
  BY <1>1, <1>2, <1>4 DEF KeysReady, OneUsePerKey
<1> QED
  BY <1>3, <1>5 DEF RotationInv

(* Without changes of the variables nothing changes.                       *)
LEMMA StutterInv ==
    ASSUME RotationInv, UNCHANGED rotationVars
    PROVE  RotationInv'
BY DEF RotationInv, rotationVars, RotationTypeOK, KeysReady, OneUsePerKey, InUse, ActiveWindow

(* The invariant holds throughout when ActiveEpochCount is never raised.   *)
LEMMA RotationInvariance ==
    ASSUME NeverRaised
    PROVE  RotationSpec => []RotationInv
<1>1. ASSUME RotationInv, RotationNext PROVE RotationInv'
  <2>1. ASSUME NEW c \in Chains, NEW k \in KeyIDs, TransferOperatorship(c, k)
        PROVE  RotationInv'
    BY <1>1, <2>1, AssignKeyInv DEF TransferOperatorship
  <2> QED
    BY <1>1, <2>1, SetKeyInv, ManualRotateKeyInv, RotateKeyInv, UpdateParamsInv DEF RotationNext
<1> QED
  BY <1>1, RotationInitInv, StutterInv, PTL DEF RotationSpec
-----------------------------------------------------------------------------
(* Types, and epochs numbered without gaps, whatever happens to the        *)
(* parameter: AssignKey and RotateKey move by one epoch.                   *)
THEOREM RotationTypes == RotationSpec => []RotationTypeOK
<1>1. RotationInit => RotationTypeOK
  BY RotationInitInv DEF RotationInv
<1>2. RotationTypeOK /\ UNCHANGED rotationVars => RotationTypeOK'
  BY DEF RotationTypeOK, rotationVars
<1> QED
  BY <1>1, <1>2, RotationTypeStep, PTL DEF RotationSpec

(* The keys of the window of every chain are active and its next key is    *)
(* assigned: the current key can sign and RotateKey does not panic.        *)
THEOREM WindowReady ==
    ASSUME NeverRaised
    PROVE  RotationSpec => []KeysReady
<1>1. RotationInv => KeysReady
  BY DEF RotationInv
<1> QED
  BY <1>1, RotationInvariance, PTL

(* A key serves one epoch of one chain at a time.                          *)
THEOREM SingleUse ==
    ASSUME NeverRaised
    PROVE  RotationSpec => []OneUsePerKey
<1>1. RotationInv => OneUsePerKey
  BY DEF RotationInv
<1> QED
  BY <1>1, RotationInvariance, PTL

(* The early return of GetActiveKeyIDs misses no key of the window.        *)
THEOREM HoldersFound ==
    ASSUME NeverRaised
    PROVE  RotationSpec => []ActiveKeysFound
<1>1. RotationInv => ActiveKeysFound
  <2> SUFFICES ASSUME RotationInv, NEW c \in Chains, NEW i \in ActiveWindow(c)
               PROVE  epochs[c][i] \in GetActiveKeyIDs(c)
    BY Zenon DEF ActiveKeysFound
  <2>1. /\ DOMAIN epochs[c] = 1 .. Len(epochs[c]) /\ Len(epochs[c]) \in Nat
        /\ rotationCount[c] \in Nat /\ activeEpochCount \in Nat
    BY EpochNumbers DEF RotationInv
  <2>2. i \in DOMAIN epochs[c] /\ i \in InUse(c)
    BY DEF ActiveWindow, InUse
  <2>3. keyState[epochs[c][i]] = "Active"
    BY <2>2 DEF RotationInv, KeysReady
  <2>4. ASSUME NEW l \in DOMAIN epochs[c], l > i PROVE keyState[epochs[c][l]] # "Inactive"
    <3>1. l \in InUse(c)
      BY <2>1, <2>2, <2>4 DEF InUse
    <3> QED
      BY <3>1 DEF RotationInv, KeysReady
  <2> QED
    BY <2>2, <2>3, <2>4 DEF GetActiveKeyIDs
<1> QED
  BY <1>1, RotationInvariance, PTL

(* A restart from genesis recovers the rotation count of every chain.      *)
THEOREM RotationsRecovered ==
    ASSUME NeverRaised
    PROVE  RotationSpec => []GenesisKeepsRotations
<1>1. RotationInv => GenesisKeepsRotations
  <2> SUFFICES ASSUME RotationInv, NEW c \in Chains
               PROVE  ImportedRotationCount(c) = rotationCount[c]
    BY Zenon DEF GenesisKeepsRotations
  <2>1. /\ DOMAIN epochs[c] = 1 .. Len(epochs[c]) /\ Len(epochs[c]) \in Nat
        /\ rotationCount[c] \in Nat
        /\ Len(epochs[c]) = rotationCount[c] \/ Len(epochs[c]) = rotationCount[c] + 1
        /\ activeEpochCount \in Nat /\ activeEpochCount > 0
    BY EpochNumbers DEF RotationInv
  <2>2. CASE Len(epochs[c]) = 0
    BY <2>1, <2>2 DEF ImportedRotationCount
  <2>3. CASE Len(epochs[c]) = rotationCount[c] /\ rotationCount[c] > 0
    <3>1. Len(epochs[c]) \in InUse(c) /\ Len(epochs[c]) \in ActiveWindow(c)
      BY <2>1, <2>3 DEF InUse, ActiveWindow
    <3>2. keyState[epochs[c][Len(epochs[c])]] = "Active"
      BY <3>1 DEF RotationInv, KeysReady
    <3> QED
      BY <2>3, <3>2 DEF ImportedRotationCount
  <2>4. CASE Len(epochs[c]) = rotationCount[c] + 1
    <3>1. Len(epochs[c]) \in InUse(c) /\ Len(epochs[c]) \notin ActiveWindow(c)
      BY <2>1, <2>4 DEF InUse, ActiveWindow
    <3>2. keyState[epochs[c][Len(epochs[c])]] = "Assigned"
      BY <3>1 DEF RotationInv, KeysReady
    <3> QED
      BY <2>1, <2>4, <3>2 DEF ImportedRotationCount
  <2> QED
    BY <2>1, <2>2, <2>3, <2>4
<1> QED
  BY <1>1, RotationInvariance, PTL

(* No key is left active or assigned without an epoch in use: the epoch    *)
(* that leaves the window takes the state of its key with it.              *)
THEOREM NoneLeftActive ==
    ASSUME NeverLowered
    PROVE  RotationSpec => []RetiredKeysInactive
<1>1. RotationInit => RetiredKeysInactive
  BY Zenon DEF RotationInit, RetiredKeysInactive
<1>2. ASSUME RotationTypeOK, RotationTypeOK', RetiredKeysInactive, RotationNext
      PROVE  RetiredKeysInactive'
  <2>1. \A k \in KeyIDs : keyState[k] \in {"Assigned", "Active"} =>
            \E c \in Chains : \E i \in InUse(c) : epochs[c][i] = k
    BY <1>2 DEF RetiredKeysInactive
  <2> SUFFICES ASSUME NEW k \in KeyIDs, keyState'[k] \in {"Assigned", "Active"}
               PROVE  \E c \in Chains : \E i \in InUse(c)' : epochs'[c][i] = k
    BY DEF RetiredKeysInactive
  <2>2. keyState \in [KeyIDs -> KeyStates]
    BY <1>2 DEF RotationTypeOK
  <2>3. ASSUME NEW q \in KeyIDs, SetKey(q) PROVE \E c \in Chains : \E i \in InUse(c)' : epochs'[c][i] = k
    <3>1. keyState[k] \in {"Assigned", "Active"}
      BY <2>2, <2>3 DEF SetKey
    <3> QED
      BY <3>1, <2>1, <2>3 DEF SetKey, InUse
  <2>4. ASSUME NEW d \in Chains, NEW q \in KeyIDs, ManualRotateKey(d, q) \/ AssignKey(d, q)
        PROVE  \E c \in Chains : \E i \in InUse(c)' : epochs'[c][i] = k
    <3>1. epochs' = [epochs EXCEPT ![d] = Append(@, q)]
      BY <2>4 DEF ManualRotateKey, AssignKey
    <3>2. /\ epochs'[d][Len(epochs[d]) + 1] = q
          /\ \A i \in DOMAIN epochs[d] : epochs'[d][i] = epochs[d][i]
          /\ DOMAIN epochs'[d] = DOMAIN epochs[d] \cup {Len(epochs[d]) + 1}
          /\ \A c \in Chains : c # d => epochs'[c] = epochs[c]
      BY <1>2, <3>1, AppendEpoch, Zenon
    <3>3. /\ Len(epochs[d]) = rotationCount[d] /\ rotationCount[d] \in Nat
          /\ activeEpochCount \in Nat /\ activeEpochCount > 0
          /\ DOMAIN epochs[d] = 1 .. Len(epochs[d])
      BY <1>2, <2>4, EpochNumbers DEF ManualRotateKey, AssignKey, HasNextKey, HasCurrentKey
    <3>4. /\ activeEpochCount' = activeEpochCount
          /\ rotationCount'[d] \in Nat /\ rotationCount'[d] <= rotationCount[d] + 1
          /\ rotationCount'[d] # rotationCount[d] => rotationCount[d] = 0
          /\ \A c \in Chains : c # d => rotationCount'[c] = rotationCount[c]
      BY <1>2, <2>4, <3>3 DEF ManualRotateKey, AssignKey, RotationTypeOK, HasCurrentKey
    <3>5. CASE k = q
      <4>1. Len(epochs[d]) + 1 \in InUse(d)'
        BY <3>2, <3>3, <3>4 DEF InUse
      <4> QED
        BY <4>1, <3>2, <3>5, Zenon
    <3>6. CASE k # q
      <4>1. keyState[k] \in {"Assigned", "Active"}
        <5>1. CASE AssignKey(d, q)
          BY <5>1, <2>2, <3>6 DEF AssignKey
        <5>2. CASE ManualRotateKey(d, q)
          BY <5>2, <2>2, <3>3, <3>6 DEF ManualRotateKey, deactivateKeyAtEpoch
        <5> QED
          BY <5>1, <5>2, <2>4
      <4>2. PICK c \in Chains : \E j \in InUse(c) : epochs[c][j] = k
        BY <4>1, <2>1
      <4>3. PICK i \in InUse(c) : epochs[c][i] = k
        BY <4>2, Zenon
      <4>4. i \in InUse(c)' /\ epochs'[c][i] = k
        <5>1. i \in DOMAIN epochs[c] /\ i + activeEpochCount > rotationCount[c]
          BY <4>3, Zenon DEF InUse
        <5>2. i \in DOMAIN epochs'[c] /\ epochs'[c][i] = k
          BY <4>3, <3>2, <5>1, Zenon
        <5>3. rotationCount'[c] = rotationCount[c]
          <6>1. CASE c = d
            <7>1. rotationCount[d] # 0
              BY <3>3, <5>1, <6>1
            <7> QED
              BY <3>4, <6>1, <7>1, Zenon
          <6>2. CASE c # d
            BY <3>4, <6>2, Zenon
          <6> QED
            BY <6>1, <6>2, Zenon
        <5> QED
          BY <3>4, <5>1, <5>2, <5>3, Zenon DEF InUse
      <4> QED
        BY <4>4
    <3> QED
      BY <3>5, <3>6
  <2>5. ASSUME NEW d \in Chains, RotateKey(d)
        PROVE  \E c \in Chains : \E i \in InUse(c)' : epochs'[c][i] = k
    <3> DEFINE n == rotationCount[d] + 1
               old == n - activeEpochCount
    <3>1. /\ rotationCount[d] \in Nat
          /\ DOMAIN epochs[d] = 1 .. n
          /\ activeEpochCount \in Nat /\ activeEpochCount > 0
      BY <1>2, <2>5, EpochNumbers DEF RotateKey, HasNextKey
    <3>2. /\ epochs' = epochs
          /\ activeEpochCount' = activeEpochCount
          /\ rotationCount'[d] = n
          /\ \A c \in Chains : c # d => rotationCount'[c] = rotationCount[c]
      BY <1>2, <2>5, Zenon DEF RotateKey, RotationTypeOK
    <3>3. keyState' = IF n > activeEpochCount
                      THEN [[keyState EXCEPT ![epochs[d][n]] = "Active"]
                               EXCEPT ![epochs[d][old]] = "Inactive"]
                      ELSE [keyState EXCEPT ![epochs[d][n]] = "Active"]
      BY <2>5, <3>2, Zenon DEF RotateKey, deactivateKeyAtEpoch, NextKeyID
    <3>4. n \in InUse(d)'
      BY <3>1, <3>2 DEF InUse
    <3>5. CASE k = epochs[d][n]
      BY <3>2, <3>4, <3>5
    <3>6. CASE k # epochs[d][n]
      <4>1. /\ keyState[k] \in {"Assigned", "Active"}
            /\ n > activeEpochCount => k # epochs[d][old]
        <5> HIDE DEF n, old
        <5> QED
          BY <2>2, <3>3, <3>6
      <4>2. PICK c \in Chains : \E j \in InUse(c) : epochs[c][j] = k
        BY <4>1, <2>1, Zenon
      <4>3. PICK i \in InUse(c) : epochs[c][i] = k
        BY <4>2
      <4>4. CASE c # d
        BY <4>3, <4>4, <3>2 DEF InUse
      <4>5. CASE c = d
        <5>1. i \in 1 .. n /\ i + activeEpochCount > rotationCount[d] /\ i # n
          BY <4>3, <4>5, <3>1, <3>6 DEF InUse
        <5>2. i + activeEpochCount # n
          BY <4>1, <4>3, <4>5, <5>1, <3>1
        <5>3. i + activeEpochCount > n
          BY <5>1, <5>2, <3>1
        <5>4. i \in InUse(d)'
          BY <5>1, <5>3, <3>1, <3>2 DEF InUse
        <5> QED
          BY <4>3, <4>5, <5>4, <3>2
      <4> QED
        BY <4>4, <4>5
    <3> QED
      BY <3>5, <3>6
  <2>6. ASSUME UpdateParams
        PROVE  \E c \in Chains : \E i \in InUse(c)' : epochs'[c][i] = k
    <3>1. /\ keyState' = keyState /\ epochs' = epochs /\ rotationCount' = rotationCount
          /\ activeEpochCount' \in Nat /\ activeEpochCount \in Nat
          /\ activeEpochCount' >= activeEpochCount
      BY <2>6, EpochAssumption DEF UpdateParams, NeverLowered
    <3>2. PICK c \in Chains : \E j \in InUse(c) : epochs[c][j] = k
      BY <3>1, <2>1
    <3>3. PICK i \in InUse(c) : epochs[c][i] = k
      BY <3>2
    <3>4. DOMAIN epochs[c] = 1 .. Len(epochs[c]) /\ Len(epochs[c]) \in Nat /\ rotationCount[c] \in Nat
      BY <1>2, EpochNumbers
    <3>5. i \in InUse(c)'
      BY <3>1, <3>4 DEF InUse
    <3> QED
      BY <3>1, <3>3, <3>5
  <2> QED
    BY <1>2, <2>3, <2>4, <2>5, <2>6, Zenon DEF RotationNext, TransferOperatorship
<1>3. RetiredKeysInactive /\ UNCHANGED rotationVars => RetiredKeysInactive'
  BY DEF RetiredKeysInactive, rotationVars, InUse
<1> QED
  BY <1>1, <1>2, <1>3, RotationTypes, PTL DEF RotationSpec

=============================================================================
