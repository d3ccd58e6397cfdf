------------------------------ MODULE VotePoll ------------------------------
(***************************************************************************)
(* The polls of x/vote, with the vote handler x/evm registers for them.    *)
(*                                                                         *)
(* A poll is opened by x/evm (confirm requests), collects one vote per     *)
(* participant of the snapshot taken at that moment, completes as soon as  *)
(* one value has the passing weight (its result is handed to x/evm in the  *)
(* same transaction), fails as soon as no value can reach it, records late *)
(* votes during a grace period, and is closed by the end blocker of a      *)
(* block at or after its expiry, which also judges its voters.             *)
(*                                                                         *)
(* A transaction or an end blocker is one step: the code runs it on a      *)
(* branched store that is written back as a whole or not at all, so a      *)
(* rejected transaction is a stutter and has no action here.               *)
(***************************************************************************)
EXTENDS Integers, FiniteSets, Snapshot

CONSTANTS
    Voters,            \* validators that may appear in a snapshot
    Votes,             \* values voted on: sets of events (types.VoteEvents); {} is "no event"
    HashRank,          \* order of the values by data hash, the tallies' iteration order
    NoVote,            \* no value
    Snapshots,         \* snapshots CreateSnapshot can return (SnapshotAssumption)
    Thresholds,        \* values of evm's VotingThreshold parameter: [num, den]
    MinVoterCounts,    \* values of evm's MinVoterCount parameter
    LockingPeriods,    \* values of evm's RevoteLockingPeriod parameter
    GracePeriods,      \* values of evm's VotingGracePeriod parameter
    EndBlockerLimits,  \* values of vote's EndBlockerLimit parameter
    PollBound,         \* bound on the number of polls opened
    MaxHeight          \* bound on the block height; the clock stops there

PollIDs == 0 .. (PollBound - 1)
Heights == 1 .. MaxHeight

ASSUME VotersAssumption == IsFiniteSet(Voters)

ASSUME VotesAssumption ==
    /\ {} \in Votes
    /\ NoVote \notin Votes
    /\ HashRank \in [Votes -> Nat]
    /\ \A d, e \in Votes : HashRank[d] = HashRank[e] => d = e

ASSUME SnapshotAssumption == \A s \in Snapshots : IsSnapshot(s, Voters)

(***************************************************************************)
(* Params.Validate: thresholds in (0,1], positive periods and limits.      *)
(***************************************************************************)
ASSUME ParamsAssumption ==
    /\ \A t \in Thresholds : IsThreshold(t)
    /\ MinVoterCounts \subseteq Nat \ {0}
    /\ LockingPeriods \subseteq Nat \ {0}
    /\ GracePeriods \subseteq Nat
    /\ EndBlockerLimits \subseteq Nat \ {0}
    /\ PollBound \in Nat
    /\ MaxHeight \in Nat \ {0}

-----------------------------------------------------------------------------
VARIABLES
    height,       \* height of the block being executed
    count,        \* next poll ID
    polls,        \* poll metadata and tallied votes, by ID
    queue,        \* pending_poll_queue: IDs, ordered by the polls' ExpiresAt
    maintainers,  \* x/nexus: current maintainers of the chain the polls are about
    confirmed,    \* x/evm: events with a stored confirmation
    closed        \* history: closed polls with the verdict on every voter

vars == <<height, count, polls, queue, maintainers, confirmed, closed>>

States == {"NonExistent", "Pending", "Completed", "Failed"}
Verdicts == {"none", "released", "cleared"}

NoPoll ==
    [state |-> "NonExistent", snap |-> NoVote, passing |-> 0, minVoterCount |-> 0,
     gracePeriod |-> 0, expiresAt |-> 0, completedAt |-> 0, result |-> NoVote,
     votes |-> [v \in Voters |-> NoVote], late |-> {}]

NotClosed == [poll |-> NoPoll, verdict |-> [v \in Voters |-> "none"]]

PollType ==
    [state : States, snap : Snapshots \cup {NoVote}, passing : Nat,
     minVoterCount : Nat, gracePeriod : Nat, expiresAt : Nat, completedAt : Nat,
     result : Votes \cup {NoVote}, votes : [Voters -> Votes \cup {NoVote}],
     late : SUBSET Voters]

-----------------------------------------------------------------------------
(* Tallies of a poll m.                                                    *)

\* voters whose vote is recorded under value d (TalliedVote.IsVoterLate of d)
VotersFor(m, d) == {v \in Voters : m.votes[v] = d}

\* HasVoted: the voter is in some tally
HasVoted(m, v) == m.votes[v] # NoVote
Voted(m) == {v \in Voters : HasVoted(m, v)}

\* TalliedVote.Tally of value d, and the values that have a tally
Tally(m, d) == m.snap.weight[VotersFor(m, d)]
TalliedVotes(m) == {d \in Votes : VotersFor(m, d) # {}}

\* getMajorityVote: heaviest tally, the first in data-hash order among equals
IsMajorityVote(m, d) ==
    /\ d \in TalliedVotes(m)
    /\ \A e \in TalliedVotes(m) :
          \/ Tally(m, e) < Tally(m, d)
          \/ Tally(m, e) = Tally(m, d) /\ HashRank[d] <= HashRank[e]

\* mutant: MinVoterCount is not looked at
hasEnoughVotes_WeightOnly(m, d) == Tally(m, d) >= m.passing

hasEnoughVotes(m, d) ==
    /\ Tally(m, d) >= m.passing
    /\ Cardinality(Voted(m)) >= m.minVoterCount

\* mutant: a value that can just pass is given up
cannotWin_TooEarly(m, d) ==
    Tally(m, d) + m.snap.weight[m.snap.participants] - m.snap.weight[Voted(m)] <= m.passing

cannotWin(m, d) ==
    LET missing == m.snap.weight[m.snap.participants] - m.snap.weight[Voted(m)]
    IN  Tally(m, d) + missing < m.passing

isInGracePeriod(m) == height <= m.completedAt + m.gracePeriod

\* mutant: any vote counts as a correct one
HasVotedCorrectly_Any(m, v) == m.state = "Completed" /\ HasVoted(m, v)

HasVotedCorrectly(m, v) ==
    /\ m.state = "Completed"
    /\ \E d \in Votes : IsMajorityVote(m, d) /\ m.votes[v] = d

-----------------------------------------------------------------------------
Init ==
    /\ height = 1
    /\ count = 0
    /\ polls = [p \in PollIDs |-> NoPoll]
    /\ queue = {}
    /\ maintainers = Voters
    /\ confirmed = {}
    /\ closed = [p \in PollIDs |-> NotClosed]

\* PollBuilder.Build, and the expiry initializePoll gives it
Build(s, passing, n, g, expiresAt) ==
    [NoPoll EXCEPT !.state = "Pending", !.snap = s, !.passing = passing,
                   !.minVoterCount = n, !.gracePeriod = g, !.expiresAt = expiresAt]

(***************************************************************************)
(* x/evm initializePoll / initializePolls and x/vote InitializePoll: a     *)
(* snapshot of the current maintainers and the current parameters become   *)
(* the poll's, ValidateBasic and Build refuse what cannot pass.            *)
(***************************************************************************)
InitializePoll ==
    /\ count < PollBound
    /\ \E s \in Snapshots, t \in Thresholds, n \in MinVoterCounts,
          r \in LockingPeriods, g \in GracePeriods :
          LET passing == CalculateMinPassingWeight(s.bonded, t) IN
          /\ s.participants \subseteq maintainers
          /\ g < r
          /\ n <= Cardinality(s.participants)
          /\ s.weight[s.participants] >= passing
          /\ height + r <= MaxHeight
          /\ polls' = [polls EXCEPT ![count] = Build(s, passing, n, g, height + r)]
          /\ queue' = queue \cup {count}
    /\ count' = count + 1
    /\ UNCHANGED <<height, maintainers, confirmed, closed>>

\* evm voteHandler.HandleResult, on a branched store: an event that is already
\* confirmed makes SetConfirmedEvent fail and drops the whole result
HandleResult(result) ==
    confirmed' = IF result \cap confirmed = {} THEN confirmed \cup result ELSE confirmed

TallyVote(m, v, d, isLate) ==
    [m EXCEPT !.votes[v] = d, !.late = IF isLate THEN @ \cup {v} ELSE @]

\* checks that poll.Vote makes before it looks at the poll's state
MayVote(p, v) ==
    /\ polls[p].state # "NonExistent"
    /\ ~ HasVoted(polls[p], v)
    /\ polls[p].snap.weight[{v}] # 0

(***************************************************************************)
(* msgServer.Vote on a pending poll (voteBeforeCompletion): the vote is    *)
(* tallied and the poll completes, fails or stays pending. A completion    *)
(* hands the result to the vote handler, whose error only shows in the     *)
(* response.  The poll's expiry is not looked at.                          *)
(***************************************************************************)
voteBeforeCompletion(p, v, d) ==
    /\ MayVote(p, v)
    /\ polls[p].state = "Pending"
    /\ LET m == TallyVote(polls[p], v, d, FALSE) IN
       \E top \in Votes :
          /\ IsMajorityVote(m, top)
          /\ \/ /\ hasEnoughVotes(m, top)
                /\ polls' = [polls EXCEPT ![p] =
                      [m EXCEPT !.state = "Completed", !.result = top,
                                !.completedAt = height]]
                /\ HandleResult(top)
             \/ /\ ~ hasEnoughVotes(m, top)
                /\ cannotWin(m, top)
                /\ polls' = [polls EXCEPT ![p] = [m EXCEPT !.state = "Failed"]]
                /\ UNCHANGED confirmed
             \/ /\ ~ hasEnoughVotes(m, top)
                /\ ~ cannotWin(m, top)
                /\ polls' = [polls EXCEPT ![p] = m]
                /\ UNCHANGED confirmed
    /\ UNCHANGED <<height, count, queue, maintainers, closed>>

\* mutant: a late vote moves the completion, and with it the grace period
voteLate_Recompletes(p, v, d) ==
    /\ MayVote(p, v)
    /\ polls[p].state = "Completed"
    /\ isInGracePeriod(polls[p])
    /\ polls' = [polls EXCEPT ![p] = [TallyVote(@, v, d, TRUE) EXCEPT !.completedAt = height]]
    /\ UNCHANGED <<height, count, queue, maintainers, confirmed, closed>>

\* msgServer.Vote on a completed poll within its grace period
voteLate(p, v, d) ==
    /\ MayVote(p, v)
    /\ polls[p].state = "Completed"
    /\ isInGracePeriod(polls[p])
    /\ polls' = [polls EXCEPT ![p] = TallyVote(@, v, d, TRUE)]
    /\ UNCHANGED <<height, count, queue, maintainers, confirmed, closed>>

Vote ==
    \E p \in PollIDs, v \in Voters, d \in Votes :
        voteBeforeCompletion(p, v, d) \/ voteLate(p, v, d)

\* x/nexus RegisterChainMaintainer and DeregisterChainMaintainer (or the removal
\* of an inactive maintainer): who is judged, and who is in the next snapshot
RegisterChainMaintainer(v) ==
    /\ v \notin maintainers
    /\ maintainers' = maintainers \cup {v}
    /\ UNCHANGED <<height, count, polls, queue, confirmed, closed>>

RemoveChainMaintainer(v) ==
    /\ v \in maintainers
    /\ maintainers' = maintainers \ {v}
    /\ UNCHANGED <<height, count, polls, queue, confirmed, closed>>

(***************************************************************************)
(* What the end blocker does to voter v of a poll it closes: the calls to  *)
(* ReleaseRewards and ClearRewards.                                        *)
(***************************************************************************)
HandleExpiredPoll(m, v) ==
    IF v \in m.snap.participants /\ ~ HasVoted(m, v) THEN "cleared" ELSE "none"

HandleCompletedPoll(m, v) ==
    CASE v \notin m.snap.participants \cap maintainers -> "none"
      [] v \in m.snap.participants \cap maintainers /\ HasVotedCorrectly(m, v) -> "released"
      [] OTHER -> "cleared"

Verdict(m, v) ==
    CASE m.state = "Pending" -> HandleExpiredPoll(m, v)
      [] m.state = "Completed" -> HandleCompletedPoll(m, v)
      [] OTHER -> "none"

\* mutant: only polls that expire in this very block
Expired_Now == {p \in queue : height = polls[p].expiresAt}

(***************************************************************************)
(* handlePollsAtExpiry: the polls this end blocker handles are the first   *)
(* EndBlockerLimit expired ones of the queue.  The order of polls with the *)
(* same expiry (by the decimal string of the ID) is left open.             *)
(***************************************************************************)
Expired == {p \in queue : height >= polls[p].expiresAt}

PollsToHandle ==
    {H \in SUBSET Expired :
        /\ \E l \in EndBlockerLimits :
              Cardinality(H) = (IF Cardinality(Expired) < l THEN Cardinality(Expired) ELSE l)
        /\ \A p \in H, q \in Expired \ H : polls[p].expiresAt <= polls[q].expiresAt}

NextBlock == height' = IF height < MaxHeight THEN height + 1 ELSE height

\* mutant: a closed poll is dequeued and not deleted
EndBlocker_NoDelete ==
    /\ \E H \in PollsToHandle :
          /\ queue' = queue \ H
          /\ closed' = [p \in PollIDs |->
                IF p \in H
                THEN [poll |-> polls[p], verdict |-> [v \in Voters |-> Verdict(polls[p], v)]]
                ELSE closed[p]]
    /\ NextBlock
    /\ UNCHANGED <<count, polls, maintainers, confirmed>>

EndBlocker ==
    /\ \E H \in PollsToHandle :
          /\ queue' = queue \ H
          /\ polls' = [p \in PollIDs |-> IF p \in H THEN NoPoll ELSE polls[p]]
          /\ closed' = [p \in PollIDs |->
                IF p \in H
                THEN [poll |-> polls[p], verdict |-> [v \in Voters |-> Verdict(polls[p], v)]]
                ELSE closed[p]]
    /\ NextBlock
    /\ UNCHANGED <<count, maintainers, confirmed>>

\* ReleaseRewards returned an error: RunCached drops everything this end blocker
\* did, the polls it had already closed included, and the next block starts over
EndBlockerError ==
    /\ \E H \in PollsToHandle, p \in PollIDs, v \in Voters :
          p \in H /\ Verdict(polls[p], v) = "released"
    /\ NextBlock
    /\ UNCHANGED <<count, polls, queue, maintainers, confirmed, closed>>

Next ==
    \/ InitializePoll
    \/ Vote
    \/ \E v \in Voters : RegisterChainMaintainer(v)
    \/ \E v \in Voters : RemoveChainMaintainer(v)
    \/ EndBlocker
    \/ EndBlockerError

Spec == Init /\ [][Next]_vars

\* blocks keep coming, and a reward payout does not fail in every one of them
FairSpec == Spec /\ WF_vars(EndBlocker)
-----------------------------------------------------------------------------
(* Type invariant of the poll store, the queue and the history.            *)
TypeOK ==
    /\ height \in Heights
    /\ count \in 0 .. PollBound
    /\ polls \in [PollIDs -> PollType]
    /\ queue \in SUBSET PollIDs
    /\ maintainers \in SUBSET Voters
    /\ confirmed \in SUBSET (UNION Votes)
    /\ closed \in [PollIDs -> [poll : PollType, verdict : [Voters -> Verdicts]]]

(***************************************************************************)
(* The queue holds exactly the polls that exist, each with its snapshot:   *)
(* neither panic of handlePollsAtExpiry ("poll not found", "unexpected     *)
(* poll state") can happen, and no poll is left behind without an expiry.  *)
(***************************************************************************)
QueueMatchesPolls ==
    \A p \in PollIDs :
        /\ p \in queue <=> polls[p].state # "NonExistent"
        /\ p \in queue => p < count /\ polls[p].snap \in Snapshots
        /\ p \in queue => closed[p] = NotClosed

(***************************************************************************)
(* A completed poll's result has the passing weight and the poll its       *)
(* minimum number of voters from votes cast before completion alone: late  *)
(* votes, tallied into the same records, never make up a quorum.           *)
(***************************************************************************)
HasQuorum(m) ==
    /\ m.result \in Votes
    /\ m.snap.weight[VotersFor(m, m.result) \ m.late] >= m.passing
    /\ Cardinality(Voted(m) \ m.late) >= m.minVoterCount

ResultHasQuorum ==
    \A p \in PollIDs : polls[p].state = "Completed" => HasQuorum(polls[p])

(***************************************************************************)
(* A poll is pending only while it can still pass: some voter is missing,  *)
(* and some value reaches the passing weight if all missing voters choose  *)
(* it.  In particular a poll everybody voted in is decided.                *)
(***************************************************************************)
CouldReach(m, d) ==
    m.snap.weight[VotersFor(m, d) \cup (m.snap.participants \ Voted(m))] >= m.passing

CanStillPass(m) ==
    /\ m.snap.participants \ Voted(m) # {}
    /\ \E d \in Votes : CouldReach(m, d)

PendingCanStillPass ==
    \A p \in PollIDs : polls[p].state = "Pending" => CanStillPass(polls[p])

(***************************************************************************)
(* A failed poll could not have completed: no value at all, voted for or   *)
(* not, would have the passing weight with every missing vote added.       *)
(***************************************************************************)
CouldNotPass(m) == \A d \in Votes : ~ CouldReach(m, d)

FailedCouldNotPass ==
    \A p \in PollIDs : polls[p].state = "Failed" => CouldNotPass(polls[p])

(***************************************************************************)
(* cannotWin is exact: a poll fails as soon as no value can pass any more, *)
(* and not before, in whatever order the votes came.                       *)
(***************************************************************************)
FailsExactly == PendingCanStillPass /\ FailedCouldNotPass

(***************************************************************************)
(* HandleCompletedPoll judges voters by the majority at closing time,      *)
(* which counts late votes, not by the stored result.  As long as every    *)
(* passing weight is more than half of the snapshot's bonded weight, the   *)
(* two agree: a voter for the result is never penalised, and a voter for   *)
(* anything else or a missing voter is never rewarded.                     *)
(***************************************************************************)
JudgedByResult(m, verdict) ==
    \A v \in Voters :
        /\ m.votes[v] = m.result => verdict[v] # "cleared"
        /\ m.votes[v] # m.result => verdict[v] # "released"

VerdictMatchesResult ==
    \A p \in PollIDs : closed[p].poll.state = "Completed" =>
        JudgedByResult(closed[p].poll, closed[p].verdict)

(***************************************************************************)
(* A decision is final: a completed poll keeps its result and completion   *)
(* height and a failed one stays failed until the end blocker closes it,   *)
(* whatever votes still arrive.                                            *)
(***************************************************************************)
DecisionsAreFinal ==
    [][\A p \in PollIDs : polls[p].state \in {"Completed", "Failed"} =>
          \/ polls'[p].state = "NonExistent" /\ p \notin queue'
          \/ /\ polls'[p].state = polls[p].state
             /\ polls'[p].result = polls[p].result
             /\ polls'[p].completedAt = polls[p].completedAt]_vars

(***************************************************************************)
(* Every poll is closed eventually, although an end blocker handles only   *)
(* EndBlockerLimit polls and an error in one of them undoes the others.    *)
(***************************************************************************)
EveryPollCloses ==
    \A p \in PollIDs : p \in queue ~> p \notin queue
=============================================================================
