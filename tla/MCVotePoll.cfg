CONSTANTS
    a = a
    b = b
    c = c
    e1 = e1
    e2 = e2
    NoVote = NoVote
    Voters <- MCVoters
    Votes <- MCVotes
    HashRank <- MCHashRank
    Snapshots <- MCSnapshots
    Thresholds <- MCThresholds
    MinVoterCounts <- MCMinVoterCounts
    LockingPeriods <- MCLockingPeriods
    GracePeriods <- MCGracePeriods
    EndBlockerLimits <- MCEndBlockerLimits
    PollBound = 2
    MaxHeight = 5
SPECIFICATION MCSpec
INVARIANTS
    ResultHasQuorum
    FailsExactly
    VerdictMatchesResult
    QueueMatchesPolls
PROPERTIES
    DecisionsAreFinal
    EveryPollCloses
