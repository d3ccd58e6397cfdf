SPECIFICATION MaintainersSpec
CONSTANTS
    v1 = v1
    v2 = v2
    p1 = p1
    p2 = p2
    Validators <- MCValidators
    Proxies <- MCProxies
    Weight <- MCWeight
    OtherWeight = 1
    ActivationThreshold <- Half
    VotingThreshold <- Half
    MissingThreshold <- Half
    IncorrectThreshold <- Third
    InitialSize = 1
    OldMaxSize = 4
    MaxSize = 3
    Window = 2
    MarkBound = 4
SYMMETRY Symmetry
INVARIANTS
    ProxiesOneToOne
    CountsMatchVotes
    RewardsOfMaintainers
PROPERTIES
    RemovedForCause
