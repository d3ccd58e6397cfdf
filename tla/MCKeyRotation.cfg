CONSTANTS
    k1 = k1
    k2 = k2
    k3 = k3
    k4 = k4
    k5 = k5
    c1 = c1
    c2 = c2
    Chains <- TwoChains
    KeyIDs <- FiveKeys
    ActiveEpochCounts <- OneOrTwo
    ParamChanges <- Lowered
    EpochBound = 4
SYMMETRY Symmetry
SPECIFICATION RotationSpec
CHECK_DEADLOCK FALSE
INVARIANTS
    KeysReady
    OneUsePerKey
    ActiveKeysFound
    GenesisKeepsRotations
