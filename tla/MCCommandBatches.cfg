CONSTANTS
    v = v
    Requests <- Four
    Keys <- Three
    NoKeyChosen = 0
    Signers <- OneSigner
    Enough <- AnySigner
    CommandIDs <- Three
    MaxGasCost <- Costs
    GasLimit = 2
    BatchIDs <- Three
    FreshIDs <- FirstID
    ActiveEpochCount = 2
    FailureBound = 1
SPECIFICATION BatchesSpec
INVARIANTS
    CommandsBatched
    BatchesChained
    SigningMatches
    KeysStayUsable
PROPERTIES
    CommandsSigned
