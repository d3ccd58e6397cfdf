CONSTANTS
    a = a
    b = b
    c = c
    k1 = k1
    NoSnapshot = NoSnapshot
    Validators <- Three
    KeyIDs <- MCKeyIDs
    Snapshots <- GenesisSnapshots
    ParamValues <- GenesisParams
    GenesisKeys <- OneKey
    OptOuts <- NoOptOuts
    SigBound = 3
    MaxHeight = 5
SPECIFICATION RestartSpec
INVARIANT
    NextSigIDFree
