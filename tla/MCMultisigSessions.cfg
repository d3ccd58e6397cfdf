CONSTANTS
    a = a
    b = b
    c = c
    k1 = k1
    NoSnapshot = NoSnapshot
    Validators <- Three
    KeyIDs <- MCKeyIDs
    Snapshots <- MCSnapshots
    ParamValues <- MCParams
    GenesisKeys <- NoKeys
    OptOuts <- MCOptOuts
    SigBound = 2
    MaxHeight = 5
SPECIFICATION SessionsSpec
INVARIANTS
    KeysCanSign
    IndexMatchesSessions
    CallbackJustified
PROPERTIES
    KeygensEnd
    ImplementsSigningService
