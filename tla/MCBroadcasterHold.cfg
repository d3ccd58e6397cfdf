SPECIFICATION FairSpec
CONSTANTS
    a = a
    b = b
    c1 = c1
    c2 = c2
    c3 = c3
    Msgs = {a, b}
    Fees = {0, 3}
    Balances = {0, 3}
    Callers = {c1, c2, c3}
    MsgsOf <- MCMsgsOf
    Expiring = {c3}
    BatchThreshold = 2
    BatchSizeLimit = 3
    MaxRetries = 1
    NoTx = NoTx
CHECK_DEADLOCK FALSE
INVARIANT
    NeverHeld
