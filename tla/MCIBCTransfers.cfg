SPECIFICATION FairSpec
CONSTANTS
    axl = axl
    cos = cos
    m1 = m1
    Recipients <- MCRecipients
    ChainOf <- MCChainOf
    Messages <- MCMessages
    TokenAmounts = {0, 2}
    Deposits = {6}
    Receipts <- MCReceipts
    FeeInfos <- MCFeeInfos
    TransferLimit = 1
    EndBlockerLimit = 2
    NonceBound = 2
    FailureBound = 2
    OutsideBound = 1
INVARIANTS
    EscrowBacksClaims
    AccountBacksQueue
    PendingHasPacket
    RecipientsOwed
PROPERTIES
    FeesWithinBounds
    TransfersArrive
