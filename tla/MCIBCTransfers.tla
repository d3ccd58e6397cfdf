---------------------------- MODULE MCIBCTransfers ----------------------------
EXTENDS IBCTransfers

CONSTANTS axl, cos, m1

MCRecipients == {axl, cos}
MCChainOf == [r \in MCRecipients |-> IF r = axl THEN "axelarnet" ELSE "cosmos"]
MCMessages == {m1}
MCReceipts == {[amount |-> 2, fee |-> 1]}
MCFeeInfos == {[rate |-> 50, min |-> 1, max |-> 2], [rate |-> 50, min |-> 6, max |-> 7]}
=============================================================================
