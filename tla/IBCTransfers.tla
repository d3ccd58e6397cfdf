----------------------------- MODULE IBCTransfers -----------------------------
(***************************************************************************)
(* Token transfers of x/nexus and x/axelarnet: deposits become transfers,  *)
(* transfers are paid out on Axelar or sent over IBC, and everything that  *)
(* is not under way is locked in the escrow of the asset.  General         *)
(* messages, with and without a token, share the account, the escrow and   *)
(* the channel with the transfers.                                         *)
(*                                                                         *)
(* One asset, which is native to Axelar (and so also the one of which a    *)
(* message without a token takes its dust), one cosmos chain, one channel. *)
(* Chains, paths and the asset are registered, Axelar stays activated.     *)
(***************************************************************************)
EXTENDS Integers, Sequences, FiniteSets, FiniteSetsExt, Functions

CONSTANTS
    Recipients,       \* recipients of transfers
    ChainOf,          \* chain of every recipient, "axelarnet" or "cosmos"
    Messages,         \* approved messages to the cosmos chain
    TokenAmounts,     \* token amounts of messages, zero for one without token
    Deposits,         \* amounts that are deposited
    Receipts,         \* amounts and fees of the messages received
    FeeInfos,         \* fee infos: rate in percent, min and max of both chains
    TransferLimit,    \* TransferLimit and EndBlockerLimit of x/axelarnet
    EndBlockerLimit,
    NonceBound,       \* bound on the number of transfers
    FailureBound,     \* bound on failed sends, failed packets and timeouts
    OutsideBound      \* bound on messages received and packets sent by others

ASSUME TransfersAssumption ==
    /\ ChainOf \in [Recipients -> {"axelarnet", "cosmos"}]
    /\ IsFiniteSet(Messages) /\ TokenAmounts \subseteq Nat
    /\ Deposits \subseteq Nat \ {0}
    /\ \A p \in Receipts : p.amount \in Nat \ {0} /\ p.fee \in 0..p.amount
    /\ \A f \in FeeInfos : f.rate \in 0..100 /\ f.min \in 0..f.max /\ f.max \in Nat
    /\ TransferLimit \in Nat \ {0} /\ EndBlockerLimit \in Nat \ {0}
    /\ {NonceBound, FailureBound, OutsideBound} \subseteq Nat

VARIABLES
    transfers,     \* cross-chain transfers of x/nexus, by ID
    fees,          \* transfer fees to be collected
    feeInfo,       \* fee info of the route
    collector,     \* a fee collector is registered
    activated,     \* activated chains
    status,        \* status of the IBC transfer with the ID of a transfer
    queue,         \* IBC transfers to be sent
    message,       \* status of every message
    tokenOf,       \* token amount of every message
    nextSeq,       \* next sequence of the channel
    packets,       \* amounts of the packets in flight
    transferOf,    \* transfers of the packets in flight
    messageOf,     \* messages of the packets in flight
    escrow,        \* balance of the escrow address of the asset
    account,       \* balance of AxelarIBCAccount
    owed,          \* history: what every recipient is still to receive
    held,          \* history: escrowed tokens of received messages, and dust
    stray,         \* history: what received messages leave in the account
    failures,      \* number of failures, for FailureBound
    outside        \* number of messages received and packets of others

nexusVars == <<transfers, fees, feeInfo, collector, activated>>
ibcVars == <<status, queue, message, tokenOf>>
channelVars == <<nextSeq, packets, transferOf, messageOf>>
bankVars == <<escrow, account>>
historyVars == <<owed, held, stray>>
boundVars == <<failures, outside>>
vars == <<nexusVars, ibcVars, channelVars, bankVars, historyVars, boundVars>>

IDs == 1..NonceBound

Plus(f, x, y) == [z \in DOMAIN f \cup {x} |-> IF z = x THEN y ELSE f[z]]
Minus(f, x) == Restrict(f, DOMAIN f \ {x})

\* the n lowest elements of a set of IDs
Lowest(n, S) == {i \in S : Cardinality({j \in S : j < i}) < n}

amounts == [i \in DOMAIN transfers |-> transfers[i].amount]
Amount(S) == SumFunctionOnSet(amounts, S)

-----------------------------------------------------------------------------
(* Transfers of x/nexus.                                                   *)

InState(r, state) == {i \in DOMAIN transfers : transfers[i].to = r /\ transfers[i].state = state}
ForChain(chain, state) == UNION {InState(r, state) : r \in {s \in Recipients : ChainOf[s] = chain}}

\* the transfer found first, if any
getTransfer(r, state) == Lowest(1, InState(r, state))

\* mutant: the fee is not limited by the maximum
ComputeTransferFee_NoMax(amount) == Max({feeInfo.min, (amount * feeInfo.rate) \div 100})

ComputeTransferFee(amount) ==
    Min({feeInfo.max, Max({feeInfo.min, (amount * feeInfo.rate) \div 100})})

SetStates(S, state) ==
    [i \in DOMAIN transfers |-> IF i \in S THEN [transfers[i] EXCEPT !.state = state] ELSE transfers[i]]

\* mutant: the transfers stay
deleteTransfers_Kept(S) == transfers

deleteTransfers(S) == SetStates(S, "deleted")

setNewTransfer(r, amount, state, merged) ==
    transfers' = Append(deleteTransfers(merged), [to |-> r, amount |-> amount, state |-> state])

\* a deposit, which its caller has locked in the escrow
EnqueueTransfer(r, deposit) ==
    LET below == getTransfer(r, "insufficient")
        amount == deposit + Amount(below)
        fee == ComputeTransferFee(amount)
        previous == getTransfer(r, "pending")
    IN  /\ Len(transfers) < NonceBound
        /\ escrow' = escrow + deposit
        /\ IF fee >= amount
           THEN /\ setNewTransfer(r, amount, "insufficient", below)
                /\ owed' = [owed EXCEPT ![r] = @ + deposit]
                /\ UNCHANGED fees
           ELSE /\ setNewTransfer(r, amount - fee + Amount(previous), "pending", below \cup previous)
                /\ owed' = [owed EXCEPT ![r] = @ + deposit - fee]
                /\ fees' = fees + fee
        /\ UNCHANGED <<feeInfo, collector, activated, ibcVars, channelVars, account, held, stray, boundVars>>

RegisterAssetFee(info) ==
    /\ info # feeInfo
    /\ feeInfo' = info
    /\ UNCHANGED <<transfers, fees, collector, activated, ibcVars, channelVars, bankVars, historyVars, boundVars>>

RegisterFeeCollector ==
    /\ ~collector
    /\ collector' = TRUE
    /\ UNCHANGED <<transfers, fees, feeInfo, activated, ibcVars, channelVars, bankVars, historyVars, boundVars>>

ActivateChain(chain) ==
    /\ chain \notin activated
    /\ activated' = activated \cup {chain}
    /\ UNCHANGED <<transfers, fees, feeInfo, collector, ibcVars, channelVars, bankVars, historyVars, boundVars>>

DeactivateChain(chain) ==
    /\ chain \in activated
    /\ activated' = activated \ {chain}
    /\ UNCHANGED <<transfers, fees, feeInfo, collector, ibcVars, channelVars, bankVars, historyVars, boundVars>>

\* a page of pending transfers, none when the chain is deactivated
GetTransfersForChainPaginated(chain) ==
    IF chain \in activated THEN Lowest(TransferLimit, ForChain(chain, "pending")) ELSE {}

\* mutant: a transfer that could not be paid is archived
PayOut_Archived(paid, page) == SetStates(page, "archived")

\* ArchivePendingTransfer for the transfers paid, MarkTransferAsFailed for the others
PayOut(paid, page) ==
    [i \in DOMAIN transfers |->
        IF i \in page
        THEN [transfers[i] EXCEPT !.state = IF i \in paid THEN "archived" ELSE "failed"]
        ELSE transfers[i]]

\* what the escrow can release for a collector after the payments
Collectable(spent) == IF collector /\ fees <= escrow - spent THEN fees ELSE 0

\* the recipient's address is invalid, or the bank does not pay, for some transfers
ExecutePendingTransfers ==
    LET page == GetTransfersForChainPaginated("axelarnet")
    IN  /\ page # {}
        /\ \E paid \in SUBSET page :
              /\ Amount(paid) <= escrow
              /\ transfers' = PayOut(paid, page)
              /\ escrow' = escrow - Amount(paid) - Collectable(Amount(paid))
              /\ fees' = fees - Collectable(Amount(paid))
              /\ owed' = [r \in Recipients |-> owed[r] - Amount({i \in paid : transfers[i].to = r})]
        /\ UNCHANGED <<feeInfo, collector, activated, ibcVars, channelVars, account, held, stray, boundVars>>

-----------------------------------------------------------------------------
(* IBC transfers.                                                          *)

\* the transfers of a page that the escrow can release, in the order of their IDs
Released(page, S) ==
    \A i \in page : i \in S <=> transfers[i].amount + Amount({j \in S : j < i}) <= escrow

\* EnqueueIBCTransfer panics when the ID is taken
RouteIBCTransfers ==
    \E routed \in SUBSET GetTransfersForChainPaginated("cosmos") :
        /\ Released(GetTransfersForChainPaginated("cosmos"), routed)
        /\ routed # {}
        /\ \A i \in routed : status[i] = "none"
        /\ transfers' = SetStates(routed, "archived")
        /\ status' = [i \in IDs |-> IF i \in routed THEN "pending" ELSE status[i]]
        /\ queue' = queue \cup routed
        /\ escrow' = escrow - Amount(routed)
        /\ account' = account + Amount(routed)
        /\ UNCHANGED <<fees, feeInfo, collector, activated, message, tokenOf, channelVars, historyVars, boundVars>>

\* sequence that a transfer of a batch is sent with
SequenceIn(i, batch) == nextSeq + Cardinality({j \in batch : j < i})

\* mutant: the packets are mapped with the sequence after the one they are sent with
SetSeqIDMapping_Late(batch) ==
    LET sequences == {SequenceIn(i, batch) + 1 : i \in batch}
    IN  transferOf' = [s \in DOMAIN transferOf \cup sequences |->
                          IF s \in sequences THEN CHOOSE i \in batch : s = SequenceIn(i, batch) + 1
                                             ELSE transferOf[s]]

SetSeqIDMapping(batch) ==
    LET sequences == {SequenceIn(i, batch) : i \in batch}
    IN  transferOf' = [s \in DOMAIN transferOf \cup sequences |->
                          IF s \in sequences THEN CHOOSE i \in batch : s = SequenceIn(i, batch)
                                             ELSE transferOf[s]]

\* the batch is sent over the channel, one packet after the other
SendIBCTransfers(batch) ==
    LET sequences == {SequenceIn(i, batch) : i \in batch}
    IN  /\ SetSeqIDMapping(batch)
        /\ nextSeq' = nextSeq + Cardinality(batch)
        /\ packets' = [s \in DOMAIN packets \cup sequences |->
                          IF s \in sequences
                          THEN transfers[CHOOSE i \in batch : s = SequenceIn(i, batch)].amount
                          ELSE packets[s]]

\* mutant: the tokens of a transfer that could not be sent stay in the account
Relock_Forgotten(failed) == 0

\* what goes back to the escrow for transfers that could not be sent
Relock(failed) == Amount(failed)

\* the end blocker panics, and the block leaves the queue alone, unless the account
\* can pay for all transfers and those that fail are pending
EndBlocker ==
    LET taken == Lowest(EndBlockerLimit, queue)
    IN  /\ taken # {}
        /\ Amount(taken) <= account
        /\ \E failed \in SUBSET taken :
              /\ \A i \in failed : status[i] = "pending"
              /\ failures + Cardinality(failed) <= FailureBound
              /\ failures' = failures + Cardinality(failed)
              /\ SendIBCTransfers(taken \ failed)
              /\ status' = [i \in IDs |-> IF i \in failed THEN "failed" ELSE status[i]]
              /\ escrow' = escrow + Relock(failed)
              /\ account' = account - Amount(taken \ failed) - Relock(failed)
        /\ queue' = queue \ taken
        /\ UNCHANGED <<nexusVars, message, tokenOf, messageOf, historyVars, outside>>

RetryIBCTransfer(i) ==
    /\ status[i] = "failed"
    /\ "cosmos" \in activated
    /\ transfers[i].amount <= escrow
    /\ escrow' = escrow - transfers[i].amount
    /\ SendIBCTransfers({i})
    /\ status' = [status EXCEPT ![i] = "pending"]
    /\ UNCHANGED <<nexusVars, queue, message, tokenOf, messageOf, account, historyVars, boundVars>>

-----------------------------------------------------------------------------
(* Messages, and packets of other users of the channel.                    *)

Dust == 1
CoinOf(m) == IF tokenOf[m] = 0 THEN Dust ELSE tokenOf[m]

\* escrowAssetToMessageSender: the token comes from the escrow, dust from the sender
Unescrowed(m) == tokenOf[m]

\* RouteMessage with the payload; the coin passes through the account
SendMessage(m) ==
    /\ message[m] \in {"approved", "failed"}
    /\ "cosmos" \in activated
    /\ Unescrowed(m) <= escrow
    /\ escrow' = escrow - Unescrowed(m)
    /\ message' = [message EXCEPT ![m] = "processing"]
    /\ messageOf' = Plus(messageOf, nextSeq, m)
    /\ packets' = Plus(packets, nextSeq, CoinOf(m))
    /\ nextSeq' = nextSeq + 1
    /\ UNCHANGED <<nexusVars, status, queue, tokenOf, transferOf, account, historyVars, boundVars>>

\* an IBC transfer that is not sent by Axelar, of other funds
SendOther ==
    /\ outside < OutsideBound
    /\ outside' = outside + 1
    /\ packets' = Plus(packets, nextSeq, 0)
    /\ nextSeq' = nextSeq + 1
    /\ UNCHANGED <<nexusVars, ibcVars, transferOf, messageOf, bankVars, historyVars, failures>>

\* deductFee, and the token of a message with token is locked; a message without one
\* leaves its token in the account
OnRecvMessage(amount, fee, withToken) ==
    /\ "cosmos" \in activated
    /\ outside < OutsideBound
    /\ outside' = outside + 1
    /\ IF withToken
       THEN /\ fee < amount
            /\ escrow' = escrow + (amount - fee)
            /\ held' = held + (amount - fee)
            /\ UNCHANGED <<account, stray>>
       ELSE /\ account' = account + (amount - fee)
            /\ stray' = stray + (amount - fee)
            /\ UNCHANGED <<escrow, held>>
    /\ UNCHANGED <<nexusVars, ibcVars, channelVars, owed, failures>>

-----------------------------------------------------------------------------
(* Acknowledgements and timeouts.                                          *)

SetTransferCompleted(s) ==
    LET i == transferOf[s]
    IN  /\ status[i] = "pending"
        /\ status' = [status EXCEPT ![i] = "completed"]
        /\ owed' = [owed EXCEPT ![transfers[i].to] = @ - packets[s]]
        /\ transferOf' = Minus(transferOf, s)
        /\ UNCHANGED <<message, messageOf>>

SetMessageExecuted(s) ==
    /\ message[messageOf[s]] = "processing"
    /\ message' = [message EXCEPT ![messageOf[s]] = "executed"]
    /\ messageOf' = Minus(messageOf, s)
    /\ UNCHANGED <<status, owed, transferOf>>

IsTransfer(s) == s \in DOMAIN transferOf
IsMessage(s) == s \in DOMAIN messageOf /\ ~IsTransfer(s)

setRoutedPacketCompleted(s) ==
    \/ IsTransfer(s) /\ SetTransferCompleted(s)
    \/ IsMessage(s) /\ SetMessageExecuted(s)
    \/ /\ ~IsTransfer(s) /\ ~IsMessage(s)
       /\ UNCHANGED <<status, message, owed, transferOf, messageOf>>

\* mutant: the status stays pending
SetTransferFailed_Pending(s) ==
    LET i == transferOf[s]
    IN  /\ status[i] = "pending"
        /\ escrow' = escrow + transfers[i].amount
        /\ account' = account + packets[s] - transfers[i].amount
        /\ transferOf' = Minus(transferOf, s)
        /\ UNCHANGED <<status, message, messageOf, held>>

\* the transfer module has refunded the packet to the account, from where it is locked
SetTransferFailed(s) ==
    LET i == transferOf[s]
    IN  /\ status[i] = "pending"
        /\ status' = [status EXCEPT ![i] = "failed"]
        /\ escrow' = escrow + transfers[i].amount
        /\ account' = account + packets[s] - transfers[i].amount
        /\ transferOf' = Minus(transferOf, s)
        /\ UNCHANGED <<message, messageOf, held>>

SetMessageFailed(s) ==
    /\ message[messageOf[s]] = "processing"
    /\ message' = [message EXCEPT ![messageOf[s]] = "failed"]
    /\ escrow' = escrow + packets[s]
    /\ held' = held + (packets[s] - tokenOf[messageOf[s]])
    /\ messageOf' = Minus(messageOf, s)
    /\ UNCHANGED <<status, transferOf, account>>

setRoutedPacketFailed(s) ==
    \/ IsTransfer(s) /\ SetTransferFailed(s)
    \/ IsMessage(s) /\ SetMessageFailed(s)
    \/ /\ ~IsTransfer(s) /\ ~IsMessage(s)
       /\ UNCHANGED <<status, message, transferOf, messageOf, bankVars, held>>

OnAcknowledgementPacket(s) ==
    /\ setRoutedPacketCompleted(s)
    /\ packets' = Minus(packets, s)
    /\ UNCHANGED <<nexusVars, queue, tokenOf, nextSeq, bankVars, held, stray, boundVars>>

\* also an acknowledgement with an error
OnTimeoutPacket(s) ==
    /\ failures < FailureBound
    /\ failures' = failures + 1
    /\ setRoutedPacketFailed(s)
    /\ packets' = Minus(packets, s)
    /\ UNCHANGED <<nexusVars, queue, tokenOf, nextSeq, owed, stray, outside>>

-----------------------------------------------------------------------------
Init ==
    /\ transfers = <<>> /\ fees = 0 /\ feeInfo \in FeeInfos /\ collector = FALSE
    /\ activated = {"axelarnet", "cosmos"}
    /\ status = [i \in IDs |-> "none"] /\ queue = {}
    /\ message = [m \in Messages |-> "approved"] /\ tokenOf \in [Messages -> TokenAmounts]
    /\ nextSeq = 1 /\ packets = <<>> /\ transferOf = <<>> /\ messageOf = <<>>
    /\ escrow = SumFunctionOnSet(tokenOf, Messages) /\ account = 0
    /\ owed = [r \in Recipients |-> 0] /\ held = 0 /\ stray = 0
    /\ failures = 0 /\ outside = 0

Next ==
    \/ \E r \in Recipients, deposit \in Deposits : EnqueueTransfer(r, deposit)
    \/ \E info \in FeeInfos : RegisterAssetFee(info)
    \/ RegisterFeeCollector
    \/ ActivateChain("cosmos") \/ DeactivateChain("cosmos")
    \/ ExecutePendingTransfers
    \/ RouteIBCTransfers
    \/ EndBlocker
    \/ \E i \in IDs : RetryIBCTransfer(i)
    \/ \E m \in Messages : SendMessage(m)
    \/ SendOther
    \/ \E p \in Receipts, withToken \in BOOLEAN : OnRecvMessage(p.amount, p.fee, withToken)
    \/ \E s \in DOMAIN packets : OnAcknowledgementPacket(s) \/ OnTimeoutPacket(s)

\* every block has an end blocker, relayers settle packets, and the messages that move
\* transfers on can be sent by anybody
Fairness ==
    /\ WF_vars(EndBlocker)
    /\ WF_vars(RouteIBCTransfers)
    /\ WF_vars(\E i \in IDs : RetryIBCTransfer(i))
    /\ WF_vars(\E s \in DOMAIN packets : OnAcknowledgementPacket(s) \/ OnTimeoutPacket(s))

Spec == Init /\ [][Next]_vars
FairSpec == Spec /\ Fairness

-----------------------------------------------------------------------------
(* Properties.                                                             *)

Claimed(i) == transfers[i].state \in {"insufficient", "pending", "failed"}

\* UnlockTo is expected to succeed whenever a transfer is paid out, routed or retried, a
\* message is sent or the fees are collected: the escrow holds exactly what is claimed
\* by open and failed transfers, failed IBC transfers, fees, messages with token that
\* are not on their way, the tokens of received messages, and the dust of failed ones.
EscrowBacksClaims ==
    escrow = Amount({i \in DOMAIN transfers : Claimed(i) \/ status[i] = "failed"})
             + fees + held
             + SumFunctionOnSet(tokenOf, {m \in Messages : message[m] \in {"approved", "failed"}})

\* The end blocker panics, and would do so in every later block, if the account could
\* not pay for the transfers of the queue or if one that fails were not pending: the
\* account holds exactly the queued transfers and what received messages leave there.
AccountBacksQueue ==
    /\ account = Amount(queue) + stray
    /\ \A i \in queue : status[i] = "pending"

\* SendIBCTransfer maps the next sequence of the channel before it sends the packet, and
\* others send packets on the channel: an IBC transfer is pending exactly while it is
\* queued or one packet with its amount is in flight, mapped to it and to no message.
PendingHasPacket ==
    /\ DOMAIN transferOf \cap DOMAIN messageOf = {}
    /\ \A s \in DOMAIN transferOf :
          s \in DOMAIN packets /\ packets[s] = transfers[transferOf[s]].amount
    /\ \A i \in IDs :
          LET flying == {s \in DOMAIN transferOf : transferOf[s] = i}
          IN  /\ Cardinality(flying) = IF status[i] = "pending" /\ i \notin queue THEN 1 ELSE 0
              /\ i \in queue => status[i] = "pending"

\* Merging, fees, failures and retries neither lose nor duplicate funds: what a
\* recipient is still to receive is what the open transfers to the recipient hold, and
\* deposits are merged into at most one transfer below the fees and one pending one.
RecipientsOwed ==
    \A r \in Recipients :
        /\ owed[r] = Amount({i \in DOMAIN transfers : transfers[i].to = r
                                /\ (Claimed(i) \/ status[i] \in {"pending", "failed"})})
        /\ \A state \in {"insufficient", "pending"} : Cardinality(InState(r, state)) <= 1

\* The fee charged for a deposit, merged with earlier ones or not, lies between the
\* minimum and the maximum in force, as ComputeTransferFee documents.
FeesWithinBounds ==
    [][fees' > fees => fees' - fees \in feeInfo.min..feeInfo.max]_vars

\* If the cosmos chain stays activated from some point on and sends and packets fail
\* finitely often, all transfers to it are delivered in the end.
Delivered ==
    \A i \in DOMAIN transfers :
        /\ ChainOf[transfers[i].to] = "cosmos" => transfers[i].state # "pending"
        /\ status[i] \in {"none", "completed"}

TransfersArrive == <>[]("cosmos" \in activated) => <>[]Delivered
=============================================================================
