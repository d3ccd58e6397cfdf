------------------------------- MODULE Refunds -------------------------------
(***************************************************************************)
(* What a transaction of a proxy does on chain: the ante handlers take its *)
(* fee and record what may be refunded of it, the messages run one after   *)
(* the other, as they are or in a batch, and every message that succeeds   *)
(* is refunded from the fee collector (x/ante, x/auxiliary, x/reward).     *)
(*                                                                         *)
(* One proxy, which pays its own fees, and which is registered by a        *)
(* validator.  Whether the message inside a RefundMsgRequest succeeds is   *)
(* arbitrary, also when the same message has run before.                   *)
(***************************************************************************)
EXTENDS Integers, Sequences, FiniteSetsExt

CONSTANTS
    Msgs,        \* RefundMsgRequests, equal when their content is
    Fees,        \* fees of transactions
    Balances     \* balances of the fee collector before a transaction

\* vald has a gas price by default; with a price of zero transactions have no fee
ASSUME RefundsAssumption == IsFiniteSet(Msgs) /\ Fees \subseteq Nat /\ Balances \subseteq Nat

VARIABLES
    sequence,     \* sequence of the proxy's account
    pending,      \* pending refund of every request, zero when there is none
    kept,         \* history: the fees of all transactions without what was refunded
    exceeded      \* history: a fee did not cover the refunds of its transaction

refundVars == <<sequence, pending, kept, exceeded>>

\* the part of the fee of the k-th of n messages, the remainder goes to the first
splitFeesEvenly(fee, n, k) == (fee \div n) + IF k = 1 THEN fee % n ELSE 0

\* mutant: a pending refund is not overwritten
SetPendingRefund_Kept(stored, msgs, fee, msg) ==
    IF msg \in Range(msgs) /\ stored[msg] = 0 THEN splitFeesEvenly(fee, Len(msgs), 1) ELSE stored[msg]

\* of several equal requests the last one counts
SetPendingRefund(stored, msgs, fee, msg) ==
    IF msg \in Range(msgs)
    THEN splitFeesEvenly(fee, Len(msgs), CHOOSE k \in DOMAIN msgs :
             msgs[k] = msg /\ \A l \in DOMAIN msgs : msgs[l] = msg => l <= k)
    ELSE stored[msg]

\* The state in which the messages run: the ante handlers are through.  Without a fee
\* nothing is recorded, and what is pending of earlier transactions stays.
AnteHandle(msgs, fee, balance) ==
    [pending |-> IF fee = 0 THEN pending ELSE [msg \in Msgs |-> SetPendingRefund(pending, msgs, fee, msg)],
     collector |-> balance + fee, failed |-> {}, unpaid |-> FALSE]

\* the inner message has run; the refund is paid and deleted
RefundMsg(state, msg) ==
    [state EXCEPT !.collector = @ - state.pending[msg], !.pending = [@ EXCEPT ![msg] = 0]]

\* a message fails when its inner message does or when the refund cannot be paid
RunMsg(state, msgs, k, bad) ==
    CASE k \in bad -> [state EXCEPT !.failed = @ \cup {k}]
      [] k \notin bad /\ state.pending[msgs[k]] <= state.collector -> RefundMsg(state, msgs[k])
      [] OTHER -> [state EXCEPT !.failed = @ \cup {k}, !.unpaid = TRUE]

\* all messages in their order, in a batch each on a cached store of its own
RunMsgs(state, msgs, bad) ==
    LET run[k \in 0..Len(msgs)] == IF k = 0 THEN state ELSE RunMsg(run[k - 1], msgs, k, bad)
    IN  run[Len(msgs)]

Outcomes(msgs) == [code : {"ok", "gas"}] \cup [code : {"msg"}, index : DOMAIN msgs]

\* A transaction with the messages, of which those in bad do not succeed; balance is what
\* the fee collector holds of the block's other fees.  The outcome is "ok", the index of
\* a failed message, or "gas".  A batch succeeds whatever its messages do.
DeliverTx(msgs, batched, fee, bad, balance, outcome) ==
    LET ante == AnteHandle(msgs, fee, balance)
        end == RunMsgs(ante, msgs, bad)
        Commit(state) == pending' = state.pending /\ kept' = kept + state.collector - balance
    IN  /\ sequence' = sequence + 1
        /\ exceeded' = (exceeded \/ (fee > 0 /\ (end.unpaid \/ end.collector < balance)))
        /\ \/ outcome = [code |-> "ok"] /\ (batched \/ end.failed = {}) /\ Commit(end)
           \/ /\ ~batched /\ end.failed # {}
              /\ outcome = [code |-> "msg", index |-> Min(end.failed)]
              /\ Commit(ante)
           \/ outcome = [code |-> "gas"] /\ Commit(ante)

RefundsInit == sequence = 1 /\ pending = [msg \in Msgs |-> 0] /\ kept = 0 /\ exceeded = FALSE

-----------------------------------------------------------------------------
\* Pending refunds are found by the content of the request, and one recorded for a
\* transaction that fails stays.  A transaction with a fee, whatever it repeats, whichever
\* of its messages fail and whatever is left of earlier ones, is never refunded more than
\* its fee, and none of its messages fails because the fee collector cannot refund it.  A
\* transaction without a fee is refunded what earlier ones have left of its requests, and
\* the fee collector may lack that; but every refund that is pending is covered by fees
\* that were paid and not refunded, so that over all transactions refunds stay within fees.
RefundsCovered == ~exceeded /\ SumFunctionOnSet(pending, Msgs) <= kept
=============================================================================
