----------------------------- MODULE Broadcaster -----------------------------
(***************************************************************************)
(* The broadcaster of vald (sdk-utils/broadcast): callers push tasks into  *)
(* a backlog; a goroutine takes one task, or under traffic a batch of      *)
(* tasks, and sends it as a transaction, with retries and an account       *)
(* sequence of its own; all callers of the transaction get the response.   *)
(*                                                                         *)
(* The node and the network are external: a transaction that the node      *)
(* accepted may be included at any later time or never, and the node may   *)
(* forget it while others still have it.                                   *)
(***************************************************************************)
EXTENDS Refunds

CONSTANTS
    Callers,           \* calls of Broadcast
    MsgsOf,            \* the messages of every call
    Expiring,          \* calls with a context that can expire
    BatchThreshold,    \* configuration of vald
    BatchSizeLimit,
    MaxRetries,
    NoTx               \* there is no transaction

ASSUME BroadcasterAssumption ==
    /\ MsgsOf \in [Callers -> Seq(Msgs) \ {<<>>}]
    /\ Expiring \subseteq Callers
    /\ {BatchThreshold, BatchSizeLimit, MaxRetries} \subseteq Nat

VARIABLES
    call,          \* state of every call, with its answer
    backlog,       \* calls in the backlog, its head included
    pc,            \* where the goroutine is
    taken,         \* calls of the transaction
    batched,       \* the messages are sent as a batch
    retryMsgs,     \* messages to be sent
    attempt,       \* number of retries
    txfSequence,   \* sequence of the tx factory, zero when it is not set
    tx,            \* transaction being sent
    txEvent,       \* outcome of the transaction that is waited for
    checkSequence, \* sequence that the node expects next
    network,       \* transactions that may be included
    served,        \* history: calls with the messages of their transactions that succeeded
    excluded       \* history: calls with the messages that the node reported as failing
                   \* and that are left out of their retries

clientVars == <<call, backlog, pc, taken, batched, retryMsgs, attempt, txfSequence, tx>>
nodeVars == <<txEvent, checkSequence, network, served, excluded>>
vars == <<clientVars, nodeVars, refundVars>>

-----------------------------------------------------------------------------
(* Callers.                                                                *)

Broadcast(c) ==
    /\ call[c] = "new"
    /\ call' = [call EXCEPT ![c] = "waiting"]
    /\ backlog' = Append(backlog, c)
    /\ UNCHANGED <<pc, taken, batched, retryMsgs, attempt, txfSequence, tx, nodeVars, refundVars>>

\* the caller returns, the task stays where it is
Expire(c) ==
    /\ c \in Expiring /\ call[c] = "waiting"
    /\ call' = [call EXCEPT ![c] = "expired"]
    /\ UNCHANGED <<backlog, pc, taken, batched, retryMsgs, attempt, txfSequence, tx, nodeVars, refundVars>>

-----------------------------------------------------------------------------
(* The goroutine: processBacklog.                                          *)

CheckTraffic ==
    /\ pc = "top"
    /\ pc' = IF Len(backlog) < BatchThreshold THEN "pop" ELSE "fill"
    /\ taken' = <<>> /\ retryMsgs' = <<>> /\ attempt' = 0
    /\ UNCHANGED <<call, backlog, batched, txfSequence, tx, nodeVars, refundVars>>

\* low traffic: a single task, expired or not
Pop ==
    /\ pc = "pop" /\ backlog # <<>>
    /\ taken' = <<Head(backlog)>>
    /\ retryMsgs' = MsgsOf[Head(backlog)]
    /\ batched' = FALSE
    /\ backlog' = Tail(backlog)
    /\ pc' = "prepare"
    /\ UNCHANGED <<call, attempt, txfSequence, tx, nodeVars, refundVars>>

\* a single task is not split
WouldBeTooLarge(task) ==
    retryMsgs # <<>> /\ Len(retryMsgs) + Len(MsgsOf[task]) > BatchSizeLimit

\* one round of the loop that fills up a batch; Peek and Pop wait for a task
FillBatch ==
    /\ pc = "fill" /\ backlog # <<>>
    /\ LET task == Head(backlog)
       IN  \/ /\ WouldBeTooLarge(task)
              /\ pc' = "prepare"
              /\ UNCHANGED <<taken, retryMsgs, backlog>>
           \/ /\ ~WouldBeTooLarge(task)
              /\ backlog' = Tail(backlog)
              /\ IF call[task] = "expired"
                 THEN UNCHANGED <<pc, taken, retryMsgs>>
                 ELSE /\ taken' = Append(taken, task)
                      /\ retryMsgs' = retryMsgs \o MsgsOf[task]
                      /\ pc' = IF backlog' = <<>> THEN "prepare" ELSE "fill"
    /\ batched' = TRUE
    /\ UNCHANGED <<call, attempt, txfSequence, tx, nodeVars, refundVars>>

\* mutant: only the last call of the transaction is answered
Answer_Last(result) ==
    /\ call' = [c \in Callers |-> IF c = taken[Len(taken)] /\ call[c] = "waiting" THEN result ELSE call[c]]
    /\ pc' = "top"
    /\ tx' = NoTx /\ txEvent' = NoTx
    /\ UNCHANGED <<taken, retryMsgs, attempt>>

\* the answer goes to all calls of the transaction, those that have expired do not read it
Answer(result) ==
    /\ call' = [c \in Callers |-> IF c \in Range(taken) /\ call[c] = "waiting" THEN result ELSE call[c]]
    /\ pc' = "top"
    /\ tx' = NoTx /\ txEvent' = NoTx
    /\ UNCHANGED <<taken, retryMsgs, attempt>>

-----------------------------------------------------------------------------
(* WithRetry, and SuppressExecutionErrs for the final error.               *)

\* an error has the index of a failed message (zero for none) and is an sdk error or not
CanExclude(err) == err.index # 0 /\ ~batched /\ Len(retryMsgs) > 1

\* mutant: the index of the error is off by one
Without_Next(msgs, k) == SubSeq(msgs, 1, k) \o SubSeq(msgs, k + 2, Len(msgs))

Without(msgs, k) == SubSeq(msgs, 1, k - 1) \o SubSeq(msgs, k + 1, Len(msgs))
RetryOnError(err) == CanExclude(err) \/ ~err.sdk \/ err.code \in {"sequence", "gas"}

Fail(err) ==
    IF RetryOnError(err) /\ attempt < MaxRetries
    THEN /\ attempt' = attempt + 1
         /\ IF CanExclude(err)
            THEN /\ retryMsgs' = Without(retryMsgs, err.index)
                 /\ excluded' = excluded \cup (Range(taken) \X {retryMsgs[err.index]})
            ELSE UNCHANGED <<retryMsgs, excluded>>
         /\ pc' = "prepare"
         /\ tx' = NoTx /\ txEvent' = NoTx
         /\ UNCHANGED <<call, taken>>
    ELSE Answer(IF err.sdk THEN "suppressed" ELSE "error") /\ UNCHANGED excluded

SdkErr(code) == [code |-> code, index |-> 0, sdk |-> TRUE]
PlainErr == [code |-> "other", index |-> 0, sdk |-> FALSE]

-----------------------------------------------------------------------------
(* The stateful broadcaster.                                               *)

prepareFactory ==
    /\ pc = "prepare"
    /\ txfSequence' = IF txfSequence = 0 THEN sequence ELSE txfSequence
    /\ pc' = "simulate"
    /\ UNCHANGED <<call, backlog, taken, batched, retryMsgs, attempt, tx, nodeVars, refundVars>>

\* the node simulates the transaction: the sequence must be the expected one, and
\* the messages must succeed, unless they are in a batch
PrepareTx ==
    /\ pc = "simulate"
    /\ \/ /\ txfSequence # checkSequence
          /\ Fail(SdkErr("sequence"))
          /\ txfSequence' = 0
       \/ /\ txfSequence = checkSequence
          /\ \E fee \in Fees :
                tx' = [sequence |-> txfSequence, calls |-> Range(taken), msgs |-> retryMsgs,
                       batched |-> batched, fee |-> fee]
          /\ pc' = "submit"
          /\ UNCHANGED <<call, taken, retryMsgs, attempt, txfSequence, txEvent, excluded>>
       \/ /\ txfSequence = checkSequence /\ ~batched
          /\ \E k \in DOMAIN retryMsgs : Fail([code |-> "msg", index |-> k, sdk |-> FALSE])
          /\ UNCHANGED txfSequence
    /\ UNCHANGED <<backlog, batched, checkSequence, network, served, refundVars>>

\* CheckTx of the node
BroadcastTx ==
    /\ pc = "submit"
    /\ \/ /\ tx.sequence = checkSequence
          /\ network' = network \cup {tx}
          /\ checkSequence' = checkSequence + 1
          /\ pc' = "wait"
          /\ UNCHANGED <<call, taken, retryMsgs, attempt, tx, txEvent, excluded>>
       \/ /\ tx.sequence # checkSequence
          /\ Fail(SdkErr("sequence"))
          /\ UNCHANGED <<network, checkSequence>>
    /\ UNCHANGED <<backlog, batched, txfSequence, served, refundVars>>

checkErr(outcome) == outcome.code = "ok"

\* mutant: the sequence is advanced although the transaction timed out
Timeout_Advanced ==
    /\ Fail(PlainErr)
    /\ txfSequence' = txfSequence + 1

\* the sequence stays, although the transaction may still be included
Timeout ==
    /\ Fail(PlainErr)
    /\ UNCHANGED txfSequence

waitForBlockInclusion ==
    /\ pc = "wait"
    /\ \/ /\ txEvent # NoTx /\ checkErr(txEvent)
          /\ txfSequence' = txfSequence + 1
          /\ Answer("ok")
          /\ UNCHANGED excluded
       \/ /\ txEvent # NoTx /\ ~checkErr(txEvent)
          /\ Fail([code |-> txEvent.code, index |-> IF txEvent.code = "msg" THEN txEvent.index ELSE 0, sdk |-> TRUE])
          /\ UNCHANGED txfSequence
       \/ Timeout
    /\ UNCHANGED <<backlog, batched, checkSequence, network, served, refundVars>>

-----------------------------------------------------------------------------
(* The node and the network.                                               *)

IncludeTx(t, bad, balance, outcome) ==
    /\ t.sequence = sequence
    /\ DeliverTx(t.msgs, t.batched, t.fee, bad, balance, outcome)
    /\ network' = {u \in network : u.sequence > sequence}
    /\ checkSequence' = Max({checkSequence, sequence + 1})
    /\ txEvent' = IF pc = "wait" /\ tx = t THEN outcome ELSE txEvent
    /\ served' = IF outcome.code = "ok" THEN served \cup (t.calls \X Range(t.msgs)) ELSE served
    /\ UNCHANGED <<clientVars, excluded>>

\* the node starts again without the transactions that it had accepted
RestartNode ==
    /\ checkSequence # sequence
    /\ checkSequence' = sequence
    /\ UNCHANGED <<clientVars, txEvent, network, served, excluded, refundVars>>

-----------------------------------------------------------------------------
Init ==
    /\ RefundsInit
    /\ call = [c \in Callers |-> "new"] /\ backlog = <<>>
    /\ pc = "top" /\ taken = <<>> /\ batched = FALSE /\ retryMsgs = <<>> /\ attempt = 0
    /\ txfSequence = 0 /\ tx = NoTx /\ txEvent = NoTx
    /\ checkSequence = sequence /\ network = {} /\ served = {} /\ excluded = {}

Goroutine ==
    \/ CheckTraffic \/ Pop \/ FillBatch
    \/ prepareFactory \/ PrepareTx \/ BroadcastTx \/ waitForBlockInclusion

Next ==
    \/ \E c \in Callers : Broadcast(c) \/ Expire(c)
    \/ Goroutine
    \/ \E t \in network : \E bad \in SUBSET DOMAIN t.msgs, balance \in Balances, outcome \in Outcomes(t.msgs) :
          IncludeTx(t, bad, balance, outcome)
    \/ RestartNode

Spec == Init /\ [][Next]_vars

\* the goroutine runs and its timeouts fire; nothing is assumed of callers and network
FairSpec == Spec /\ WF_vars(Goroutine)

-----------------------------------------------------------------------------
(* Properties.                                                             *)

\* A call returns a response only when a transaction with messages of it was included and
\* did not fail, whatever was sent, timed out, failed and repeated before.  No message of
\* the call gets lost on the way: each was in such a transaction, or the retries went on
\* without it because the node had reported that this very message fails.
AnsweredWasServed ==
    \A c \in Callers : call[c] = "ok" =>
        /\ \E msg \in Range(MsgsOf[c]) : <<c, msg>> \in served
        /\ \A msg \in Range(MsgsOf[c]) : <<c, msg>> \in served \cup excluded

\* A transaction that timed out may still be included, and its messages are sent again:
\* of all transactions that can still be included and have a call in common, the account
\* sequence lets only one in.
RetriesExclusive ==
    \A t, u \in network : t.calls \cap u.calls # {} => t.sequence = u.sequence

\* The loop that fills a batch waits for another task although it has messages.
Held == pc = "fill" /\ taken # <<>> /\ backlog = <<>>

\* "if there are no new tasks in the backlog, stop filling up the batch"
\* (broadcast.go:450): a goroutine that has messages never waits for another task.
NeverHeld == ~Held

\* Whatever the node and the network do, a call does not wait forever, except for one
\* whose messages are held until the next task comes.
CallsAnswered == \A c \in Callers : (call[c] = "waiting") ~> (call[c] # "waiting" \/ Held)
=============================================================================
