----------------------------- MODULE MessageFlow -----------------------------
(***************************************************************************)
(* General messages across chains: events of an EVM chain ("evm1") that    *)
(* x/evm confirms and turns into messages of x/nexus, messages received    *)
(* over IBC ("cosmos") and from the gateway contract ("wasm"), their       *)
(* routing, and their delivery to an EVM chain ("evm2") as commands, to a  *)
(* cosmos chain as IBC packets, or to the gateway contract.                *)
(*                                                                         *)
(* Chains are registered, keys and gateways set, and addresses valid.  A   *)
(* queue ordered by block height is the sequence of the sets of IDs that   *)
(* were enqueued in the same block, the current block's last.              *)
(***************************************************************************)
EXTENDS Integers, Sequences, FiniteSetsExt

CONSTANTS
    Messages,           \* message IDs, ordered as in the store
    From, To,           \* source and destination chain of every message
    WithToken,          \* messages that carry a token
    EvmLimit,           \* EndBlockerLimit of the EVM chains
    NexusLimit,         \* EndBlockerLimit of x/nexus
    QueueBound          \* bound on the blocks with queued messages

ASSUME FlowAssumption ==
    /\ Messages \subseteq Nat
    /\ From \in [Messages -> {"evm1", "cosmos", "wasm"}]
    /\ To \in [Messages -> {"evm2", "cosmos", "wasm"}]
    /\ WithToken \subseteq {m \in Messages : "wasm" \notin {From[m], To[m]}}
    /\ \A m \in Messages : From[m] = "wasm" => To[m] # "wasm"
    /\ EvmLimit \in Nat \ {0}
    /\ NexusLimit \in Nat \ {0}
    /\ QueueBound \in Nat

VARIABLES
    event,          \* status of the event of every message from evm1
    eventQueue,     \* confirmed events to be processed
    message,        \* status of every message in x/nexus
    processing,     \* index of the messages being processed
    routeQueue,     \* messages to be routed
    commands,       \* messages that have a command in the queue of evm2
    packets,        \* packets in flight that are mapped to the message
    activated,      \* activated chains; "wasm": activated connection
    tokenConfirmed, \* EVM chains on which the token is confirmed
    stage,          \* step of the block being executed
    handled         \* items handled in this step

eventVars == <<event, eventQueue>>
messageVars == <<message, processing, commands, packets>>
chainVars == <<activated, tokenConfirmed>>
blockVars == <<stage, handled>>
flowVars == <<eventVars, messageVars, routeQueue, chainVars, blockVars>>

-----------------------------------------------------------------------------
(* Queues.                                                                 *)

EmptyQueue == <<{}>>
IsQueued(q, id) == \E i \in DOMAIN q : id \in q[i]
Enqueue(q, id) == [q EXCEPT ![Len(q)] = @ \cup {id}]
FirstOf(q) == Min(q[1])

Dequeue(q) ==
    IF q[1] = {FirstOf(q)} /\ Len(q) > 1 THEN Tail(q) ELSE [q EXCEPT ![1] = @ \ {FirstOf(q)}]

InNextBlock(q) == IF q[Len(q)] = {} THEN q ELSE Append(q, {})

-----------------------------------------------------------------------------
(* Events.                                                                 *)

\* the poll on the event completes
HandleResult(m) ==
    /\ stage = "tx"
    /\ From[m] = "evm1"
    /\ event[m] = "none"
    /\ event' = [event EXCEPT ![m] = "confirmed"]
    /\ eventQueue' = Enqueue(eventQueue, m)
    /\ UNCHANGED <<messageVars, routeQueue, chainVars, blockVars>>

\* mutant: the event is confirmed again but not queued
RetryFailedEvent_NotQueued(m) ==
    /\ stage = "tx"
    /\ "evm1" \in activated
    /\ event[m] = "failed"
    /\ event' = [event EXCEPT ![m] = "confirmed"]
    /\ UNCHANGED <<eventQueue, messageVars, routeQueue, chainVars, blockVars>>

RetryFailedEvent(m) ==
    /\ stage = "tx"
    /\ "evm1" \in activated
    /\ event[m] = "failed"
    /\ event' = [event EXCEPT ![m] = "confirmed"]
    /\ eventQueue' = Enqueue(eventQueue, m)
    /\ UNCHANGED <<messageVars, routeQueue, chainVars, blockVars>>

validateEvent(m) == To[m] = "wasm" \/ To[m] \in activated

\* routeContractCall and routeContractCallWithToken succeed
CanBecomeMessage(m) ==
    /\ validateEvent(m)
    /\ m \in WithToken => "evm1" \in tokenConfirmed
    /\ message[m] = "none"

processConfirmedEvent(m) ==
    IF CanBecomeMessage(m)
    THEN /\ event' = [event EXCEPT ![m] = "completed"]
         /\ message' = [message EXCEPT ![m] = "approved"]
         /\ routeQueue' = Enqueue(routeQueue, m)
    ELSE /\ event' = [event EXCEPT ![m] = "failed"]
         /\ UNCHANGED <<message, routeQueue>>

processConfirmedEvents ==
    /\ stage = "events"
    /\ eventQueue # EmptyQueue
    /\ handled < EvmLimit
    /\ handled' = handled + 1
    /\ eventQueue' = Dequeue(eventQueue)
    /\ processConfirmedEvent(FirstOf(eventQueue))
    /\ UNCHANGED <<processing, commands, packets, chainVars, stage>>

-----------------------------------------------------------------------------
(* Routing.                                                                *)

\* mutant: a message may be routed again whatever has become of it
CanBeProcessed_Always(m) ==
    /\ message[m] # "none"
    /\ From[m] # "wasm" => From[m] \in activated
    /\ To[m] # "wasm" => To[m] \in activated

\* setMessageProcessing accepts the message
CanBeProcessed(m) ==
    /\ message[m] \in {"approved", "failed"}
    /\ From[m] # "wasm" => From[m] \in activated
    /\ To[m] # "wasm" => To[m] \in activated

\* the routes of x/evm, x/axelarnet and x/nexus (gateway contract) in turn
RouteTo(m, payload) ==
    \/ /\ To[m] = "evm2"
       /\ message' = [message EXCEPT ![m] = "processing"]
       /\ processing' = processing \cup {m}
       /\ UNCHANGED packets
    \/ /\ To[m] = "cosmos"
       /\ payload
       /\ message' = [message EXCEPT ![m] = "processing"]
       /\ processing' = processing \cup {m}
       /\ packets' = [packets EXCEPT ![m] = @ + 1]
    \/ /\ To[m] = "wasm"
       /\ "wasm" \in activated
       /\ message' = [message EXCEPT ![m] = "executed"]
       /\ UNCHANGED <<processing, packets>>

RouteMessage(m, payload) ==
    /\ CanBeProcessed(m)
    /\ RouteTo(m, payload)

\* somebody submits the payload of a message, or triggers its routing
RouteMessageTx(m) ==
    /\ stage = "tx"
    /\ RouteMessage(m, TRUE)
    /\ UNCHANGED <<eventVars, routeQueue, commands, chainVars, blockVars>>

RetryFailedMessage(m) ==
    /\ stage = "tx"
    /\ message[m] = "failed"
    /\ Len(routeQueue) <= QueueBound
    /\ routeQueue' = Enqueue(routeQueue, m)
    /\ UNCHANGED <<eventVars, messageVars, chainVars, blockVars>>

\* the route cannot be taken, or the gateway contract fails
RoutingFails(m) ==
    /\ ~CanBeProcessed(m) \/ To[m] = "cosmos" \/ To[m] = "wasm"
    /\ UNCHANGED <<message, processing, packets>>

routeQueuedMessages ==
    /\ stage = "route"
    /\ routeQueue # EmptyQueue
    /\ handled < NexusLimit
    /\ handled' = handled + 1
    /\ routeQueue' = Dequeue(routeQueue)
    /\ \/ RoutingFails(FirstOf(routeQueue))
       \/ RouteMessage(FirstOf(routeQueue), FALSE)
    /\ UNCHANGED <<eventVars, commands, chainVars, stage>>

-----------------------------------------------------------------------------
(* Messages that do not come from EVM events.                              *)

OnRecvMessage(m) ==
    /\ stage = "tx"
    /\ From[m] = "cosmos"
    /\ message[m] = "none"
    /\ "cosmos" \in activated
    /\ To[m] # "wasm" => To[m] \in activated
    /\ message' = [message EXCEPT ![m] = "approved"]
    /\ UNCHANGED <<eventVars, processing, commands, packets, routeQueue, chainVars, blockVars>>

\* the message is stored whether or not it can be routed
DispatchMsg(m) ==
    /\ stage = "tx"
    /\ From[m] = "wasm"
    /\ "wasm" \in activated
    /\ message[m] = "none"
    /\ LET routed == To[m] = "evm2" /\ "evm2" \in activated
       IN /\ message' = [message EXCEPT ![m] = IF routed THEN "processing" ELSE "approved"]
          /\ processing' = IF routed THEN processing \cup {m} ELSE processing
    /\ UNCHANGED <<eventVars, commands, packets, routeQueue, chainVars, blockVars>>

-----------------------------------------------------------------------------
(* Delivery.                                                               *)

ToDeliver == {m \in processing : To[m] = "evm2"}

\* validateMessageForDelivery, and the command is not there yet
CanBeDelivered(m) ==
    /\ "evm2" \in activated
    /\ m \in WithToken => "evm2" \in tokenConfirmed
    /\ m \notin commands

\* mutant: a failed delivery keeps its index entry
SetMessageStatus_Indexed(m, s) ==
    /\ message[m] = "processing"
    /\ message' = [message EXCEPT ![m] = s]
    /\ processing' = IF s = "failed" THEN processing ELSE processing \ {m}

\* SetMessageExecuted, SetMessageFailed
SetMessageStatus(m, s) ==
    /\ message[m] = "processing"
    /\ message' = [message EXCEPT ![m] = s]
    /\ processing' = processing \ {m}

\* mutant: a failed delivery keeps its command
deliverMessage_NoRollback(m) ==
    /\ commands' = commands \cup {m}
    /\ SetMessageStatus(m, IF CanBeDelivered(m) THEN "executed" ELSE "failed")

deliverMessage(m) ==
    /\ commands' = IF CanBeDelivered(m) THEN commands \cup {m} ELSE commands
    /\ SetMessageStatus(m, IF CanBeDelivered(m) THEN "executed" ELSE "failed")

deliverPendingMessages ==
    /\ stage = "deliver"
    /\ ToDeliver # {}
    /\ handled < EvmLimit
    /\ handled' = handled + 1
    /\ deliverMessage(Min(ToDeliver))
    /\ UNCHANGED <<eventVars, packets, routeQueue, chainVars, stage>>

\* an acknowledgement or a timeout of the packet is relayed
SettlePacket(m, s) ==
    /\ stage = "tx"
    /\ packets[m] > 0
    /\ packets' = [packets EXCEPT ![m] = @ - 1]
    /\ SetMessageStatus(m, s)
    /\ UNCHANGED <<eventVars, commands, routeQueue, chainVars, blockVars>>

setRoutedPacketCompleted(m) == SettlePacket(m, "executed")
setRoutedPacketFailed(m) == SettlePacket(m, "failed")

-----------------------------------------------------------------------------
(* Chains, and the course of a block.                                      *)

ActivateChain(c) ==
    /\ stage = "tx"
    /\ activated' = activated \cup {c}
    /\ UNCHANGED <<eventVars, messageVars, routeQueue, tokenConfirmed, blockVars>>

DeactivateChain(c) ==
    /\ stage = "tx"
    /\ activated' = activated \ {c}
    /\ UNCHANGED <<eventVars, messageVars, routeQueue, tokenConfirmed, blockVars>>

\* the deployment of the token on c is confirmed
applyTokenDeployment(c) ==
    /\ stage = "events"
    /\ tokenConfirmed' = tokenConfirmed \cup {c}
    /\ UNCHANGED <<eventVars, messageVars, routeQueue, activated, blockVars>>

NextStage == [tx |-> "events", events |-> "deliver", deliver |-> "route", route |-> "tx"]

StageDone ==
    CASE stage = "tx"      -> TRUE
      [] stage = "events"  -> eventQueue = EmptyQueue \/ handled = EvmLimit
      [] stage = "deliver" -> ToDeliver = {} \/ handled = EvmLimit
      [] stage = "route"   -> routeQueue = EmptyQueue \/ handled = NexusLimit

EndBlocker ==
    /\ StageDone
    /\ stage' = NextStage[stage]
    /\ handled' = 0
    /\ eventQueue' = IF stage = "route" THEN InNextBlock(eventQueue) ELSE eventQueue
    /\ routeQueue' = IF stage = "route" THEN InNextBlock(routeQueue) ELSE routeQueue
    /\ UNCHANGED <<event, messageVars, chainVars>>

Chains == {"evm1", "evm2", "cosmos", "wasm"}

FlowInit ==
    /\ event = [m \in Messages |-> "none"]
    /\ eventQueue = EmptyQueue
    /\ message = [m \in Messages |-> "none"]
    /\ processing = {}
    /\ routeQueue = EmptyQueue
    /\ commands = {}
    /\ packets = [m \in Messages |-> 0]
    /\ activated = Chains
    /\ tokenConfirmed = {}
    /\ stage = "tx"
    /\ handled = 0

FlowNext ==
    \/ \E m \in Messages : HandleResult(m)
    \/ \E m \in Messages : RetryFailedEvent(m)
    \/ processConfirmedEvents
    \/ \E m \in Messages : RouteMessageTx(m)
    \/ \E m \in Messages : RetryFailedMessage(m)
    \/ routeQueuedMessages
    \/ \E m \in Messages : OnRecvMessage(m)
    \/ \E m \in Messages : DispatchMsg(m)
    \/ deliverPendingMessages
    \/ \E m \in Messages : setRoutedPacketCompleted(m)
    \/ \E m \in Messages : setRoutedPacketFailed(m)
    \/ \E c \in Chains : ActivateChain(c)
    \/ \E c \in Chains : DeactivateChain(c)
    \/ \E c \in {"evm1", "evm2"} : applyTokenDeployment(c)
    \/ EndBlocker

\* Blocks keep coming, relayers submit what is to be routed or retried and
\* settle packets, and a packet that is sent again and again is received.
FlowSpec ==
    /\ FlowInit
    /\ [][FlowNext]_flowVars
    /\ WF_flowVars(EndBlocker)
    /\ WF_flowVars(processConfirmedEvents)
    /\ WF_flowVars(routeQueuedMessages)
    /\ WF_flowVars(deliverPendingMessages)
    /\ \A m \in Messages : SF_flowVars(RouteMessageTx(m))
    /\ \A m \in {n \in Messages : From[n] = "evm1"} : SF_flowVars(RetryFailedEvent(m))
    /\ \A m \in {n \in Messages : To[n] = "cosmos"} : SF_flowVars(setRoutedPacketCompleted(m))

-----------------------------------------------------------------------------
(* Properties.                                                             *)

QueueType(q) ==
    /\ q \in Seq(SUBSET Messages)
    /\ Len(q) > 0
    /\ \A i \in 1..(Len(q) - 1) : q[i] # {}

FlowTypeOK ==
    /\ event \in [Messages -> {"none", "confirmed", "completed", "failed"}]
    /\ message \in [Messages -> {"none", "approved", "processing", "executed", "failed"}]
    /\ QueueType(eventQueue)
    /\ QueueType(routeQueue)
    /\ processing \subseteq Messages
    /\ commands \subseteq Messages
    /\ packets \in [Messages -> Nat]
    /\ activated \subseteq Chains
    /\ tokenConfirmed \subseteq Chains
    /\ stage \in DOMAIN NextStage
    /\ handled \in Nat
    /\ handled <= EvmLimit \/ handled <= NexusLimit

\* SetConfirmedEvent, RetryEvent and the end blocker: exactly the confirmed
\* events are queued, each once.  Otherwise SetEventCompleted or
\* SetEventFailed fails in the end blocker, which stops the chain.
ConfirmedAreQueued ==
    \A m \in Messages :
       /\ IsQueued(eventQueue, m) <=> event[m] = "confirmed"
       /\ \A i, j \in DOMAIN eventQueue : m \in eventQueue[i] /\ m \in eventQueue[j] => i = j

\* processConfirmedEvents: an event is completed exactly when its message
\* exists; a failed or retried one has left nothing behind.
CompletedHasMessage ==
    \A m \in Messages :
       From[m] = "evm1" => (event[m] = "completed" <=> message[m] # "none")

\* The index of x/nexus holds exactly the messages that are being processed.
\* Otherwise SetMessageExecuted or SetMessageFailed fails in the end blocker
\* of x/evm, which stops the chain, or a message is never delivered.
IndexMatchesStatus == processing = {m \in Messages : message[m] = "processing"}

\* Queue, index and status of events and messages are kept in different places
\* and always agree, so that neither end blocker stops the chain.
QueuesMatchStatus == ConfirmedAreQueued /\ IndexMatchesStatus

\* A message to an EVM chain is executed exactly when it has its command,
\* across failed deliveries and retries.
ExecutedHasCommand ==
    \A m \in Messages : m \in commands <=> To[m] = "evm2" /\ message[m] = "executed"

\* Of an event or a message that failed and is tried again, nothing is left
\* behind, and what succeeded has had its effect: one message, one command.
EffectsMatchStatus == CompletedHasMessage /\ ExecutedHasCommand

\* A message to a cosmos chain is being processed exactly while one packet
\* of it is in flight: retries never put a second one under way.
OnePacketInFlight ==
    \A m \in Messages :
       packets[m] = (IF To[m] = "cosmos" /\ message[m] = "processing" THEN 1 ELSE 0)

\* An executed message is never routed, delivered or failed again.
ExecutedIsFinal ==
    [][\A m \in Messages : message[m] = "executed" => message'[m] = "executed"]_flowVars

\* If all chains stay activated and tokens confirmed from some point on,
\* every confirmed event leads to an executed message.
MessagesArrive ==
    <>[](activated = Chains /\ tokenConfirmed = {"evm1", "evm2"}) =>
       \A m \in Messages : event[m] = "confirmed" \/ message[m] # "none" ~> message[m] = "executed"
=============================================================================
