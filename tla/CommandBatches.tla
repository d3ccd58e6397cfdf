--------------------------- MODULE CommandBatches ---------------------------
(***************************************************************************)
(* The commands x/evm sends to the gateway of one EVM chain: how they are  *)
(* queued, batched, signed through x/multisig, and how signed transfers of *)
(* operatorship rotate the key that later commands are signed with.        *)
(*                                                                         *)
(* Keys are numbered by the epoch they become current in.  A block that    *)
(* enqueues nothing orders nothing, so blocks are counted only when one    *)
(* did.  The gateway is set and has a chain ID from the start.             *)
(***************************************************************************)
EXTENDS SigningService, Integers, Sequences, FiniteSets, FiniteSetsExt, Functions

CONSTANTS
    CommandIDs,         \* command IDs, ordered as their hex strings are
    MaxGasCost,         \* gas of a command of every kind
    GasLimit,           \* CommandsGasLimit of the chain
    BatchIDs,           \* batch IDs (hashes), ordered as their bytes are
    FreshIDs(_),        \* which of the unused IDs the next batch may get
    ActiveEpochCount,   \* number of epochs a key stays active
    FailureBound        \* bound on failed signings

Kinds == {"approve", "deploy", "transfer"}
NoCommand == [kind |-> "none", key |-> 0, block |-> 0]
NoBatch == 0
NoRecord == [status |-> "none", key |-> 0, cmds |-> <<>>, prev |-> NoBatch]

ASSUME BatchesAssumption ==
    /\ CommandIDs \subseteq Nat
    /\ BatchIDs \subseteq Nat \ {NoBatch}
    /\ \A free \in SUBSET BatchIDs : FreshIDs(free) \subseteq free
    /\ Keys \subseteq Nat \ {0}
    /\ 1 \in Keys
    /\ MaxGasCost \in [Kinds -> Nat]
    /\ GasLimit \in Nat
    /\ ActiveEpochCount \in Nat \ {0}
    /\ FailureBound \in Nat

VARIABLES
    commands,       \* commands stored under their IDs
    queue,          \* IDs of the commands waiting to be batched
    batches,        \* command batches stored under their IDs
    unsignedID,     \* ID of the batch last created
    currentKey,     \* key of the current epoch
    nextAssigned,   \* whether the key of the next epoch is assigned
    forced,         \* whether a transfer to the next key is confirmed without the gateway
    overtaken,      \* history: forced rotations since the last one the gateway executed
    activated,      \* whether the chain is activated in x/nexus
    block,          \* current block, counting those that enqueued commands
    stage,          \* how far the execution of the block has got
    requestBatch    \* batch that every signing request was made for

keyVars == <<currentKey, nextAssigned, forced, overtaken>>
batchVars == <<commands, queue, batches, unsignedID>>
vars == <<batchVars, keyVars, activated, block, stage, requestBatch, serviceVars>>

-----------------------------------------------------------------------------
(* A block runs its transactions, then the end blocker of x/multisig, then *)
(* that of x/evm, which handles confirmed events before it delivers        *)
(* messages.                                                               *)

Transactions == 1
Multisig == 2
EventHandling == 3
Delivery == 4

RunsIn(s) ==
    /\ stage <= s
    /\ stage' = s

-----------------------------------------------------------------------------
(* Enqueuing.                                                              *)

\* mutant: a stored command is overwritten
EnqueueCommand_Overwrite(id, kind) ==
    /\ commands' = [commands EXCEPT ![id] = [kind |-> kind, key |-> currentKey, block |-> block]]
    /\ queue' = queue \cup {id}

EnqueueCommand(id, kind) ==
    /\ commands[id] = NoCommand
    /\ commands' = [commands EXCEPT ![id] = [kind |-> kind, key |-> currentKey, block |-> block]]
    /\ queue' = queue \cup {id}

\* a message approved by x/nexus becomes a command of the current key
deliverMessage(id) ==
    /\ RunsIn(Delivery)
    /\ activated
    /\ EnqueueCommand(id, "approve")
    /\ UNCHANGED <<batches, unsignedID, keyVars, activated, block,
                   requestBatch, serviceVars>>

CreateDeployToken(id) ==
    /\ RunsIn(Transactions)
    /\ activated
    /\ EnqueueCommand(id, "deploy")
    /\ UNCHANGED <<batches, unsignedID, keyVars, activated, block,
                   requestBatch, serviceVars>>

CreateTransferOperatorship(id) ==
    /\ RunsIn(Transactions)
    /\ activated
    /\ ~nextAssigned
    /\ currentKey + 1 \in Keys      \* bound on the number of keys
    /\ nextAssigned' = TRUE
    /\ EnqueueCommand(id, "transfer")
    /\ UNCHANGED <<batches, unsignedID, currentKey, forced, overtaken, activated, block,
                   requestBatch, serviceVars>>

-----------------------------------------------------------------------------
(* Batching and signing.                                                   *)

\* mutant: the queue is ordered by command ID alone
Before_IDsOnly(c, d) == c < d

\* c is ahead of d in the queue: by block, then by ID
Before(c, d) ==
    \/ commands[c].block < commands[d].block
    \/ commands[c].block = commands[d].block /\ c < d

QueuedCommands ==
    CHOOSE cmds \in [1..Cardinality(queue) -> queue] :
        \A i, j \in DOMAIN cmds : i < j => Before(cmds[i], cmds[j])

Gas(cmds) == SumFunction([i \in DOMAIN cmds |-> MaxGasCost[commands[cmds[i]].kind]])

\* the filter that lets the i-th command of the queue join the batch
Fits(cmds, i) ==
    /\ commands[cmds[i]].key = commands[cmds[1]].key
    /\ Gas(SubSeq(cmds, 1, i)) <= GasLimit

\* the first command always, and then those that fit until one does not
DequeuedCommands ==
    LET cmds == QueuedCommands
    IN SubSeq(cmds, 1, Max({i \in DOMAIN cmds : \A j \in 2..i : Fits(cmds, j)}))

\* Only InitGenesis sets the ID of the latest signed batch, which is looked up next.
GetLatestCommandBatch == unsignedID

LatestStatus ==
    IF GetLatestCommandBatch = NoBatch THEN "none" ELSE batches[GetLatestCommandBatch].status

\* mutant: a new batch does not wait for the latest one
CanCreateBatch_AfterAbort == LatestStatus \in {"none", "signed", "aborted"}

CanCreateBatch == LatestStatus \in {"none", "signed"}

CreateNewBatchToSign(b) ==
    /\ CanCreateBatch
    /\ queue # {}
    /\ b \in FreshIDs({d \in BatchIDs : batches[d] = NoRecord})
    /\ LET cmds == DequeuedCommands
       IN /\ batches' = [batches EXCEPT ![b] =
                [status |-> "signing", key |-> commands[cmds[1]].key,
                 cmds |-> cmds, prev |-> GetLatestCommandBatch]]
          /\ queue' = queue \ Range(cmds)
    /\ unsignedID' = b

\* a key is active from its rotation on, for ActiveEpochCount epochs
IsActive(k) == currentKey - ActiveEpochCount < k /\ k <= currentKey

\* signing requests are numbered
NextSigID == Cardinality({q \in Requests : status[q] # "none"}) + 1

\* request r asks for the signature of batch b with key k
Sign(r, b, k) ==
    /\ IsActive(k)
    /\ Request(r, k)
    /\ requestBatch' = [requestBatch EXCEPT ![r] = b]

SignCommands(r, b) ==
    /\ RunsIn(Transactions)
    /\ r = NextSigID
    /\ activated
    /\ \/ CreateNewBatchToSign(b)
       \/ /\ LatestStatus = "aborted"
          /\ b = GetLatestCommandBatch
          /\ batches' = [batches EXCEPT ![b].status = "signing"]
          /\ UNCHANGED <<queue, unsignedID>>
    /\ Sign(r, b, batches'[b].key)
    /\ UNCHANGED <<commands, keyVars, activated, block>>

-----------------------------------------------------------------------------
(* The callbacks of x/multisig.                                            *)

Failures == Cardinality({r \in Requests : status[r] = "failed"})

\* mutant: a failed signing leaves the batch as it is
StatusAfter_Kept(r, old) == IF status'[r] = "completed" THEN "signed" ELSE old

\* the status of the batch after the callback, if there was one
StatusAfter(r, old) ==
    CASE status'[r] = "completed" -> "signed"
      [] status'[r] = "failed"    -> "aborted"
      [] OTHER                    -> old

\* a callback for a batch that is not being signed fails
HandleSigning(r) ==
    LET b == requestBatch[r]
    IN /\ RunsIn(Multisig)
       /\ status[r] = "open"
       /\ \E lost \in SUBSET {r} :
             /\ lost = {} => batches[b].status = "signing"
             /\ Resolve({r} \ lost, lost)
       /\ status'[r] = "failed" => Failures < FailureBound
       /\ batches' = [batches EXCEPT ![b].status = StatusAfter(r, @)]
       /\ UNCHANGED <<commands, queue, unsignedID, keyVars, activated,
                      block, requestBatch>>

-----------------------------------------------------------------------------
(* Rotation, activation and the next block.                                *)

InBatch(c, b) == c \in Range(batches[b].cmds)

\* external: the gateway executes a signed transfer; the poll on its event confirms it
TransferExecuted ==
    \E b \in BatchIDs, c \in CommandIDs :
       /\ batches[b].status = "signed"
       /\ InBatch(c, b)
       /\ commands[c].kind = "transfer"
       /\ commands[c].key = currentKey

\* Chain management confirms a transfer to the next key without a poll, whatever has been
\* signed or executed: an event made up from the next key itself is queued.
ConfirmTransferKey ==
    /\ RunsIn(Transactions)
    /\ activated
    /\ nextAssigned
    /\ ~forced
    /\ forced' = TRUE
    /\ UNCHANGED <<batchVars, currentKey, nextAssigned, overtaken, activated, block,
                   requestBatch, serviceVars>>

\* the end blocker handles a confirmed transfer to the next key
applyKeyRotation ==
    /\ RunsIn(EventHandling)
    /\ nextAssigned
    /\ TransferExecuted \/ forced
    /\ currentKey' = currentKey + 1
    /\ nextAssigned' = FALSE
    /\ forced' = FALSE
    /\ overtaken' = IF TransferExecuted THEN 0 ELSE overtaken + 1
    /\ UNCHANGED <<batchVars, activated, block, requestBatch, serviceVars>>

ActivateChain ==
    /\ RunsIn(Transactions)
    /\ ~activated
    /\ activated' = TRUE
    /\ UNCHANGED <<batchVars, keyVars, block, requestBatch, serviceVars>>

DeactivateChain ==
    /\ RunsIn(Transactions)
    /\ activated
    /\ activated' = FALSE
    /\ UNCHANGED <<batchVars, keyVars, block, requestBatch, serviceVars>>

NextBlock ==
    /\ stage' = Transactions
    /\ block' = IF \E c \in CommandIDs : commands[c].block = block THEN block + 1 ELSE block
    /\ UNCHANGED <<batchVars, keyVars, activated, requestBatch, serviceVars>>

BatchesInit ==
    /\ commands = [c \in CommandIDs |-> NoCommand]
    /\ queue = {}
    /\ batches = [b \in BatchIDs |-> NoRecord]
    /\ unsignedID = NoBatch
    /\ currentKey = 1
    /\ nextAssigned = FALSE
    /\ forced = FALSE
    /\ overtaken = 0
    /\ activated = TRUE
    /\ block = 1
    /\ stage = Transactions
    /\ requestBatch = [r \in Requests |-> NoBatch]
    /\ ServiceInit

BatchesNext ==
    \/ \E c \in CommandIDs : deliverMessage(c)
    \/ \E c \in CommandIDs : CreateDeployToken(c)
    \/ \E c \in CommandIDs : CreateTransferOperatorship(c)
    \/ \E r \in Requests, b \in BatchIDs : SignCommands(r, b)
    \/ \E r \in Requests : HandleSigning(r)
    \/ ConfirmTransferKey
    \/ applyKeyRotation
    \/ ActivateChain
    \/ DeactivateChain
    \/ NextBlock

\* Blocks keep coming, someone keeps asking for signatures, and a signing
\* that is tried again and again is completed.
BatchesSpec ==
    /\ BatchesInit
    /\ [][BatchesNext]_vars
    /\ WF_vars(NextBlock)
    /\ SF_vars(\E r \in Requests, b \in BatchIDs : SignCommands(r, b))
    /\ SF_vars(\E r \in Requests : HandleSigning(r))

Created == {b \in BatchIDs : batches[b] # NoRecord}

-----------------------------------------------------------------------------
(* Properties.                                                             *)

\* a command is in the queue or in one batch, once, and never in both
CommandsOnce ==
    \A c \in CommandIDs :
       LET places == {b \in Created : InBatch(c, b)}
       IN /\ c \in queue => places = {}
          /\ commands[c] # NoCommand /\ c \notin queue => Cardinality(places) = 1
          /\ \A b \in places : Cardinality({i \in DOMAIN batches[b].cmds : batches[b].cmds[i] = c}) = 1

\* commands reach the gateway in the order of the blocks that enqueued them
OrderKept ==
    /\ \A b \in Created :
          /\ \A i, j \in DOMAIN batches[b].cmds :
                i < j => Before(batches[b].cmds[i], batches[b].cmds[j])
          /\ \A d \in Created, c, e \in CommandIDs :
                batches[d].prev = b /\ InBatch(c, b) /\ InBatch(e, d)
                   => commands[c].block <= commands[e].block
          /\ \A c \in CommandIDs, q \in queue :
                InBatch(c, b) => commands[c].block <= commands[q].block

\* one key signs a batch, and only a single command may exceed the gas limit
BatchFits ==
    \A b \in Created :
       /\ \A c \in CommandIDs : InBatch(c, b) => commands[c].key = batches[b].key
       /\ Len(batches[b].cmds) = 1 \/ Gas(batches[b].cmds) <= GasLimit

\* EnqueueCommand and CreateNewBatchToSign: every command is batched once, in
\* the order of the blocks and for the key it was created for, and no batch
\* takes more than its gas, across retries, rotations and full batches.
CommandsBatched == CommandsOnce /\ OrderKept /\ BatchFits

\* CreateNewBatchToSign and getCommandBatchToSign: PrevBatchedCommandsID
\* links the batches into one chain that ends in the latest batch, and every
\* batch but the latest is signed.
BatchesChained ==
    LET latest == GetLatestCommandBatch
    IN Created # {} =>
         /\ latest \in Created
         /\ \A b \in (Created \cup {NoBatch}) \ {latest} :
               Cardinality({d \in Created : batches[d].prev = b}) = 1
         /\ \A b \in Created \ {latest} : batches[b].status = "signed"

\* SignCommands and the signature handler: a batch is being signed exactly
\* while one request for it has not been answered, there is never a second
\* such request, and a signed batch carries a signature of its own key.
SigningMatches ==
    LET waiting == {r \in Requests : status[r] \in {"open", "lost"}}
    IN /\ Cardinality(waiting) <= 1
       /\ \A b \in Created :
             /\ batches[b].status = "signing" <=> \E r \in waiting : requestBatch[r] = b
             /\ batches[b].status = "signed" <=>
                   \E r \in Requests : /\ status[r] = "completed"
                                       /\ requestBatch[r] = b
                                       /\ requestKey[r] = batches[b].key

\* what waits for a signature, in the queue or in a batch whose signing failed, can get one
WaitingUsable ==
    /\ \A c \in queue : IsActive(commands[c].key)
    /\ LatestStatus = "aborted" => IsActive(batches[GetLatestCommandBatch].key)

\* The queue, applyKeyRotation and RotateKey: a command keeps the key it was created for.
\* A rotation that the gateway executed overtakes what waits by one epoch at most, because
\* the transfer has been signed after everything of earlier keys; every transfer that is
\* forced overtakes it by one more.  So what waits can be signed as long as fewer
\* transfers than ActiveEpochCount - 1 have been forced since the gateway executed one.
KeysStayUsable == overtaken + 1 < ActiveEpochCount => WaitingUsable

\* If the chain is not deactivated for good, no callback is lost and no forced transfer
\* takes the key from what waits, every command is signed in the end, across failed
\* signings and rotations: the commands are finitely many and none is removed, so that is
\* to say that again and again every stored command is in a signed batch.
CommandsSigned ==
    []<>activated /\ [](\A r \in Requests : status[r] # "lost") /\ []WaitingUsable =>
       []<>(\A c \in CommandIDs : commands[c] # NoCommand =>
                \E b \in BatchIDs : batches[b].status = "signed" /\ InBatch(c, b))

=============================================================================
