# Formal model of axelar-core

TLA+ models of the axelar-core chain and of the transactions of its validator daemon,
checked with TLC on small instances, with theorems checked by TLAPS for every instance.

`PROJECT.json` lists the parts of the system and their status (`components`), the runs,
a mutant of the code for every property (`mutants`), the source lines of every definition
(`map`), the disagreements found (`findings`), what is hard to test in this code and the
properties about it (`hazards`), and the theorems.

## 1. The system

axelar-core is a Cosmos-SDK chain. Validators run the chain and a daemon (`vald`) that
watches external (mostly EVM) chains. Cross-chain requests go through these parts:

* somebody asks the chain to confirm transactions of an EVM chain; `x/evm` opens a *poll*
  in `x/vote` on a snapshot of the chain's maintainers (`x/snapshot`, `x/nexus`);
* maintainers' daemons vote, in transactions of their proxies whose fees are refunded
  (`sdk-utils/broadcast`, `x/ante`, `x/auxiliary`, `x/reward`); a completed poll confirms
  *events* in `x/evm`, and a closed poll marks the votes of the maintainers;
* confirmed events deploy tokens, rotate keys, or become *messages* of `x/nexus`, which
  routes them to the destination module (`x/evm`, `x/axelarnet` for IBC chains, or the
  gateway contract);
* `x/evm` turns outgoing messages into *commands*, puts commands into *batches*, and has
  `x/multisig` sign each batch with the destination chain's current key;
* `x/multisig` runs the key generation and signing sessions and rotates keys;
* `x/nexus` keeps *transfers* of tokens and their fees, and `x/axelarnet` pays them out
  or sends them in IBC packets and handles acknowledgements, timeouts and retries.

Concurrency has two sources. On chain, a transaction is atomic (an error reverts all of
it), but transactions of different senders interleave in any order, and after the
transactions of every block the end blockers run in the order axelarnet, multisig, evm,
nexus, reward, vote (`src/app/app.go`). Most end blockers run on a branched store
(`utils.RunCached`) that is dropped as a whole when they fail. Off chain, the broadcaster
of `vald` is a goroutine over a queue of tasks of concurrent callers, whose view of the
account sequence the node, the network and timeouts can contradict.

## 2. Modules and how they correspond to the code

A transaction, and an end blocker or the part of one that runs on its own branch of the
store, is one action. A transaction that fails changes nothing and has no action. An end
blocker that fails is an action where the failure changes something (`EndBlockerError`).

| Module | Code | State | Actions |
|---|---|---|---|
| `Snapshot` | `x/snapshot/exported`, `utils/threshold.go` | - | weights of sets of participants, thresholds as fractions, passing weight |
| `VotePoll` | `x/vote`, `x/evm/keeper/vote_handler.go` | `polls`, `queue`, `count`, maintainers, confirmed events; `closed` is history | `InitializePoll`, votes in time and late, `EndBlocker`, `EndBlockerError`, changes of maintainers |
| `KeyRotation` | `x/multisig/keeper/rotation.go` | state of keys, epochs and rotation count per chain, `activeEpochCount` | `AssignKey`, `RotateKey`, `ManualRotateKey`, `UpdateParams`; import and validation of genesis as operators |
| `SigningService` | what the requester of a signature may rely on | status, key and signers of requests | `Request`, `Resolve` |
| `MultisigSessions` | `x/multisig` keygen and signing | sessions, expiry indices, keys, opt-outs, parameters; `outcome` is history | `StartKeygen`, `SubmitPubKey`, `Sign`, `SubmitSignature`, opt out and in, `EndBlocker`, `EndBlockerError`, `RestartFromGenesis` |
| `CommandBatches` | `x/evm` commands, batches, key transfer; extends `SigningService` | commands, queue, batches, latest batch, keys, a forced transfer; `overtaken` is history | `deliverMessage`, `CreateDeployToken`, `CreateTransferOperatorship`, `SignCommands`, `HandleSigning`, `ConfirmTransferKey`, `applyKeyRotation`, chain activation, `NextBlock` |
| `MessageFlow` | `x/evm` events and delivery, `x/nexus` messages and routing, `x/axelarnet` message packets | event and message status, both queues, processing index, commands, packets | the handlers and end blockers named in the module |
| `IBCTransfers` | `x/nexus` transfers, fees and lockable assets, `x/axelarnet` IBC transfers and message packets | transfers, fees, IBC transfers and their queue, messages, packets and both sequence mappings, balances of escrow and account; `owed`, `held`, `stray` are history | `EnqueueTransfer`, `ExecutePendingTransfers`, `RouteIBCTransfers`, `EndBlocker`, `RetryIBCTransfer`, `SendMessage`, `OnRecvMessage`, `OnAcknowledgementPacket`, `OnTimeoutPacket`, fee registration, activation, and packets of others |
| `CircularBuffer` | `utils/bitmap.go`, `utils/circular_buffer.go` | - | bitmaps with cumulative counts that wrap around, grow and shrink, as operators |
| `ChainMaintainers` | `x/nexus` maintainers and activation, `x/snapshot` proxies, `x/reward` pool of a chain, marks of `x/evm/keeper/vote_handler.go` | proxies by operator and by account, bonded validators, bitmaps, rewards, the open poll; `missed`, `wrong` are history | `RegisterProxy`, `DeactivateProxy`, registration and deregistration, activation, opening and closing of a poll, end blockers of nexus and reward, the migration `Migrate8to9`, unbonding |
| `Refunds` | `x/ante` refund check, `x/auxiliary` batches, `x/reward` refunds | account sequence, pending refunds; `kept`, `exceeded` are history | `DeliverTx`, used by `Broadcaster` |
| `Broadcaster` | `sdk-utils/broadcast`; extends `Refunds` | calls, backlog, program counter and variables of the goroutine, sequence of the tx factory, the node's sequence, transactions in the network; `served`, `excluded` are history | `Broadcast`, `Expire`, the steps of the goroutine (`CheckTraffic` to `waitForBlockInclusion`), `IncludeTx`, `RestartNode` |
| `TokenDeployments` | `x/evm` tokens, `vald/evm/token_confirmation.go` | tokens by asset and by symbol, deploy commands, logs of the gateway, polls, events and their queue | `CreateDeployToken`, `ConfirmToken`, `EndPoll`, `processConfirmedEvents`, `SetGateway`, activation, `Execute` (the gateway) |
| `MC*` | - | - | instances for TLC |
| `*Proofs` | - | - | theorems and proofs |

How the modules fit together:

* `MultisigSessions` implements `SigningService`, and `CommandBatches` uses
  `SigningService` for its batches. So the batches are checked against every behaviour
  the sessions can have without carrying their state.
* `Broadcaster` extends `Refunds`: what is refunded depends on which of the retried,
  batched and repeated messages the network includes.
* `VotePoll` decides which events are confirmed and which voters were right;
  `ChainMaintainers` takes any such verdict, `MessageFlow`, `CommandBatches` and
  `TokenDeployments` take any confirmed event of their kind.
* `MessageFlow` has the status of a message with a packet, `IBCTransfers` the coins it
  carries and the channel it shares with transfers.
* A block of `CommandBatches` and `MessageFlow` runs through the stages of `app/app.go`:
  transactions, then multisig, evm events, evm delivery, nexus routing.

Data is abstracted as follows. Weights of sets of validators are a function with the laws
of a sum. Voted values are sets of events. Messages are numbers in store order, with
their source, destination and whether they carry a token; payloads only matter as present
or absent. IDs of batches, which are hashes, are any IDs not used before (`FreshIDs`).
Queues ordered by block height are sequences of the sets enqueued in the same block.
Signatures and public keys are the validators who submitted them. Amounts and fees of
transfers are integers, with the fee's rounding and bounds. A bitmap is the sequence of
the cumulative counts that the code stores, with its index and its wrap-around.

## 3. Runs

### Passing runs

* **votepoll**: one poll with three voters of different weight, three values, thresholds
  just above one half, expiry and grace periods in all relative orders, or two smaller
  polls; the end blocker handles one poll per block and may fail. A result
  has a quorum of votes in time (`ResultHasQuorum`); a pending poll can still pass and a
  failed one could not (`FailsExactly`); the rewards follow the result in spite of late
  votes (`VerdictMatchesResult`); decisions are final (`DecisionsAreFinal`). Queue and
  polls agree (`QueueMatchesPolls`), and every poll closes (`EveryPollCloses`).
* **rotation**: two chains that compete for five keys, four epochs, `ActiveEpochCount`
  kept or lowered. The keys of the active window are usable (`KeysReady`), a key serves
  one epoch (`OneUsePerKey`), the search for active keys finds them in spite of its early
  return (`ActiveKeysFound`), and `InitGenesis` recovers the rotations from what
  `ExportGenesis` writes (`GenesisKeepsRotations`). `InitGenesis` does not validate what
  it imports, so the last property is stated for all exported states, also for those that
  `GenesisState.Validate` refuses (see **rotation_genesis** below).
* **sessions**: a keygen of three validators of whom one may opt out, thresholds in
  either order, parameters that change, then two signing sessions with the key it made.
  The holders of a key can sign with it (`KeysCanSign`); sessions, expiry index and
  acceptance of submissions agree to the block (`IndexMatchesSessions`); callbacks are
  justified (`CallbackJustified`); every keygen ends (`KeygensEnd`); and the sessions
  implement the abstract service, liveness included (`ImplementsSigningService`).
* **command_batches**: three commands (one too expensive to share a batch), three
  batches, three keys, four signing requests of which one fails, callbacks that get lost,
  transfers of operatorship that the gateway executes or that chain management forces
  with `ConfirmTransferKey`. Every command is batched once, in order and within the gas
  limit (`CommandsBatched`); batches form one chain (`BatchesChained`); signing and batch
  agree (`SigningMatches`). A forced transfer needs no signed batch, so it can overtake
  commands that wait; they keep a usable key as long as fewer than
  `ActiveEpochCount - 1` transfers have been forced since the gateway executed one
  (`KeysStayUsable`). If what waits keeps a usable key, no callback is lost and the chain
  is not deactivated for good, every command ends in a signed batch (`CommandsSigned`).
* **messages**: an event with a token to another EVM chain, a message received over IBC
  for the gateway contract and one of the contract to a cosmos chain, one item per block,
  chains deactivated at any time, failing packets, retries. Queues, index and status
  agree, so no end blocker panics (`QueuesMatchStatus`); what failed leaves nothing
  behind, what succeeded had its effect once (`EffectsMatchStatus`, `OnePacketInFlight`);
  confirmed events and messages end in executed messages (`MessagesArrive`).
* **ibc_transfers**: two transfers, to Axelar or over IBC, a message with or without a
  token, another sender on the channel, failing sends and packets, timeouts, retries, fee
  changes, deactivations. The escrow holds exactly what is claimed (`EscrowBacksClaims`),
  the account exactly what the end blocker has to send (`AccountBacksQueue`), a pending
  transfer is queued or has one packet (`PendingHasPacket`), recipients are owed what
  open transfers hold (`RecipientsOwed`), fees keep their bounds over merged deposits
  (`FeesWithinBounds`), and transfers over IBC are delivered (`TransfersArrive`).
* **maintainers**: two validators and two proxies register, leave, unbond and return in
  any order; polls close with any absent and incorrect voters. Proxies and validators
  correspond one to one (`ProxiesOneToOne`); the counts read from the wrapped, grown or
  shrunk bitmaps are those of the votes of the window (`CountsMatchVotes`); only
  maintainers have rewards (`RewardsOfMaintainers`); and a maintainer is removed only
  for one of the causes the code names (`RemovedForCause`).
* **vald_txs**: three calls with overlapping messages, of which one may expire, batches,
  one retry, a node that restarts and forgets, transactions included late or never, with
  a fee or without. No transaction with a fee is refunded more than its fee, and all
  pending refunds together are covered by fees that were paid and not refunded
  (`RefundsCovered`); a transaction without a fee is refunded what earlier ones left. A
  call is told success only if a transaction with a message of it succeeded, and each of
  its messages was in such a transaction or was left out of a retry because the node had
  reported it as failing (`AnsweredWasServed`). Transactions that share a call and can
  still be included all have the same account sequence, so that including one rules out
  the others; a retry sent after an inclusion has the next sequence and is not ruled out
  (`RetriesExclusive`). Every call is answered, except for the hold described below
  (`CallsAnswered`).
* **tokens**: three assets compete for two symbols, an external token among them,
  deployments share a transaction, two polls may run on the same transaction. Both lookups
  show the same token (`LookupsAgree`), and exactly the deployed tokens are confirmed
  (`ConfirmedByDeployment`).

### Violation runs

Each is a disagreement between the code and what the repository says of it (`findings`
of PROJECT.json quotes the lines):

* **signing_genesis**: `InitGenesis` sets the counter of signing sessions to the number
  of imported ones. Sessions that ended are deleted, so the next ID may be in use, and a
  new session overwrites a stored one (`NextSigIDFree`).
* **rotation_genesis**: `RotateKey` retires the key of the epoch that leaves the window
  and keeps the epoch, and a retired key may get a second epoch; `GenesisState.Validate`
  refuses both. A state exported after `ActiveEpochCount` rotations of a chain therefore
  does not validate (`ExportValidates`), while the test of `ExportGenesis` asserts that
  exported states do. The command that validates a genesis file refuses it; `InitGenesis`
  imports it, with the right rotation counts (`GenesisKeepsRotations`).
* **broadcaster_hold**: when the last tasks of the backlog have expired, the goroutine
  waits for a new task although it holds messages of other callers (`NeverHeld`); the
  comment in the code says that it stops filling the batch. `CallsAnswered` therefore
  leaves out calls that are held.

### Bounds

Bounds are constants of the modules.

* Clocks (`MaxHeight`) stop at a height past the expiry and grace period of everything
  opened before, so that every order of completion, expiry and grace period occurs. The
  two parameter sets of `sessions` have no grace period and one that can end before and
  after the timeout.
* `PollBound` and `SigBound` bound how many polls and sessions are opened: two suffice
  for one to overtake or roll back another. In `votepoll` two polls
  are both of two equal voters, two values and no grace period (`SecondIsSmall`): they
  are there to compete for the end blocker, a single poll has all values. `signing_genesis` has
  three, so that sessions before and after one that ended can be stored at the export.
* `EpochBound` is twice the largest `ActiveEpochCount`, so that keys leave the window and
  come back.
* `QueueBound`, at two, bounds the blocks with queued retries of messages, so that an old
  queue entry can meet a message that has been retried since.
* `FailureBound` bounds failures: of signing requests, because each uses up a request
  ID; of sends and packets at two, so that a retry can fail again. `NonceBound`
  bounds transfers at two, so that one can be merged into, overtake or fail beside
  another. `OutsideBound` lets one packet of somebody else come between.
* The bitmaps grow from one through four and shrink to three; with `Window` two and
  `MarkBound` four they wrap around before and after the migration. Proxies are
  interchangeable (symmetry); the validators are not, one has no weight.
* The broadcaster has three callers, batches from two tasks on and of three messages at
  most, and one retry: the smallest values with which a batch is full, a task waits while
  another is sent, and a retry follows a timeout. Fees are zero and three, which two
  messages do not share evenly.
* Limits per block are one, the smallest value, which leaves the most work to later
  blocks; the IBC end blocker takes two, so that one of a batch can fail.

Deadlock is checked in all runs except the two of rotation (all epochs within the bound
are used up) and the two of the broadcaster (all calls are answered).

### Fairness

* End blockers are weakly fair: consensus produces blocks. For polls this includes that
  an end blocker does not fail in every block; for sessions one that fails counts as a
  step, and the sessions it leaves behind are excepted from `KeygensEnd`.
* Transactions that need somebody to act are fair only where the claim is about what
  happens if somebody does: `SignCommands`, `RetryFailedEvent`, `RouteMessageTx`,
  `RouteIBCTransfers`, `RetryIBCTransfer`, and relayers who settle packets. Anybody may
  send them. Strong fairness is used where a deactivated chain can disable them again and
  again.
* `HandleSigning` is strongly fair (there is at most one open request): signing sessions
  always end, which is the liveness part of `ImplementsSigningService`.
* In `Broadcaster` only the goroutine is weakly fair. Its timeouts fire; nothing is
  assumed of callers, node and network.

## 4. Proofs

TLAPS checks the theorems for every value of the constants that satisfies the named
assumptions; TLC evaluates those assumptions on the instances of the runs. Type
invariants (`PollTypes`, `RotationTypes`, `FlowTypeCorrect`) are proved and not run.

* **PollsAndKeysProofs**, polls. Assumes finite voters, weights that are additive over disjoint sets
  (`IsSnapshot`), and the ranges `Params.Validate` enforces. The inductive invariant
  `IInv` joins the types, the agreement of queue and polls, that polls not yet opened are
  not closed, and `PollInv` for every poll: its votes are well formed (`WellFormed`:
  only participants vote, late voters have voted and exist only after the decision, the
  passing weight is that of the snapshot and within the participants' weight), a completed
  poll has a quorum of votes in time, a pending one can still pass and a failed one could
  not. `WellFormed` is needed because `cannotWin` compares the heaviest tally with the
  weight that is left, and only votes of participants make the tallies and that rest add
  up to the weight of the snapshot. `FairVerdicts` assumes thresholds above one half:
  then two values cannot both have passing weight, and late votes cannot move the
  majority away from the result.
* **PollsAndKeysProofs**, key rotation. `RotationInv` joins the types, `KeysReady` and
  `OneUsePerKey`; the last two need each other: a rotation deactivates the key that leaves
  one window, which leaves all other windows ready only because no other epoch in use has
  that key.
  The theorems on the window assume that `ActiveEpochCount` is never raised: after a
  raise an epoch is deactivated a second time, and its key may have been assigned to
  another chain since. `NoneLeftActive` assumes that it is never lowered.
  `RotationsRecovered` is about `InitGenesis` alone; it holds also where validation
  refuses the file.
* **MultisigSessionsProofs**. Assumes valid thresholds, positive timeouts, snapshots
  with additive weights, and genesis keys that pass the validation of `x/multisig`.
  `SessionsInv` says of both kinds of sessions that the expiry index has exactly one entry
  for every stored session, at its expiry or, once it is completed, at the end of its grace period
  if that comes first (`Scheduled`); a session that the end blocker of that height did not
  delete is one whose handling failed. This is proved once for an arbitrary index
  (`StoreScheduled`, `BlockScheduled`) and used for keygen and signing. A key is stored
  only by a keygen that reached the keygen threshold, which `StartKeygen` compares with
  the signing threshold of the key; what meets a threshold meets every lower one
  (`LowerThreshold`), so `KeysCanSign` survives changes of both parameters. `SafeSigningService` is the step
  simulation: every step of the sessions is a step of the service or a stutter.
* **CommandBatchesProofs**, batches of commands. Assumes that a new batch ID is one not used before.
  `BatchInv` joins the shape of the records; that only the latest batch may be unsigned
  and that the at most one request that waits is for it, with its key (`SignInv`); and
  that nothing follows the latest batch while each earlier one has one follower
  (`ChainInv`). `SignInv` is what makes the chain linear: a new batch is created only
  when the latest is signed.
* **CommandBatchesProofs**, the queue of commands. `TakenFromQueue` shows what a new
  batch gets from any finite queue: the sorted list exists and has every command
  (`SortedExists`, `SortedIsAll`), and its prefix that fits is of one key and ahead of all
  that is left. `PlaceInv` says that what left the queue is in one batch, that every batch
  is sorted, of its key and within the gas limit, and that batched commands are of no
  later block than queued ones. `NothingStranded` (`KeysStayUsable`) also needs
  `EpochsInv`: commands of an earlier key are of an earlier block than a transfer of
  operatorship, because transfers are created in transactions and keys rotated after
  them, by the end blocker. A rotation that follows an executed transfer therefore leaves
  no command of an earlier key in the queue or in the latest batch (`ExecutedLast`). One
  that was forced may leave some: `UsableInv` says that what waits is of one of the last
  `overtaken + 2` keys, where `overtaken` counts the forced transfers since. Nothing is
  assumed of `ActiveEpochCount`: its default in `x/multisig` is 5, which leaves room for
  three forced transfers in a row; with the value 1, which its validation allows, the
  theorem promises nothing.
* **NexusProofs**, messages. The conjunction of the properties is inductive. Three lemmas say
  what enqueueing, dequeueing and a new block do to a queue (the first element exists
  because the naturals are well-founded); one lemma reduces the index, command and packet
  properties to a statement about each single message (`MessageOK`), which every action
  keeps. `ConfirmedAreQueued` is needed for `CompletedHasMessage`: only because a
  dequeued event is confirmed has it no message yet.
* **IBCTransfersProofs**. Nothing is assumed of amounts. `PacketInv` says that sequences
  in use are below the next one and carry a transfer or a message but not both
  (`SequencesInv`), that transfers with an IBC transfer are archived (`ListInv`), and
  that the mapping from sequences to the pending transfers that are not queued is one to
  one (`FlightInv`). The lemma `NewSequences` shows that the transfers of a batch get
  different new sequences. `NeverRoutedTwice` follows from `ListInv`: no ID is enqueued
  again, so `EnqueueIBCTransfer` does not panic.
* **IBCFundsProofs**, and the theorems on funds in **IBCTransfersProofs**. `FundsInv`
  says what the escrow, the account and every recipient's claim are sums of, with the
  types and that deposits are merged (`MergedInv`). It is inductive together with
  `PacketInv`: a packet that fails gives back the amount of its transfer only because it
  carries that amount and is mapped to that transfer alone. Every action moves some
  transfers from one of the summed sets to another, so that three lemmas (`EscrowMoved`,
  `AccountMoved`, `OwedMoved`) do the arithmetic for all of them, and `AmountReplaced` the
  one for a deposit that is merged with earlier ones. What they use of sums is the
  definition `SumFacts`, a hypothesis of every lemma of `IBCFundsProofs`;
  `IBCTransfersProofs` proves it (`SumsHold`), so that no theorem depends on it.
  `FeesStayInBounds` follows from the bounds of `ComputeTransferFee` (`FeeBounds`).
* **TokenDeploymentsProofs**. Assumes that a gateway deploys tokens at addresses that
  hold no other token. `DeploymentInv` says that the two lookups have the same tokens at
  different addresses (`TokensInv`), that a token has at most one log, from its own
  command (`LogsInv`), and that an event is confirmed exactly while it is queued, its token
  pending until then and confirmed afterwards (`EventsInv`). The events that wait are a
  parameter, because the end blocker applies several in one step: `AppliedAll` follows
  the state after each of them.
* **NexusProofs**, chain maintainers. `ProxiesOneToOne` is inductive because a
  registration looks at both stores. `RewardsOfMaintainers` needs no strengthening: every
  way out of the maintainers clears the rewards in the same step. `MarksInv` (for
  `CountsMatchVotes` and `RemovedForCause`) says of both bitmaps of a maintainer that the
  value at the index is the sum of all marks since the registration, that the positions
  before it hold the sums of the marks before, as far back as the buffer reaches
  (`Holds`), that the maximal size is the old one until the migration and the new one
  after it (`BitmapSize`), and that whoever is no maintainer has no marks. `GrownHolds`,
  `AddHolds` and `ShrunkHolds` show that doubling, adding with wrap-around and the
  migration keep this; `CountIs` that the difference of two such sums is the count over
  the window.
* **ValdProofs**, transactions of vald. `SequenceInv` says that the tx factory is never
  ahead of the account and the node never behind it; hence every transaction the network
  may still include has the account's present sequence, and including one drops the
  others. `RefundInv` (for `FeesCoverRefunds`) has two arguments. Within a transaction,
  the messages are followed one by one (`RunStep`): what has been refunded and the shares
  of the requests that are still to run never exceed the fee, as the share of a request
  is recorded once, before any message runs, and deleted when it is paid. Over all
  transactions, the ante handler adds no more than the fee to the sum of what is pending
  (`SharesAdd`), and a message that is refunded takes the same amount from the fee
  collector and from that sum (`ExcessStep`). `AnswerInv` (for `TruthfulAnswers`) follows
  a transaction from the calls taken to its outcome: `Carried` says that the messages to
  be sent are all messages of each call but those reported as failing, and at least one of
  them, which holds across retries because only a call that is alone loses messages and
  the last one is never left out (`WithoutRange`).

The library's rules of induction cannot be used (they take an operator), so that facts
about all numbers, sets or steps of a loop are proved from a least counterexample:
`LeastNatural`, `SmallestSet`, `LeastElement` rest on the well-foundedness of the
naturals. That is enough for recursive functions (`SumsUnique` and `SumsExist` show what
the sum over a finite set is, `RunsExist` and `AppliesExist` that the states of a loop
exist). `USE SMTT(20), ZenonT(10)` at the head of a module allows the provers more time.

Only model-checked:

* liveness (`EveryPollCloses`, `KeygensEnd`, `CommandsSigned`, `MessagesArrive`,
  `TransfersArrive`, `CallsAnswered`, and the fairness of `ImplementsSigningService`):
  TLAPS does not reason about fairness or ENABLED;
* the violation runs.

## 5. Not modelled

* **vald**: its event loop saves a height while handlers run concurrently. What is
  delivered, in which order and after which crash, is decided by the event bus of another
  repository, whose promises the code here does not state. The finality check of
  `vald/evm` (receipts, finalized height and its cache) depends on the EVM clients in the
  same way. Both are listed as hazards without a property. The transactions vald sends
  are in `Broadcaster`, the log it looks for in a deployment is in `TokenDeployments`.
* **x/nexus**: registration of chains and assets, the switch of the Wasm connection, and
  minting, burning and vouchers among the lockable assets. `IBCTransfers` has an asset
  native to Axelar. `EnqueueTransfer` has no caller in this version, so deposits are
  inputs of the model. The migration of coins under the old escrow scheme is left out.
* **x/reward**: amounts, inflation and the pool of key management; only who has rewards
  and who loses them.
* **x/multisig, x/evm**: `ActiveEpochCount` that is raised (see 4.), the export of
  batches to a genesis file, gateway bytecode and ABI encoding.
* **x/permission, x/ante** (apart from the refund), **x/distribution, x/bank, x/tss**:
  tables of roles, checks of single transactions, and wrappers of SDK keepers, without a
  protocol of several steps. Batches of messages (`x/auxiliary`) are in `Refunds`.
* Wiring, command line, queries, protobuf encodings, address formats and validation,
  event emission, logging, telemetry, and upgrade migrations except `Migrate8to9`.
* The Cosmos SDK, IBC core (packets are delivered, acknowledged or timed out in any
  order), tofnd, EVM chains and the wasm contracts are external.
