--------------------------- MODULE TokenDeployments ---------------------------
(***************************************************************************)
(* The tokens of one EVM chain (x/evm): a token is created under its asset *)
(* and its symbol, deployed by the gateway, and confirmed by a poll on the *)
(* deployment's transaction.  Requests find the token by its asset, the    *)
(* end blocker finds it by the symbol in the event.                        *)
(*                                                                         *)
(* The gateway is external: it executes every command once, any number of  *)
(* commands in a transaction.  A poll ends with what the voters' vald sees *)
(* in the transaction, or with nothing.  The chain has a current key.      *)
(***************************************************************************)
EXTENDS Integers, Sequences, FiniteSetsExt

CONSTANTS
    Assets, Symbols,
    OriginAssets,       \* assets registered on the chain that they come from
    Addresses,          \* addresses of tokens that exist on the EVM chain already
    Gateways,
    Txs,                \* transactions on the EVM chain
    EndBlockerLimit,
    PollBound,          \* bound on the polls that run on a transaction for an asset
    Zero, None          \* the zero address, nothing

\* a gateway deploys its tokens at addresses of their own
ASSUME TokensAssumption ==
    /\ OriginAssets \subseteq Assets
    /\ EndBlockerLimit \in Nat \ {0} /\ PollBound \in Nat \ {0}
    /\ Zero \notin Addresses /\ Addresses \cap (Gateways \X Symbols) = {}

VARIABLES
    activated,    \* the chain is activated
    registered,   \* assets registered on the chain
    gateway,
    byAsset,      \* token metadata by asset
    bySymbol,     \* token metadata by symbol
    commands,     \* assets with a deploy command that has not been executed
    logs,         \* TokenDeployed logs of the gateway, each with its transaction
    polls,        \* number of polls on every asset and transaction
    events,       \* status of the event of every log
    queue         \* queue of confirmed events

vars == <<activated, registered, gateway, byAsset, bySymbol, commands, logs, polls, events, queue>>

-----------------------------------------------------------------------------
(* Token metadata.                                                         *)

\* the bits of the status
NonExistent == {}
Initialized == {"initialized"}
Pending == {"pending"}
Confirmed == {"confirmed"}

TokenMetadata ==
    [asset : Assets, symbol : Symbols, status : SUBSET (Initialized \cup Pending \cup Confirmed),
     txHash : Txs \cup {None}, address : Addresses \cup (Gateways \X Symbols)]

ASSUME NoneAssumption == None \notin TokenMetadata

Token(metadata) == IF metadata = None THEN [status |-> NonExistent] ELSE metadata

Is(token, status) == IF status = NonExistent THEN token.status = NonExistent ELSE status \subseteq token.status

\* mutant: the lookup by symbol keeps what it has
setTokenMetadata_ByAsset(stores, token) == [stores EXCEPT !.byAsset[token.asset] = token]

setTokenMetadata(stores, token) ==
    [byAsset |-> [stores.byAsset EXCEPT ![token.asset] = token],
     bySymbol |-> [stores.bySymbol EXCEPT ![token.symbol] = token]]

stored == [byAsset |-> byAsset, bySymbol |-> bySymbol]

Store(stores) == byAsset' = stores.byAsset /\ bySymbol' = stores.bySymbol

\* the address that the gateway will give the token
getTokenAddress(symbol) == <<gateway, symbol>>

-----------------------------------------------------------------------------
(* Requests.                                                               *)

SetGateway(g) ==
    /\ activated /\ gateway = None
    /\ gateway' = g
    /\ UNCHANGED <<activated, registered, byAsset, bySymbol, commands, logs, polls, events, queue>>

\* CreateERC20Token
initTokenMetadata(asset, symbol, address) ==
    /\ Is(Token(byAsset[asset]), NonExistent)
    /\ Is(Token(bySymbol[symbol]), NonExistent)
    /\ address = Zero => gateway # None
    /\ Store(setTokenMetadata(stored,
             [asset |-> asset, symbol |-> symbol, status |-> Initialized, txHash |-> None,
              address |-> IF address = Zero THEN getTokenAddress(symbol) ELSE address]))

\* a token of its own needs its asset on the origin chain, an external one a new asset and address
CanDeploy(asset, address) ==
    IF address = Zero
    THEN asset \in OriginAssets \cup registered
    ELSE /\ asset \notin OriginAssets \cup registered
         /\ \A other \in Assets : byAsset[other] # None => byAsset[other].address # address

CreateDeployToken(asset, symbol, address) ==
    /\ activated
    /\ CanDeploy(asset, address)
    /\ initTokenMetadata(asset, symbol, address)
    /\ commands' = commands \cup {asset}
    /\ registered' = registered \cup {asset}
    /\ UNCHANGED <<activated, gateway, logs, polls, events, queue>>

RecordDeployment(token, tx) == [token EXCEPT !.txHash = tx, !.status = @ \cup Pending]

CanRecord(token) == ~Is(token, NonExistent) /\ ~Is(token, Confirmed)

\* without a gateway the handler panics, and nothing is stored
ConfirmToken(asset, tx) ==
    LET token == Token(byAsset[asset])
    IN  /\ activated /\ gateway # None
        /\ CanRecord(token)
        /\ polls[<<asset, tx>>] < PollBound
        /\ Store(setTokenMetadata(stored, RecordDeployment(token, tx)))
        /\ polls' = [polls EXCEPT ![<<asset, tx>>] = @ + 1]
        /\ UNCHANGED <<activated, registered, gateway, commands, logs, events, queue>>

ActivateChain ==
    /\ ~activated /\ activated' = TRUE
    /\ UNCHANGED <<registered, gateway, byAsset, bySymbol, commands, logs, polls, events, queue>>

DeactivateChain ==
    /\ activated /\ activated' = FALSE
    /\ UNCHANGED <<registered, gateway, byAsset, bySymbol, commands, logs, polls, events, queue>>

-----------------------------------------------------------------------------
(* The gateway and the polls.                                              *)

\* commands are executed in one transaction
Execute(assets, tx) ==
    /\ gateway # None
    /\ \A log \in logs : log.tx # tx
    /\ commands' = commands \ assets
    /\ logs' = logs \cup {[tx |-> tx, symbol |-> byAsset[a].symbol, address |-> byAsset[a].address] : a \in assets}
    /\ UNCHANGED <<activated, registered, gateway, byAsset, bySymbol, polls, events, queue>>

\* mutant: the logs of other tokens are taken as well
processTokenConfirmationLogs_Any(asset, tx) == {log \in logs : log.tx = tx}

\* the log that a vald votes for, if there is one
processTokenConfirmationLogs(asset, tx) ==
    {log \in logs : log.tx = tx /\ log.address = byAsset[asset].address /\ log.symbol = byAsset[asset].symbol}

\* a poll on an event that has been confirmed before has no effect
HandleResult(log) ==
    IF log \in DOMAIN events
    THEN UNCHANGED <<events, queue>>
    ELSE /\ events' = [l \in DOMAIN events \cup {log} |-> IF l = log THEN "confirmed" ELSE events[l]]
         /\ queue' = Append(queue, log)

\* a poll completes, with or without an event, fails or expires
EndPoll(asset, tx) ==
    /\ polls[<<asset, tx>>] > 0
    /\ polls' = [polls EXCEPT ![<<asset, tx>>] = @ - 1]
    /\ \/ \E log \in processTokenConfirmationLogs(asset, tx) : HandleResult(log)
       \/ UNCHANGED <<events, queue>>
    /\ UNCHANGED <<activated, registered, gateway, byAsset, bySymbol, commands, logs>>

-----------------------------------------------------------------------------
(* The end blocker.                                                        *)

CanApply(token, log) == ~Is(token, NonExistent) /\ token.address = log.address /\ Is(token, Pending)

ConfirmDeployment(token) == [token EXCEPT !.status = Confirmed]

\* applyTokenDeployment on a cached store, and the status of the event after it
processConfirmedEvent(state, log) ==
    LET token == Token(state.stores.bySymbol[log.symbol])
    IN  IF CanApply(token, log)
        THEN [stores |-> setTokenMetadata(state.stores, ConfirmDeployment(token)),
              events |-> [state.events EXCEPT ![log] = "completed"]]
        ELSE [stores |-> state.stores, events |-> [state.events EXCEPT ![log] = "failed"]]

processConfirmedEvents ==
    LET n == Min({EndBlockerLimit, Len(queue)})
        run[k \in 0..n] == IF k = 0 THEN [stores |-> stored, events |-> events]
                           ELSE processConfirmedEvent(run[k - 1], queue[k])
    IN  /\ queue # <<>>
        /\ Store(run[n].stores) /\ events' = run[n].events
        /\ queue' = SubSeq(queue, n + 1, Len(queue))
        /\ UNCHANGED <<activated, registered, gateway, commands, logs, polls>>

-----------------------------------------------------------------------------
Init ==
    /\ activated = TRUE /\ registered = {} /\ gateway = None
    /\ byAsset = [a \in Assets |-> None] /\ bySymbol = [s \in Symbols |-> None]
    /\ commands = {} /\ logs = {} /\ polls = [p \in Assets \X Txs |-> 0]
    /\ events = [l \in {} |-> None] /\ queue = <<>>

Next ==
    \/ \E g \in Gateways : SetGateway(g)
    \/ \E a \in Assets, s \in Symbols, address \in Addresses \cup {Zero} : CreateDeployToken(a, s, address)
    \/ \E a \in Assets, tx \in Txs : ConfirmToken(a, tx) \/ EndPoll(a, tx)
    \/ \E assets \in SUBSET commands \ {{}}, tx \in Txs : Execute(assets, tx)
    \/ ActivateChain \/ DeactivateChain
    \/ processConfirmedEvents

Spec == Init /\ [][Next]_vars

-----------------------------------------------------------------------------
(* Properties.                                                             *)

Tokens == {byAsset[a] : a \in {b \in Assets : byAsset[b] # None}}

\* setTokenMetadata stores a token twice: requests, which find it by its asset, and the
\* end blocker, which finds it by its symbol, always see the same token, whichever of
\* them wrote last, and no two tokens share a symbol or an address.
LookupsAgree ==
    /\ Tokens = {bySymbol[s] : s \in {t \in Symbols : bySymbol[t] # None}}
    /\ \A t, u \in Tokens : t # u => t.symbol # u.symbol /\ t.address # u.address

\* A token is confirmed exactly when the end blocker completed the event of its own
\* deployment, at its own address: polls on other transactions, polls that run at the
\* same time and a confirmation that is started again neither confirm it twice nor take
\* the confirmation back, and no deployment's event fails.
ConfirmedByDeployment ==
    /\ \A t \in Tokens : Is(t, Confirmed) <=>
          \E log \in DOMAIN events :
              log.symbol = t.symbol /\ log.address = t.address /\ events[log] = "completed"
    /\ \A log \in DOMAIN events : events[log] # "failed"
=============================================================================
