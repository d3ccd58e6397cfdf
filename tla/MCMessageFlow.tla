---------------------------- MODULE MCMessageFlow ----------------------------
(* Instances of MessageFlow for model checking.                            *)
EXTENDS MessageFlow

\* from an EVM chain to another with a token, from a cosmos chain to the gateway contract,
\* and from the contract to a cosmos chain
MCMessages == 1..3
MCFrom == <<"evm1", "cosmos", "wasm">>
MCTo == <<"evm2", "wasm", "cosmos">>
MCTokens == {1}
=============================================================================
