----------------------------- MODULE KeyRotation -----------------------------
(***************************************************************************)
(* The keys of x/multisig and their assignment to chains.                  *)
(*                                                                         *)
(* A key is created inactive by a key generation, assigned as the next key *)
(* of one chain, activated when that chain rotates to it and deactivated   *)
(* ActiveEpochCount rotations later.  The state belongs to the key, the    *)
(* epochs to the chains; nothing but these operations ties the two.        *)
(***************************************************************************)
EXTENDS Integers, Sequences

CONSTANTS
    Chains,             \* chains with keys
    KeyIDs,             \* key IDs
    ActiveEpochCounts,  \* values of the parameter ActiveEpochCount
    ParamChanges,       \* changes <<old, new>> governance makes to it
    EpochBound          \* bound on the number of epochs of a chain

ASSUME EpochAssumption ==
    /\ ActiveEpochCounts \subseteq Nat \ {0}
    /\ ParamChanges \subseteq ActiveEpochCounts \X ActiveEpochCounts
    /\ EpochBound \in Nat

VARIABLES
    keyState,         \* "none" before the key exists, then exported.KeyState
    epochs,           \* KeyEpoch entries of a chain: key IDs by epoch, from 1
    rotationCount,    \* current epoch of a chain, 0 before its first key
    activeEpochCount  \* parameter ActiveEpochCount

rotationVars == <<keyState, epochs, rotationCount, activeEpochCount>>

KeyStates == {"none", "Inactive", "Assigned", "Active"}

-----------------------------------------------------------------------------
RotationInit ==
    /\ keyState = [k \in KeyIDs |-> "none"]
    /\ epochs = [c \in Chains |-> <<>>]
    /\ rotationCount = [c \in Chains |-> 0]
    /\ activeEpochCount \in ActiveEpochCounts

HasNextKey(c) == Len(epochs[c]) > rotationCount[c]
HasCurrentKey(c) == rotationCount[c] > 0
CurrentKeyID(c) == epochs[c][rotationCount[c]]
NextKeyID(c) == epochs[c][rotationCount[c] + 1]

\* mutant: the search also stops at the assigned next key
GetActiveKeyIDs_StopsAtNext(c) ==
    {epochs[c][i] : i \in {j \in DOMAIN epochs[c] :
        \A l \in DOMAIN epochs[c] : l >= j => keyState[epochs[c][l]] = "Active"}}

(***************************************************************************)
(* GetActiveKeyIDs: from the latest epoch back to the first one whose key  *)
(* is inactive, the active keys on the way.  Its one caller, the ante      *)
(* handler that restricts unbonding, looks at each of them: a set.         *)
(***************************************************************************)
GetActiveKeyIDs(c) ==
    {epochs[c][i] : i \in {j \in DOMAIN epochs[c] :
        /\ keyState[epochs[c][j]] = "Active"
        /\ \A l \in DOMAIN epochs[c] : l > j => keyState[epochs[c][l]] # "Inactive"}}

\* a finished key generation stores its key
SetKey(k) ==
    /\ keyState[k] = "none"
    /\ keyState' = [keyState EXCEPT ![k] = "Inactive"]
    /\ UNCHANGED <<epochs, rotationCount, activeEpochCount>>

\* mutant: whether the key is in use already is not checked
AssignKey_AnyState(c, k) ==
    /\ keyState[k] # "none"
    /\ ~ HasNextKey(c)
    /\ Len(epochs[c]) < EpochBound
    /\ keyState' = [keyState EXCEPT ![k] = "Assigned"]
    /\ epochs' = [epochs EXCEPT ![c] = Append(@, k)]
    /\ UNCHANGED <<rotationCount, activeEpochCount>>

AssignKey(c, k) ==
    /\ keyState[k] = "Inactive"
    /\ ~ HasNextKey(c)
    /\ Len(epochs[c]) < EpochBound
    /\ keyState' = [keyState EXCEPT ![k] = "Assigned"]
    /\ epochs' = [epochs EXCEPT ![c] = Append(@, k)]
    /\ UNCHANGED <<rotationCount, activeEpochCount>>

\* mutant: the window of active epochs is one too short
deactivateKeyAtEpoch_TooEarly(states, c, epoch) ==
    IF epoch >= activeEpochCount
    THEN [states EXCEPT ![epochs'[c][epoch - activeEpochCount + 1]] = "Inactive"]
    ELSE states

\* the key of the epoch that leaves the window of active epochs
deactivateKeyAtEpoch(states, c, epoch) ==
    IF epoch > activeEpochCount
    THEN [states EXCEPT ![epochs'[c][epoch - activeEpochCount]] = "Inactive"]
    ELSE states

(***************************************************************************)
(* RotateKey, called by x/evm when the operatorship transfer to the next   *)
(* key is confirmed.  A next key that is not assigned makes it panic.      *)
(***************************************************************************)
RotateKey(c) ==
    /\ HasNextKey(c)
    /\ keyState[NextKeyID(c)] = "Assigned"
    /\ epochs' = epochs
    /\ LET epoch == rotationCount[c] + 1
           activated == [keyState EXCEPT ![NextKeyID(c)] = "Active"]
       IN  /\ rotationCount' = [rotationCount EXCEPT ![c] = epoch]
           /\ keyState' = deactivateKeyAtEpoch(activated, c, epoch)
    /\ UNCHANGED activeEpochCount

\* msgServer.RotateKey: the first key of a chain is assigned and rotated to at once
ManualRotateKey(c, k) ==
    /\ ~ HasCurrentKey(c)
    /\ ~ HasNextKey(c)
    /\ keyState[k] = "Inactive"
    /\ Len(epochs[c]) < EpochBound
    /\ epochs' = [epochs EXCEPT ![c] = Append(@, k)]
    /\ rotationCount' = [rotationCount EXCEPT ![c] = 1]
    /\ keyState' = deactivateKeyAtEpoch([keyState EXCEPT ![k] = "Active"], c, 1)
    /\ UNCHANGED activeEpochCount

\* CreateTransferOperatorship: assigns the next key of a chain that has a current one
TransferOperatorship(c, k) == HasCurrentKey(c) /\ AssignKey(c, k)

UpdateParams ==
    /\ \E change \in ParamChanges :
           /\ activeEpochCount = change[1]
           /\ activeEpochCount' = change[2]
    /\ UNCHANGED <<keyState, epochs, rotationCount>>

RotationNext ==
    \/ \E k \in KeyIDs : SetKey(k)
    \/ \E c \in Chains, k \in KeyIDs : ManualRotateKey(c, k)
    \/ \E c \in Chains, k \in KeyIDs : TransferOperatorship(c, k)
    \/ \E c \in Chains : RotateKey(c)
    \/ UpdateParams

RotationSpec == RotationInit /\ [][RotationNext]_rotationVars
-----------------------------------------------------------------------------
(* The genesis state, exported from the current state.                     *)

\* mutant: the last epoch is taken to be the current one
ImportedRotationCount_Last(c) == Len(epochs[c])

\* InitGenesis: the state of the last epoch's key tells which epoch is the current one
ImportedRotationCount(c) ==
    LET last == Len(epochs[c])
    IN  IF last = 0 THEN 0
        ELSE CASE keyState[epochs[c][last]] = "Assigned" -> last - 1
               [] keyState[epochs[c][last]] = "Active" -> last
               [] OTHER -> 0 - 1  \* panic

\* what GenesisState.Validate asks of the epochs: no key twice, none but the last key of a
\* chain assigned, and none inactive
validateKeyEpochs ==
    /\ \A c, d \in Chains : \A i \in DOMAIN epochs[c], j \in DOMAIN epochs[d] :
           epochs[c][i] = epochs[d][j] => c = d /\ i = j
    /\ \A c \in Chains : \A i \in DOMAIN epochs[c] :
           \/ keyState[epochs[c][i]] = "Active"
           \/ keyState[epochs[c][i]] = "Assigned" /\ i = Len(epochs[c])

-----------------------------------------------------------------------------
(* Type invariant: epochs are numbered without gaps up to the next key.    *)
RotationTypeOK ==
    /\ keyState \in [KeyIDs -> KeyStates]
    /\ epochs \in [Chains -> Seq(KeyIDs)]
    /\ rotationCount \in [Chains -> Nat]
    /\ activeEpochCount \in ActiveEpochCounts
    /\ \A c \in Chains : Len(epochs[c]) - rotationCount[c] \in {0, 1}

\* epochs of chain c whose key may still sign, and those whose key is in use at all
ActiveWindow(c) ==
    {i \in DOMAIN epochs[c] : i <= rotationCount[c] /\ i + activeEpochCount > rotationCount[c]}
InUse(c) == {i \in DOMAIN epochs[c] : i + activeEpochCount > rotationCount[c]}

(***************************************************************************)
(* Every key in a chain's window is active and its next key is assigned,   *)
(* although old keys can be assigned again, to the same or another chain:  *)
(* the current key can always sign and RotateKey never panics.  Holds      *)
(* while ActiveEpochCount is not raised.                                   *)
(***************************************************************************)
KeysReady ==
    \A c \in Chains : \A i \in InUse(c) :
        keyState[epochs[c][i]] = IF i \in ActiveWindow(c) THEN "Active" ELSE "Assigned"

(***************************************************************************)
(* A key serves one epoch of one chain at a time: no two of the epochs in  *)
(* use, of the same or of different chains, share a key.                   *)
(***************************************************************************)
OneUsePerKey ==
    \A c, d \in Chains : \A i \in InUse(c), j \in InUse(d) :
        epochs[c][i] = epochs[d][j] => c = d /\ i = j

(***************************************************************************)
(* A key outside every window is not active: a retired key does not sign,  *)
(* unless it was assigned again.  Holds while ActiveEpochCount is not      *)
(* lowered: RotateKey deactivates one epoch, so the others a smaller count *)
(* drops from the window stay active for good.                             *)
(***************************************************************************)
RetiredKeysInactive ==
    \A k \in KeyIDs : keyState[k] \in {"Assigned", "Active"} =>
        \E c \in Chains : \E i \in InUse(c) : epochs[c][i] = k

(***************************************************************************)
(* GetActiveKeyIDs returns at least the keys of the window: validators     *)
(* that hold a share of a key that may sign are kept from unbonding.       *)
(***************************************************************************)
ActiveKeysFound ==
    \A c \in Chains : {epochs[c][i] : i \in ActiveWindow(c)} \subseteq GetActiveKeyIDs(c)

(***************************************************************************)
(* InitGenesis on an exported state gives a chain its current and its next *)
(* key back: the rotation count, which is not exported, is recovered from  *)
(* the state of the last key.  InitGenesis does not call Validate, and the *)
(* property includes the states that Validate refuses (ExportValidates).   *)
(***************************************************************************)
GenesisKeepsRotations ==
    \A c \in Chains : ImportedRotationCount(c) = rotationCount[c]

(***************************************************************************)
(* What the genesis test asserts of every state it exports: ExportGenesis  *)
(* returns a state that GenesisState.Validate accepts.                     *)
(***************************************************************************)
ExportValidates == validateKeyEpochs
=============================================================================
