-------------------------- MODULE MultisigSessions --------------------------
(***************************************************************************)
(* Key generation and signing sessions of x/multisig.                      *)
(*                                                                         *)
(* A session collects one submission per participant, completes as soon as *)
(* the submitters have the passing weight, keeps accepting submissions in  *)
(* its grace period, and is handled by the end blocker of the block before *)
(* the height under which it is indexed: its expiry or, once completed,    *)
(* the end of its grace period if that comes first.  A completed keygen    *)
(* becomes a key; a signing ends in exactly one callback of the module     *)
(* that asked for it.                                                      *)
(*                                                                         *)
(* A transaction is one step and a rejected one a stutter.  The end        *)
(* blocker is one step: the code runs it on a branched store, and each     *)
(* signing session in a branch of its own, that is dropped when a payout   *)
(* or the callback fails.                                                  *)
(***************************************************************************)
EXTENDS Naturals, FiniteSets, Snapshot

CONSTANTS
    Validators,   \* validators
    KeyIDs,       \* key IDs
    Snapshots,    \* snapshots of bonded validators
    ParamValues,  \* values of the module parameters
    GenesisKeys,  \* key IDs -> keys in the genesis state
    OptOuts,      \* validators that opt out of keygens and in again
    NoSnapshot,   \* placeholder
    SigBound,     \* bound on the number of signing sessions
    MaxHeight     \* bound on the block height; the clock stops there

SigIDs == 0 .. (SigBound - 1)

\* utils.Threshold.LT, negated: t is at least u
GTE(t, u) == t.num * u.den >= t.den * u.num

\* keys of participants of a snapshot
AllKeys ==
    [snap : Snapshots,
     threshold : {p.signingThreshold : p \in ParamValues}
                    \cup {GenesisKeys[k].threshold : k \in DOMAIN GenesisKeys},
     pubKeys : SUBSET Validators]

(***************************************************************************)
(* Params.Validate and, for genesis keys, Key.ValidateBasic.  The check    *)
(* that the keygen threshold is not below the signing threshold is in      *)
(* StartKeygen.                                                            *)
(***************************************************************************)
ASSUME SessionAssumption ==
    /\ IsFiniteSet(Validators)
    /\ OptOuts \subseteq Validators
    /\ \A s \in Snapshots : IsSnapshot(s, Validators)
    /\ \A p \in ParamValues :
          /\ IsThreshold(p.keygenThreshold) /\ IsThreshold(p.signingThreshold)
          /\ p.keygenTimeout \in Nat \ {0} /\ p.signingTimeout \in Nat \ {0}
          /\ p.keygenGrace \in Nat /\ p.signingGrace \in Nat
    /\ DOMAIN GenesisKeys \subseteq KeyIDs
    /\ \A k \in DOMAIN GenesisKeys :
          LET key == GenesisKeys[k]
          IN  /\ key \in AllKeys
              /\ IsThreshold(key.threshold)
              /\ key.pubKeys \subseteq key.snap.participants
              /\ key.snap.weight[key.pubKeys] >= CalculateMinPassingWeight(key.snap.bonded, key.threshold)
    /\ SigBound \in Nat
    /\ MaxHeight \in Nat \ {0}

VARIABLES
    height,         \* height of the block being executed
    params,         \* module parameters
    optedOut,       \* validators whose proxy opted out of keygens
    keygens,        \* keygen sessions by key ID
    keygenExpiry,   \* expiry index of the keygen sessions: <<height, key ID>>
    keys,           \* keys by ID
    active,         \* keys in state Active
    signings,       \* signing sessions by ID
    signingExpiry,  \* expiry index of the signing sessions: <<height, ID>>
    sigCount,       \* next signing session ID
    outcome,        \* history: callback made for a signing session, with the session
    dropped         \* history: sessions whose handling was rolled back

keygenVars == <<keygens, keygenExpiry>>
signingVars == <<signings, signingExpiry, sigCount>>
sessionVars == <<height, params, optedOut, keygenVars, keys, active, signingVars, outcome, dropped>>

NoKey == [snap |-> NoSnapshot, threshold |-> NoSnapshot, pubKeys |-> {}]
NoKeygen ==
    [state |-> "none", key |-> NoKey, threshold |-> NoSnapshot,
     expiresAt |-> 0, completedAt |-> 0, grace |-> 0]
NoSigning ==
    [state |-> "none", keyID |-> NoSnapshot, key |-> NoKey, sigs |-> {},
     expiresAt |-> 0, completedAt |-> 0, grace |-> 0]
NoOutcome == [callback |-> "none", session |-> NoSigning, at |-> 0]

-----------------------------------------------------------------------------
(* Sessions s at height h.                                                 *)

isExpired(s, h) == h >= s.expiresAt

\* mutant: the last block of the grace period is lost
isWithinGracePeriod_Short(s, h) == h < s.completedAt + s.grace

isWithinGracePeriod(s, h) == h <= s.completedAt + s.grace

IsOpen(s, h) ==
    /\ s.state # "none"
    /\ ~ isExpired(s, h)
    /\ s.state = "Completed" => isWithinGracePeriod(s, h)

PassingWeight(key, threshold) == CalculateMinPassingWeight(key.snap.bonded, threshold)
KeyWeight(key) == key.snap.weight[key.pubKeys]
SigWeight(s) == s.key.snap.weight[s.sigs]

Complete(s, h, enough) ==
    IF s.state # "Completed" /\ enough
    THEN [s EXCEPT !.state = "Completed", !.completedAt = h]
    ELSE s

AddKey(s, h, v) ==
    LET added == [s EXCEPT !.key.pubKeys = @ \cup {v}]
    IN  Complete(added, h, KeyWeight(added.key) >= PassingWeight(s.key, s.threshold))

\* mutant: one unit of weight too few
AddSig_OneShort(s, h, v) ==
    LET added == [s EXCEPT !.sigs = @ \cup {v}]
    IN  Complete(added, h, SigWeight(added) + 1 >= PassingWeight(s.key, s.key.threshold))

\* mutant: one unit of weight too many
AddSig_OneMore(s, h, v) ==
    LET added == [s EXCEPT !.sigs = @ \cup {v}]
    IN  Complete(added, h, SigWeight(added) > PassingWeight(s.key, s.key.threshold))

AddSig(s, h, v) ==
    LET added == [s EXCEPT !.sigs = @ \cup {v}]
    IN  Complete(added, h, SigWeight(added) >= PassingWeight(s.key, s.key.threshold))

\* mutant: the grace period ends one block early in the index
SessionExpiry_OneEarly(s) ==
    LET end == s.completedAt + s.grace
    IN  IF s.state = "Completed" /\ end < s.expiresAt THEN end ELSE s.expiresAt

\* height under which a session is indexed
SessionExpiry(s) ==
    LET end == s.completedAt + s.grace + 1
    IN  IF s.state = "Completed" /\ end < s.expiresAt THEN end ELSE s.expiresAt

\* setKeygenSession, setSigningSession: the entry moves when the session completes
Reindexed(index, s, id) == (index \ {<<s.expiresAt, id>>}) \cup {<<SessionExpiry(s), id>>}

-----------------------------------------------------------------------------
SessionsInit ==
    /\ height = 1
    /\ params \in ParamValues
    /\ optedOut = {}
    /\ keygens = [k \in KeyIDs |-> NoKeygen]
    /\ keygenExpiry = {}
    /\ keys = [k \in KeyIDs |-> IF k \in DOMAIN GenesisKeys THEN GenesisKeys[k] ELSE NoKey]
    /\ active = DOMAIN GenesisKeys
    /\ signings = [i \in SigIDs |-> NoSigning]
    /\ signingExpiry = {}
    /\ sigCount = 0
    /\ outcome = [i \in SigIDs |-> NoOutcome]
    /\ dropped = {}

\* mutant: the thresholds are not compared
StartKeygen_AnyThresholds(k) ==
    /\ keygens[k].state = "none"
    /\ keys[k] = NoKey
    /\ height + params.keygenTimeout <= MaxHeight
    /\ \E s \in Snapshots :
          LET new == [state |-> "Pending",
                      key |-> [snap |-> s, threshold |-> params.signingThreshold, pubKeys |-> {}],
                      threshold |-> params.keygenThreshold,
                      expiresAt |-> height + params.keygenTimeout,
                      completedAt |-> 0, grace |-> params.keygenGrace]
          IN  /\ s.participants \cap optedOut = {}
              /\ s.weight[s.participants] >= PassingWeight(new.key, new.threshold)
              /\ keygens' = [keygens EXCEPT ![k] = new]
              /\ keygenExpiry' = Reindexed(keygenExpiry, new, k)
    /\ UNCHANGED <<height, params, optedOut, keys, active, signingVars, outcome, dropped>>

(***************************************************************************)
(* StartKeygen: on a snapshot of validators that did not opt out and can   *)
(* meet the keygen threshold.                                              *)
(***************************************************************************)
StartKeygen(k) ==
    /\ keygens[k].state = "none"
    /\ keys[k] = NoKey
    /\ GTE(params.keygenThreshold, params.signingThreshold)
    /\ height + params.keygenTimeout <= MaxHeight
    /\ \E s \in Snapshots :
          LET new == [state |-> "Pending",
                      key |-> [snap |-> s, threshold |-> params.signingThreshold, pubKeys |-> {}],
                      threshold |-> params.keygenThreshold,
                      expiresAt |-> height + params.keygenTimeout,
                      completedAt |-> 0, grace |-> params.keygenGrace]
          IN  /\ s.participants \cap optedOut = {}
              /\ s.weight[s.participants] >= PassingWeight(new.key, new.threshold)
              /\ keygens' = [keygens EXCEPT ![k] = new]
              /\ keygenExpiry' = Reindexed(keygenExpiry, new, k)
    /\ UNCHANGED <<height, params, optedOut, keys, active, signingVars, outcome, dropped>>

SubmitPubKey(k, v) ==
    /\ IsOpen(keygens[k], height)
    /\ v \in keygens[k].key.snap.participants \ keygens[k].key.pubKeys
    /\ LET s == AddKey(keygens[k], height, v)
       IN  /\ keygens' = [keygens EXCEPT ![k] = s]
           /\ keygenExpiry' = Reindexed(keygenExpiry, s, k)
    /\ UNCHANGED <<height, params, optedOut, keys, active, signingVars, outcome, dropped>>

\* Sign, called by another module: the key must be active
Sign(k) ==
    /\ sigCount < SigBound
    /\ keys[k] # NoKey
    /\ k \in active
    /\ height + params.signingTimeout <= MaxHeight
    /\ LET new == [state |-> "Pending", keyID |-> k, key |-> keys[k], sigs |-> {},
                   expiresAt |-> height + params.signingTimeout,
                   completedAt |-> 0, grace |-> params.signingGrace]
       IN  /\ signings' = [signings EXCEPT ![sigCount] = new]
           /\ signingExpiry' = Reindexed(signingExpiry, new, sigCount)
    /\ sigCount' = sigCount + 1
    /\ UNCHANGED <<height, params, optedOut, keygenVars, keys, active, outcome, dropped>>

SubmitSignature(i, v) ==
    /\ IsOpen(signings[i], height)
    /\ v \in signings[i].key.pubKeys \ signings[i].sigs
    /\ LET s == AddSig(signings[i], height, v)
       IN  /\ signings' = [signings EXCEPT ![i] = s]
           /\ signingExpiry' = Reindexed(signingExpiry, s, i)
    /\ UNCHANGED <<height, params, optedOut, keygenVars, keys, active, sigCount, outcome, dropped>>

KeygenOptOut(v) ==
    /\ optedOut' = optedOut \cup {v}
    /\ UNCHANGED <<height, params, keygenVars, keys, active, signingVars, outcome, dropped>>

KeygenOptIn(v) ==
    /\ optedOut' = optedOut \ {v}
    /\ UNCHANGED <<height, params, keygenVars, keys, active, signingVars, outcome, dropped>>

UpdateParams ==
    /\ params' \in ParamValues
    /\ UNCHANGED <<height, optedOut, keygenVars, keys, active, signingVars, outcome, dropped>>

(***************************************************************************)
(* Keys are activated and deactivated by rotations (module KeyRotation);   *)
(* the sessions are correct whatever the rotations do.                     *)
(***************************************************************************)
ChangeActiveKeys ==
    /\ active' \in SUBSET {k \in KeyIDs : keys[k] # NoKey}
    /\ UNCHANGED <<height, params, optedOut, keygenVars, keys, signingVars, outcome, dropped>>

-----------------------------------------------------------------------------
NextBlock == height' = IF height < MaxHeight THEN height + 1 ELSE height

\* sessions the end blocker of height h looks up
DueAtEndOf(index, h) == {entry[2] : entry \in {e \in index : e[1] = h + 1}}

DueKeygens == DueAtEndOf(keygenExpiry, height)
DueSignings == DueAtEndOf(signingExpiry, height)

\* a lookup panics when an index entry has no session
Dangling ==
    \/ \E k \in DueKeygens : keygens[k].state = "none"
    \/ \E i \in DueSignings : signings[i].state = "none"

handleKeygens ==
    /\ keygens' = [k \in KeyIDs |-> IF k \in DueKeygens THEN NoKeygen ELSE keygens[k]]
    /\ keygenExpiry' = keygenExpiry \ {<<SessionExpiry(keygens[k]), k>> : k \in DueKeygens}
    /\ keys' = [k \in KeyIDs |->
                  IF k \in DueKeygens /\ keygens[k].state = "Completed"
                  THEN keygens[k].key ELSE keys[k]]

Callback(s) ==
    [callback |-> IF s.state = "Completed" THEN "completed" ELSE "failed",
     session |-> s, at |-> height]

\* the handling of the sessions in failing is rolled back
handleSignings(failing) ==
    LET handled == DueSignings \ failing
    IN  /\ signings' = [i \in SigIDs |-> IF i \in handled THEN NoSigning ELSE signings[i]]
        /\ signingExpiry' = signingExpiry \ {<<SessionExpiry(signings[i]), i>> : i \in handled}
        /\ outcome' = [i \in SigIDs |-> IF i \in handled THEN Callback(signings[i]) ELSE outcome[i]]

EndBlocker ==
    /\ ~ Dangling
    /\ handleKeygens
    /\ \E failing \in SUBSET DueSignings :
          /\ handleSignings(failing)
          /\ dropped' = dropped \cup {<<"signing", i>> : i \in failing}
    /\ NextBlock
    /\ UNCHANGED <<params, optedOut, active, sigCount>>

(***************************************************************************)
(* A payout to a participant of a completed keygen fails, or an entry      *)
(* dangles: the panic rolls back all of the end blocker, for good, since   *)
(* no later block looks at these heights again.                            *)
(***************************************************************************)
EndBlockerError ==
    /\ Dangling \/ \E k \in DueKeygens : keygens[k].state = "Completed"
    /\ dropped' = dropped \cup {<<"keygen", k>> : k \in DueKeygens}
                          \cup {<<"signing", i>> : i \in DueSignings}
    /\ NextBlock
    /\ UNCHANGED <<params, optedOut, keygenVars, keys, active, signingVars, outcome>>

SessionsNext ==
    \/ \E k \in KeyIDs : StartKeygen(k)
    \/ \E k \in KeyIDs, v \in Validators : SubmitPubKey(k, v)
    \/ \E k \in KeyIDs : Sign(k)
    \/ \E i \in SigIDs, v \in Validators : SubmitSignature(i, v)
    \/ \E v \in OptOuts \ optedOut : KeygenOptOut(v)
    \/ \E v \in optedOut : KeygenOptIn(v)
    \/ UpdateParams
    \/ ChangeActiveKeys
    \/ EndBlocker
    \/ EndBlockerError

(***************************************************************************)
(* Blocks keep coming, with an end blocker each.  Nothing else is fair:    *)
(* validators may never submit, and every handling may fail.               *)
(***************************************************************************)
SessionsSpec ==
    SessionsInit /\ [][SessionsNext]_sessionVars /\ WF_sessionVars(EndBlocker \/ EndBlockerError)

(***************************************************************************)
(* A restart from exported state: sessions and keys are stored again, the  *)
(* counter is the number of signing sessions, opt-outs are not exported.   *)
(***************************************************************************)
RestartFromGenesis ==
    LET keygenIDs == {k \in KeyIDs : keygens[k] # NoKeygen}
        sigIDs == {i \in SigIDs : signings[i] # NoSigning}
    IN  /\ keygenExpiry' = {<<SessionExpiry(keygens[k]), k>> : k \in keygenIDs}
        /\ signingExpiry' = {<<SessionExpiry(signings[i]), i>> : i \in sigIDs}
        /\ sigCount' = Cardinality(sigIDs)
        /\ optedOut' = {}
        /\ UNCHANGED <<height, params, keygens, keys, active, signings, outcome, dropped>>

RestartSpec == SessionsInit /\ [][SessionsNext \/ RestartFromGenesis]_sessionVars

-----------------------------------------------------------------------------
(* Properties.                                                             *)

(***************************************************************************)
(* Each session has exactly one entry in the expiry index, and each entry  *)
(* a session: set...Session removes the entry at the expiry only, and      *)
(* Delete...Session the one where the session is indexed now.  A missing   *)
(* entry would keep the session forever, a stale one makes the end blocker *)
(* panic.  And a stored session accepts submissions, unless its handling   *)
(* failed: index, AddKey and AddSig agree to the block on when it ends.    *)
(***************************************************************************)
IndexMatchesSessions ==
    /\ keygenExpiry = {<<SessionExpiry(keygens[k]), k>> : k \in {j \in KeyIDs : keygens[j] # NoKeygen}}
    /\ signingExpiry = {<<SessionExpiry(signings[i]), i>> : i \in {j \in SigIDs : signings[j] # NoSigning}}
    /\ \A k \in KeyIDs : keygens[k] # NoKeygen /\ <<"keygen", k>> \notin dropped => IsOpen(keygens[k], height)
    /\ \A i \in SigIDs : signings[i] # NoSigning /\ <<"signing", i>> \notin dropped => IsOpen(signings[i], height)

(***************************************************************************)
(* The ID the next Sign uses belongs to no stored session: Sign adds a     *)
(* session and replaces none.  Not so after a restart from genesis.        *)
(***************************************************************************)
NextSigIDFree == sigCount < SigBound => signings[sigCount] = NoSigning

\* the submitters' share of the bonded weight meets the threshold
Meets(s, submitters, t) == s.weight[submitters] * t.den >= s.bonded * t.num

(***************************************************************************)
(* A callback says completed exactly when participants of the key with the *)
(* signing threshold's weight signed, and is made in the block the session *)
(* ends: the last one of the grace period or before the expiry.            *)
(***************************************************************************)
CallbackJustified ==
    \A i \in SigIDs : LET s == outcome[i].session IN outcome[i].callback # "none" =>
        /\ s.sigs \subseteq s.key.pubKeys
        /\ outcome[i].callback = "completed" <=> Meets(s.key.snap, s.sigs, s.key.threshold)
        /\ \/ outcome[i].at = s.expiresAt - 1
           \/ /\ outcome[i].callback = "completed"
              /\ outcome[i].at = s.completedAt + s.grace
              /\ outcome[i].at < s.expiresAt

(***************************************************************************)
(* Every key can sign: its participants together meet its signing          *)
(* threshold, so a signing session all of them answer completes.           *)
(***************************************************************************)
KeysCanSign ==
    \A k \in KeyIDs : keys[k] # NoKey => Meets(keys[k].snap, keys[k].pubKeys, keys[k].threshold)

(***************************************************************************)
(* Every keygen session ends, so that its key ID is taken or free again,   *)
(* unless the end blocker failed in the block it was due.                  *)
(***************************************************************************)
KeygensEnd ==
    \A k \in KeyIDs : keygens[k] # NoKeygen ~> keygens[k] = NoKeygen \/ <<"keygen", k>> \in dropped

-----------------------------------------------------------------------------
(* The promise to the modules that ask for signatures.                     *)

requestStatus ==
    [i \in SigIDs |-> CASE outcome[i].callback # "none" -> outcome[i].callback
                        [] outcome[i].callback = "none" /\ <<"signing", i>> \in dropped -> "lost"
                        [] outcome[i].callback = "none" /\ <<"signing", i>> \notin dropped ->
                               IF signings[i] # NoSigning THEN "open" ELSE "none"]

EnoughFor(key, S) == S \subseteq key.pubKeys /\ Meets(key.snap, S, key.threshold)
SessionOf(i) == IF outcome[i].callback # "none" THEN outcome[i].session ELSE signings[i]

Service == INSTANCE SigningService WITH
    Requests <- SigIDs,
    Keys <- AllKeys,
    NoKeyChosen <- NoKey,
    Signers <- Validators,
    Enough <- EnoughFor,
    status <- requestStatus,
    requestKey <- [i \in SigIDs |-> SessionOf(i).key],
    signers <- [i \in SigIDs |-> outcome[i].session.sigs]

(***************************************************************************)
(* The sessions implement the signing service: one callback per request at *)
(* most, none without enough signatures, and an end for every request,     *)
(* whatever the order of signatures, blocks, failures and rotations.       *)
(***************************************************************************)
ImplementsSigningService == Service!ServiceSpec
=============================================================================
