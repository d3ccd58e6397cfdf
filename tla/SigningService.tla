--------------------------- MODULE SigningService ---------------------------
(***************************************************************************)
(* What x/multisig promises the module that asks for a signature: every    *)
(* request ends, at most one callback is made for it, and a completed one  *)
(* carries signatures of enough of the key's participants.  The exception  *)
(* is a request whose handling fails: it is lost, without a callback.      *)
(***************************************************************************)
CONSTANTS
    Requests,       \* request IDs
    Keys,           \* keys
    NoKeyChosen,    \* no key
    Signers,        \* validators
    Enough(_, _)    \* a set of signers suffices for a key

VARIABLES
    status,     \* status of every request
    requestKey, \* key of every request
    signers     \* validators whose signatures the callback carried

serviceVars == <<status, requestKey, signers>>

ServiceInit ==
    /\ status = [r \in Requests |-> "none"]
    /\ requestKey = [r \in Requests |-> NoKeyChosen]
    /\ signers = [r \in Requests |-> {}]

Request(r, k) ==
    /\ status[r] = "none"
    /\ status' = [status EXCEPT ![r] = "open"]
    /\ requestKey' = [requestKey EXCEPT ![r] = k]
    /\ UNCHANGED signers

\* the requests in done get their callbacks, those in lost never do
Resolve(done, lost) ==
    /\ done \cup lost # {}
    /\ done \cap lost = {}
    /\ \A r \in done \cup lost : status[r] = "open"
    /\ signers' \in [Requests -> SUBSET Signers]
    /\ \A r \in Requests \ done : signers'[r] = signers[r]
    /\ status' = [r \in Requests |->
          IF r \in lost THEN "lost"
          ELSE IF r \in done
               THEN IF Enough(requestKey[r], signers'[r]) THEN "completed" ELSE "failed"
               ELSE status[r]]
    /\ UNCHANGED requestKey

ServiceNext ==
    \/ \E r \in Requests, k \in Keys : Request(r, k)
    \/ \E done, lost \in SUBSET Requests : Resolve(done, lost)

ServiceSpec ==
    /\ ServiceInit
    /\ [][ServiceNext]_serviceVars
    /\ \A r \in Requests : WF_serviceVars(\E done, lost \in SUBSET Requests :
                                              r \in done \cup lost /\ Resolve(done, lost))
=============================================================================
