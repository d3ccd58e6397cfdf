------------------------ MODULE CommandBatchesProofs ------------------------
(* Proofs about CommandBatches, for any commands, keys, gas costs and      *)
(* limits and batch IDs, and any number of failed and lost signings.       *)
EXTENDS CommandBatches, FiniteSetTheorems, TLAPS

USE SMTT(20), ZenonT(10)

-----------------------------------------------------------------------------
(* Commands and their batches.                                             *)

Waiting == {r \in Requests : status[r] \in {"open", "lost"}}

IsBatch(x) ==
    /\ x = [status |-> x.status, key |-> x.key, cmds |-> x.cmds, prev |-> x.prev]
    /\ x.status \in {"signing", "aborted", "signed"}

RecordsInv ==
    /\ DOMAIN status = Requests /\ DOMAIN requestKey = Requests /\ DOMAIN requestBatch = Requests
    /\ DOMAIN batches = BatchIDs
    /\ \A b \in Created : IsBatch(batches[b])
    /\ IF Created = {} THEN unsignedID = NoBatch ELSE unsignedID \in Created

(***************************************************************************)
(* Only the latest batch is not signed, the requests that wait are one at  *)
(* most and for the latest batch, and a completed request was for a batch  *)
(* that is signed, with its key.                                           *)
(***************************************************************************)
SignInv ==
    /\ \A b \in Created : b # unsignedID => batches[b].status = "signed"
    /\ \A r, s \in Waiting : r = s
    /\ \A r \in Waiting :
          /\ unsignedID \in Created
          /\ requestBatch[r] = unsignedID
          /\ batches[unsignedID].status = "signing"
          /\ requestKey[r] = batches[unsignedID].key
    /\ \A b \in Created : batches[b].status = "signing" => Waiting # {}
    /\ \A r \in Requests : status[r] = "completed" =>
          /\ requestBatch[r] \in Created
          /\ batches[requestBatch[r]].status = "signed"
          /\ requestKey[r] = batches[requestBatch[r]].key
    /\ \A b \in Created : batches[b].status = "signed" =>
          \E r \in Requests : status[r] = "completed" /\ requestBatch[r] = b

(***************************************************************************)
(* Nothing follows the latest batch yet, and every batch before it, and    *)
(* the start of the chain, is followed by exactly one.                     *)
(***************************************************************************)
Followers(b) == {d \in Created : batches[d].prev = b}
ChainInv ==
    /\ \A d \in Created : batches[d].prev \in Created \cup {NoBatch}
    /\ Followers(unsignedID) = {}
    /\ \A b \in (Created \cup {NoBatch}) \ {unsignedID} : \E d \in Created : Followers(b) = {d}

BatchInv == RecordsInv /\ SignInv /\ ChainInv

-----------------------------------------------------------------------------
LEMMA BatchInitInv == BatchesInit => BatchInv
<1> SUFFICES ASSUME BatchesInit PROVE BatchInv
  OBVIOUS
<1>1. Created = {} /\ Waiting = {} /\ unsignedID = NoBatch
  BY DEF BatchesInit, ServiceInit, Created, Waiting
<1>2. \A r \in Requests : status[r] = "none"
  BY Zenon DEF BatchesInit, ServiceInit
<1>3. RecordsInv
  BY <1>1 DEF RecordsInv, BatchesInit, ServiceInit
<1>4. SignInv
  BY <1>1, <1>2 DEF SignInv
<1>5. ChainInv
  BY <1>1 DEF ChainInv, Followers
<1> QED
  BY <1>3, <1>4, <1>5 DEF BatchInv

(* Steps that touch neither batches nor requests.                          *)
LEMMA OtherSteps ==
    ASSUME BatchInv, UNCHANGED <<batches, unsignedID, requestBatch, serviceVars>>
    PROVE  BatchInv'
<1>1. Created' = Created /\ Waiting' = Waiting
  BY DEF serviceVars, Created, Waiting
<1>2. RecordsInv'
  BY <1>1 DEF BatchInv, RecordsInv, serviceVars
<1>3. SignInv'
  BY <1>1 DEF BatchInv, SignInv, serviceVars
<1>4. ChainInv'
  BY <1>1 DEF BatchInv, ChainInv, Followers
<1> QED
  BY <1>2, <1>3, <1>4 DEF BatchInv

(* SignCommands finds no request that waits: the latest batch is signed or *)
(* its signing failed.                                                     *)
LEMMA NothingWaits ==
    ASSUME BatchInv, LatestStatus \in {"none", "signed", "aborted"}
    PROVE  Waiting = {} /\ \A r \in Requests : status[r] \notin {"open", "lost"}
<1>1. SUFFICES ASSUME NEW r \in Waiting PROVE FALSE
  BY DEF Waiting
<1>2. unsignedID \in Created /\ batches[unsignedID].status = "signing"
  BY <1>1 DEF BatchInv, SignInv
<1>3. unsignedID # NoBatch
  BY <1>2, BatchesAssumption DEF Created
<1> QED
  BY <1>2, <1>3 DEF LatestStatus, GetLatestCommandBatch

(* A request for batch b, which is the latest one from now on.             *)
LEMMA SignInvRequest ==
    ASSUME BatchInv, Waiting = {},
           NEW r \in Requests, NEW b \in BatchIDs, Sign(r, b, batches'[b].key),
           DOMAIN batches' = BatchIDs,
           b \in Created', batches'[b].status = "signing",
           b \in Created => batches[b].status # "signed",
           Created' = Created \cup {b}, unsignedID' = b,
           \A d \in Created \ {b} : batches'[d] = batches[d] /\ batches[d].status = "signed"
    PROVE  /\ SignInv'
           /\ DOMAIN status' = Requests /\ DOMAIN requestKey' = Requests /\ DOMAIN requestBatch' = Requests
<1>1. /\ DOMAIN status = Requests /\ DOMAIN requestKey = Requests /\ DOMAIN requestBatch = Requests
  BY DEF BatchInv, RecordsInv
<1>2. /\ status' = [status EXCEPT ![r] = "open"]
      /\ requestKey' = [requestKey EXCEPT ![r] = batches'[b].key]
      /\ requestBatch' = [requestBatch EXCEPT ![r] = b]
      /\ status[r] = "none"
  BY DEF Sign, Request
<1>3. /\ status'[r] = "open" /\ requestKey'[r] = batches'[b].key /\ requestBatch'[r] = b
      /\ \A s \in Requests : s # r => /\ status'[s] = status[s]
                                      /\ requestKey'[s] = requestKey[s]
                                      /\ requestBatch'[s] = requestBatch[s]
  BY <1>1, <1>2
<1>4. Waiting' = {r}
  BY <1>3 DEF Waiting
<1>5. \A s \in Requests : status'[s] = "completed" =>
          /\ s # r /\ status[s] = "completed"
          /\ requestBatch[s] \in Created \ {b}
  BY <1>3 DEF BatchInv, SignInv
<1>6. \A s \in Requests : status'[s] = "completed" =>
          /\ requestBatch'[s] \in Created'
          /\ batches'[requestBatch'[s]].status = "signed"
          /\ requestKey'[s] = batches'[requestBatch'[s]].key
  BY <1>3, <1>5 DEF BatchInv, SignInv
<1>7. ASSUME NEW d \in Created', batches'[d].status = "signed"
      PROVE  \E s \in Requests : status'[s] = "completed" /\ requestBatch'[s] = d
  <2>1. d \in Created /\ batches[d].status = "signed"
    BY <1>7
  <2>2. PICK s \in Requests : status[s] = "completed" /\ requestBatch[s] = d
    BY <2>1 DEF BatchInv, SignInv
  <2>3. s # r
    BY <1>2, <2>2
  <2> QED
    BY <1>3, <2>2, <2>3
<1>8. \A d \in Created' : d # unsignedID' => batches'[d].status = "signed"
  OBVIOUS
<1>9. SignInv'
  BY <1>3, <1>4, <1>6, <1>7, <1>8 DEF SignInv
<1> QED
  BY <1>1, <1>2, <1>9

(* The request for the signature of a new batch.                           *)
LEMMA NewBatchInv ==
    ASSUME BatchInv, NEW r \in Requests, NEW b \in BatchIDs,
           CreateNewBatchToSign(b), Sign(r, b, batches'[b].key)
    PROVE  BatchInv'
<1> DEFINE new == [status |-> "signing", key |-> commands[DequeuedCommands[1]].key,
                   cmds |-> DequeuedCommands, prev |-> unsignedID]
<1>1. batches' = [batches EXCEPT ![b] = new] /\ unsignedID' = b
  BY DEF CreateNewBatchToSign, GetLatestCommandBatch
<1>2. batches[b] = NoRecord
  <2> DEFINE free == {d \in BatchIDs : batches[d] = NoRecord}
  <2>1. b \in FreshIDs(free)
    BY DEF CreateNewBatchToSign
  <2>2. free \in SUBSET BatchIDs
    OBVIOUS
  <2>3. FreshIDs(free) \subseteq free
    BY <2>2, BatchesAssumption
  <2> QED
    BY <2>1, <2>3
<1>3. /\ DOMAIN batches = BatchIDs
      /\ Created \subseteq BatchIDs /\ b \notin Created /\ b # NoBatch
  BY <1>2, BatchesAssumption DEF BatchInv, RecordsInv, Created
<1>4. /\ new = [status |-> new.status, key |-> new.key, cmds |-> new.cmds, prev |-> new.prev]
      /\ new.status = "signing" /\ new.prev = unsignedID /\ new # NoRecord
  BY DEF NoRecord
<1> HIDE DEF new
<1>5. /\ batches'[b] = new
      /\ \A d \in Created : batches'[d] = batches[d]
      /\ DOMAIN batches' = BatchIDs
      /\ Created' = Created \cup {b}
  BY <1>1, <1>3, <1>4 DEF Created
<1>6. LatestStatus \in {"none", "signed"}
  BY DEF CreateNewBatchToSign, CanCreateBatch
<1>7. Waiting = {}
  BY <1>6, NothingWaits
<1>8. \A d \in Created : batches[d].status = "signed"
  <2>1. \A d \in Created : d # unsignedID => batches[d].status = "signed"
    BY DEF BatchInv, SignInv
  <2>2. unsignedID \in Created => batches[unsignedID].status = "signed"
    <3>1. ASSUME unsignedID \in Created PROVE batches[unsignedID].status = "signed"
      <4>1. unsignedID # NoBatch /\ IsBatch(batches[unsignedID])
        BY <1>3, <3>1, BatchesAssumption DEF BatchInv, RecordsInv
      <4> QED
        BY <1>6, <4>1 DEF LatestStatus, GetLatestCommandBatch, IsBatch
    <3> QED
      BY <3>1
  <2> QED
    BY <2>1, <2>2
<1>9. /\ SignInv'
      /\ DOMAIN status' = Requests /\ DOMAIN requestKey' = Requests /\ DOMAIN requestBatch' = Requests
  <2>1. b \in Created' /\ batches'[b].status = "signing"
    BY <1>4, <1>5
  <2>2. \A d \in Created \ {b} : batches'[d] = batches[d] /\ batches[d].status = "signed"
    BY <1>5, <1>8
  <2> QED
    BY <1>1, <1>3, <1>5, <1>7, <2>1, <2>2, SignInvRequest
<1>10. RecordsInv'
  <2>1. IsBatch(batches'[b])
    BY <1>4, <1>5 DEF IsBatch
  <2>2. \A d \in Created : IsBatch(batches'[d])
    BY <1>5 DEF BatchInv, RecordsInv
  <2> QED
    BY <1>1, <1>5, <1>9, <2>1, <2>2 DEF RecordsInv
<1>11. ChainInv'
  <2>1. unsignedID \in Created \cup {NoBatch}
    BY DEF BatchInv, RecordsInv
  <2>2. \A d \in Created : batches[d].prev \in Created \cup {NoBatch}
    BY DEF BatchInv, ChainInv
  <2>3. \A d \in Created' : batches'[d].prev \in Created \cup {NoBatch}
    BY <1>4, <1>5, <2>1, <2>2
  <2>4. ASSUME NEW x PROVE Followers(x)' = IF x = unsignedID THEN Followers(x) \cup {b} ELSE Followers(x)
    BY <1>3, <1>4, <1>5 DEF Followers
  <2>6. ASSUME NEW x \in (Created' \cup {NoBatch}) \ {b} PROVE \E d \in Created' : Followers(x)' = {d}
    <3>1. CASE x = unsignedID
      <4>1. Followers(x)' = {b}
        BY <2>4, <3>1 DEF BatchInv, ChainInv
      <4> QED
        BY <1>5, <4>1
    <3>2. CASE x # unsignedID
      <4>1. \E d \in Created : Followers(x) = {d}
        BY <1>5, <2>6, <3>2 DEF BatchInv, ChainInv
      <4>2. Followers(x)' = Followers(x)
        BY <2>4, <3>2
      <4> QED
        BY <1>5, <4>1, <4>2
    <3> QED
      BY <3>1, <3>2
  <2>7. {d \in Created' : batches'[d].prev = unsignedID'} = {}
    BY <1>1, <1>3, <2>3
  <2>8. \A x \in (Created' \cup {NoBatch}) \ {unsignedID'} :
            \E d \in Created' : {e \in Created' : batches'[e].prev = x} = {d}
    BY <1>1, <2>6 DEF Followers
  <2> QED
    BY <1>5, <2>3, <2>7, <2>8 DEF ChainInv, Followers
<1> QED
  BY <1>9, <1>10, <1>11 DEF BatchInv

(* A new status of the latest batch leaves the chain as it is.             *)
LEMMA StatusChange ==
    ASSUME BatchInv, unsignedID \in Created, unsignedID' = unsignedID,
           NEW x \in {"signing", "aborted", "signed"},
           batches' = [batches EXCEPT ![unsignedID].status = x]
    PROVE  /\ Created' = Created /\ DOMAIN batches' = BatchIDs
           /\ \A d \in Created : /\ IsBatch(batches'[d])
                                 /\ batches'[d].key = batches[d].key
                                 /\ d # unsignedID => batches'[d] = batches[d]
           /\ batches'[unsignedID].status = x
           /\ ChainInv'
<1>1. DOMAIN batches = BatchIDs /\ Created \subseteq BatchIDs /\ \A d \in Created : IsBatch(batches[d])
  BY DEF BatchInv, RecordsInv, Created
<1>2. PICK b \in Created : b = unsignedID
  OBVIOUS
<1>3. /\ batches' = [batches EXCEPT ![b] = [batches[b] EXCEPT !.status = x]]
      /\ DOMAIN batches' = BatchIDs
  BY <1>1, <1>2
<1>4. batches'[b] = [status |-> x, key |-> batches[b].key, cmds |-> batches[b].cmds, prev |-> batches[b].prev]
  BY <1>1, <1>2, <1>3, Zenon DEF IsBatch
<1>5. /\ batches'[b].status = x /\ batches'[b].key = batches[b].key /\ batches'[b].prev = batches[b].prev
      /\ IsBatch(batches'[b]) /\ batches'[b] # NoRecord
  BY <1>4 DEF IsBatch, NoRecord
<1>6. \A d \in BatchIDs : d # b => batches'[d] = batches[d]
  BY <1>1, <1>3
<1>7. Created' = Created
  BY <1>1, <1>2, <1>5, <1>6 DEF Created
<1>8. \A d \in Created : batches'[d].prev = batches[d].prev
  BY <1>1, <1>5, <1>6
<1>9. ASSUME NEW c PROVE {d \in Created' : batches'[d].prev = c} = Followers(c)
  BY <1>7, <1>8 DEF Followers
<1>10. \A d \in Created' : batches'[d].prev \in Created' \cup {NoBatch}
  BY <1>7, <1>8 DEF BatchInv, ChainInv
<1>11. {d \in Created' : batches'[d].prev = unsignedID'} = {}
  BY <1>9, Zenon DEF BatchInv, ChainInv
<1>12. \A c \in (Created' \cup {NoBatch}) \ {unsignedID'} :
           \E d \in Created' : {e \in Created' : batches'[e].prev = c} = {d}
  BY <1>7, <1>9, Zenon DEF BatchInv, ChainInv
<1>13. ChainInv'
  BY <1>10, <1>11, <1>12 DEF ChainInv, Followers
<1> QED
  BY <1>1, <1>2, <1>3, <1>5, <1>6, <1>7, <1>13

(* The request for the signature of a batch whose signing failed.          *)
LEMMA RetryInv ==
    ASSUME BatchInv, NEW r \in Requests, LatestStatus = "aborted",
           batches' = [batches EXCEPT ![unsignedID].status = "signing"],
           unsignedID' = unsignedID, Sign(r, unsignedID, batches'[unsignedID].key)
    PROVE  BatchInv'
<1>1. PICK b \in Created : b = unsignedID /\ batches[b].status = "aborted"
  BY DEF LatestStatus, GetLatestCommandBatch, BatchInv, RecordsInv
<1>2. /\ Created' = Created /\ DOMAIN batches' = BatchIDs
      /\ \A d \in Created : /\ IsBatch(batches'[d])
                            /\ d # b => batches'[d] = batches[d]
      /\ batches'[b].status = "signing"
      /\ ChainInv'
  BY <1>1, StatusChange
<1>3. Waiting = {}
  BY NothingWaits
<1>4. \A d \in Created \ {b} : batches'[d] = batches[d] /\ batches[d].status = "signed"
  BY <1>1, <1>2 DEF BatchInv, SignInv
<1>5. b \in BatchIDs /\ Sign(r, b, batches'[b].key) /\ batches[b].status # "signed"
  BY <1>1 DEF Created
<1>6. /\ SignInv'
      /\ DOMAIN status' = Requests /\ DOMAIN requestKey' = Requests /\ DOMAIN requestBatch' = Requests
  BY <1>1, <1>2, <1>3, <1>4, <1>5, SignInvRequest
<1>7. RecordsInv'
  BY <1>1, <1>2, <1>6 DEF RecordsInv
<1> QED
  BY <1>2, <1>6, <1>7 DEF BatchInv

LEMMA SignCommandsInv ==
    ASSUME BatchInv, NEW r \in Requests, NEW b \in BatchIDs, SignCommands(r, b)
    PROVE  BatchInv'
<1>1. CASE CreateNewBatchToSign(b)
  BY <1>1, NewBatchInv DEF SignCommands
<1>2. CASE /\ LatestStatus = "aborted"
           /\ b = GetLatestCommandBatch
           /\ batches' = [batches EXCEPT ![b].status = "signing"]
           /\ UNCHANGED <<queue, unsignedID>>
  BY <1>2, RetryInv DEF SignCommands, GetLatestCommandBatch
<1> QED
  BY <1>1, <1>2 DEF SignCommands

(* The callback of the one request that waits, or its loss.                *)
LEMMA HandleSigningInv ==
    ASSUME BatchInv, NEW r \in Requests, HandleSigning(r)
    PROVE  BatchInv'
<1>1. PICK lost \in SUBSET {r} : Resolve({r} \ lost, lost)
  BY Zenon DEF HandleSigning
<1>2. /\ status[r] = "open" /\ requestKey' = requestKey /\ requestBatch' = requestBatch
      /\ unsignedID' = unsignedID
      /\ batches' = [batches EXCEPT ![requestBatch[r]].status = StatusAfter(r, @)]
  BY <1>1 DEF HandleSigning, Resolve
<1>3. Waiting = {r}
  BY <1>2 DEF BatchInv, SignInv, Waiting
<1>4. PICK b \in Created : /\ b = unsignedID /\ b = requestBatch[r]
                           /\ batches[b].status = "signing"
                           /\ requestKey[r] = batches[b].key
  BY <1>3 DEF BatchInv, SignInv
<1>5. /\ DOMAIN status' = Requests
      /\ status'[r] \in {"lost", "completed", "failed"}
      /\ \A s \in Requests : s # r => status'[s] = status[s]
  BY <1>1 DEF Resolve
<1>6. DOMAIN batches = BatchIDs /\ b \in BatchIDs /\ IsBatch(batches[b])
  BY <1>4 DEF BatchInv, RecordsInv, Created
<1>7. PICK x \in {"signing", "aborted", "signed"} :
          /\ x = StatusAfter(r, batches[b].status)
          /\ status'[r] = "completed" <=> x = "signed"
          /\ status'[r] = "lost" <=> x = "signing"
  BY <1>4, <1>5 DEF StatusAfter
<1>8. batches' = [batches EXCEPT ![unsignedID].status = x]
  <2>1. batches' = [batches EXCEPT ![b] = [batches[b] EXCEPT !.status = StatusAfter(r, batches[b].status)]]
    BY <1>2, <1>4, <1>6
  <2>2. batches' = [batches EXCEPT ![b] = [batches[b] EXCEPT !.status = x]]
    BY <1>7, <2>1
  <2> QED
    BY <1>4, <1>6, <2>2
<1>9. /\ Created' = Created /\ DOMAIN batches' = BatchIDs
      /\ \A d \in Created : /\ IsBatch(batches'[d])
                            /\ batches'[d].key = batches[d].key
                            /\ d # b => batches'[d] = batches[d]
      /\ batches'[b].status = x
      /\ ChainInv'
  BY <1>2, <1>4, <1>8, StatusChange, Zenon
<1>10. Waiting' = IF x = "signing" THEN {r} ELSE {}
  <2>1. \A s \in Requests : s # r => status[s] \notin {"open", "lost"}
    BY <1>3 DEF Waiting
  <2> QED
    BY <1>5, <1>7, <2>1 DEF Waiting
<1>12. \A s \in Requests : status'[s] = "completed" =>
           /\ requestBatch'[s] \in Created'
           /\ batches'[requestBatch'[s]].status = "signed"
           /\ requestKey'[s] = batches'[requestBatch'[s]].key
  <2>1. ASSUME NEW s \in Requests, status'[s] = "completed", s # r
        PROVE  /\ requestBatch'[s] \in Created'
               /\ batches'[requestBatch'[s]].status = "signed"
               /\ requestKey'[s] = batches'[requestBatch'[s]].key
    <3>1. /\ status[s] = "completed"
          /\ requestBatch[s] \in Created
          /\ batches[requestBatch[s]].status = "signed"
          /\ requestKey[s] = batches[requestBatch[s]].key
      BY <1>5, <2>1 DEF BatchInv, SignInv
    <3>2. batches'[requestBatch[s]] = batches[requestBatch[s]]
      BY <1>4, <1>9, <3>1
    <3> QED
      BY <1>2, <1>9, <3>1, <3>2, Zenon
  <2>2. status'[r] = "completed" =>
            /\ requestBatch'[r] \in Created'
            /\ batches'[requestBatch'[r]].status = "signed"
            /\ requestKey'[r] = batches'[requestBatch'[r]].key
    BY <1>2, <1>4, <1>7, <1>9
  <2> QED
    BY <2>1, <2>2
<1>13. ASSUME NEW d \in Created', batches'[d].status = "signed"
       PROVE  \E s \in Requests : status'[s] = "completed" /\ requestBatch'[s] = d
  <2>1. CASE d = b
    BY <1>2, <1>4, <1>7, <1>9, <1>13, <2>1
  <2>2. CASE d # b
    <3>1. PICK s \in Requests : status[s] = "completed" /\ requestBatch[s] = d
      BY <1>9, <1>13, <2>2 DEF BatchInv, SignInv
    <3> QED
      BY <1>2, <1>5, <2>2, <3>1
  <2> QED
    BY <2>1, <2>2
<1>14. \A d \in Created' : d # unsignedID' => batches'[d].status = "signed"
  BY <1>2, <1>4, <1>9 DEF BatchInv, SignInv
<1>15. \A s \in Waiting' : /\ unsignedID' \in Created'
                           /\ requestBatch'[s] = unsignedID'
                           /\ batches'[unsignedID'].status = "signing"
                           /\ requestKey'[s] = batches'[unsignedID'].key
  BY <1>2, <1>4, <1>9, <1>10
<1>16. \A d \in Created' : batches'[d].status = "signing" => Waiting' # {}
  BY <1>2, <1>4, <1>9, <1>10, <1>14
<1>17. SignInv'
  <2>1. \A s, t \in Waiting' : s = t
    BY <1>10
  <2> QED
    BY <1>12, <1>13, <1>14, <1>15, <1>16, <2>1 DEF SignInv
<1>18. RecordsInv'
  BY <1>2, <1>4, <1>5, <1>9 DEF BatchInv, RecordsInv
<1> QED
  BY <1>9, <1>17, <1>18 DEF BatchInv

LEMMA BatchStep ==
    ASSUME BatchInv, [BatchesNext]_vars
    PROVE  BatchInv'
<1>1. ASSUME NEW c \in CommandIDs,
             deliverMessage(c) \/ CreateDeployToken(c) \/ CreateTransferOperatorship(c)
      PROVE  BatchInv'
  BY <1>1, OtherSteps DEF deliverMessage, CreateDeployToken, CreateTransferOperatorship
<1>2. CASE \E r \in Requests, b \in BatchIDs : SignCommands(r, b)
  BY <1>2, SignCommandsInv
<1>3. CASE \E r \in Requests : HandleSigning(r)
  BY <1>3, HandleSigningInv
<1>4. CASE ConfirmTransferKey \/ applyKeyRotation \/ ActivateChain \/ DeactivateChain \/ NextBlock
  BY <1>4, OtherSteps DEF ConfirmTransferKey, applyKeyRotation, ActivateChain, DeactivateChain, NextBlock, batchVars
<1>5. CASE UNCHANGED vars
  BY <1>5, OtherSteps DEF vars, batchVars
<1> QED
  BY <1>1, <1>2, <1>3, <1>4, <1>5 DEF BatchesNext

LEMMA BatchInvariance == BatchesSpec => []BatchInv
<1>1. BatchesInit => BatchInv
  BY BatchInitInv
<1>2. BatchInv /\ [BatchesNext]_vars => BatchInv'
  BY BatchStep
<1> QED
  BY <1>1, <1>2, PTL DEF BatchesSpec

-----------------------------------------------------------------------------
(* A batch is being signed exactly while its request is not answered,      *)
(* there is never a second request, and a signed batch carries a signature *)
(* of its own key, in spite of failed and lost callbacks.                  *)
THEOREM OneRequestPerBatch == BatchesSpec => []SigningMatches
<1>1. ASSUME BatchInv PROVE SigningMatches
  <2>1. Waiting = {} \/ \E r \in Requests : Waiting = {r}
    BY <1>1 DEF BatchInv, SignInv, Waiting
  <2>2. Cardinality(Waiting) <= 1
    <3>1. CASE Waiting = {}
      BY <3>1, FS_EmptySet
    <3>2. CASE \E r \in Requests : Waiting = {r}
      BY <3>2, FS_Singleton
    <3> QED
      BY <2>1, <3>1, <3>2
  <2>3. ASSUME NEW b \in Created
        PROVE  batches[b].status = "signing" <=> \E r \in Waiting : requestBatch[r] = b
    BY <1>1 DEF BatchInv, SignInv
  <2>4. ASSUME NEW b \in Created
        PROVE  batches[b].status = "signed" <=>
                   \E r \in Requests : /\ status[r] = "completed"
                                       /\ requestBatch[r] = b
                                       /\ requestKey[r] = batches[b].key
    BY <1>1 DEF BatchInv, SignInv
  <2> QED
    BY <2>2, <2>3, <2>4 DEF SigningMatches, Waiting
<1> QED
  BY <1>1, BatchInvariance, PTL

(* The batches form one chain that ends in the latest one, and every batch *)
(* before it is signed.                                                    *)
THEOREM OneChain == BatchesSpec => []BatchesChained
<1>1. ASSUME BatchInv PROVE BatchesChained
  <2>1. ASSUME Created # {} PROVE unsignedID \in Created
    BY <1>1, <2>1 DEF BatchInv, RecordsInv
  <2>2. ASSUME NEW b \in (Created \cup {NoBatch}) \ {unsignedID}
        PROVE  Cardinality({d \in Created : batches[d].prev = b}) = 1
    <3>1. PICK d \in Created : Followers(b) = {d}
      BY <1>1 DEF BatchInv, ChainInv
    <3>2. Cardinality({d}) = 1
      BY FS_Singleton
    <3> QED
      BY <3>1, <3>2 DEF Followers
  <2>3. \A b \in Created \ {unsignedID} : batches[b].status = "signed"
    BY <1>1 DEF BatchInv, SignInv
  <2> QED
    BY <2>1, <2>2, <2>3 DEF BatchesChained, GetLatestCommandBatch
<1> QED
  BY <1>1, BatchInvariance, PTL

-----------------------------------------------------------------------------
(* The order of the queue.                                                 *)

Below == {p \in Nat \X Nat : p[1] < p[2]}

\* A non-empty set of naturals has a least element.
LEMMA LeastNatural ==
  ASSUME NEW S, S \subseteq Nat, S # {}
  PROVE  \E n \in S : \A m \in S : n <= m
<1>1. IsWellFoundedOn(Below, Nat)
  BY NatLessThanWellFounded DEF OpToRel, Below
<1>2. PICK n \in S : \A m \in S : ~(<<m, n>> \in Below)
  BY <1>1, WFMin, Zenon
<1>3. \A m, k \in Nat : m < k => <<m, k>> \in Below
  BY Zenon DEF Below
<1>4. \A m \in S : ~(m < n) /\ m \in Nat /\ n \in Nat
  BY <1>2, <1>3, Zenon
<1> QED
  BY <1>4

\* A non-empty set of numbers up to n has a last element, which Max gives.
LEMMA LastNumber ==
  ASSUME NEW n \in Nat, NEW S, S \subseteq 1..n, S # {}
  PROVE  Max(S) \in S /\ \A l \in S : l <= Max(S)
<1> DEFINE T == {n - k : k \in S}
<1>0. \A k \in S : k \in 1..n /\ n - k \in Nat
  OBVIOUS
<1>1. T \subseteq Nat /\ T # {}
  BY <1>0, Zenon
<1>2. PICK d \in T : \A e \in T : d <= e
  BY <1>1, LeastNatural, Zenon
<1>3. PICK k \in S : d = n - k
  OBVIOUS
<1>4. \A l \in S : n - k <= n - l
  BY <1>2, <1>3, Zenon
<1>5. \A l \in S : k >= l
  BY <1>0, <1>4
<1>6. Max(S) \in S /\ \A l \in S : Max(S) >= l
  BY <1>5, Zenon DEF Max
<1> QED
  BY <1>0, <1>6

\* the commands of S have blocks
Ranked(S) == S \subseteq CommandIDs /\ \A c \in S : commands[c].block \in Nat

LEMMA BeforeStrict ==
  ASSUME NEW S, Ranked(S), NEW c \in S, NEW d \in S, Before(c, d)
  PROVE  c # d /\ ~Before(d, c) /\ commands[c].block <= commands[d].block
  BY BatchesAssumption DEF Ranked, Before

\* One command is ahead of all others.
LEMMA FirstCommand ==
  ASSUME NEW S, Ranked(S), S # {}
  PROVE  \E m \in S : \A c \in S \ {m} : Before(m, c)
<1> DEFINE blocks == {commands[c].block : c \in S}
<1>0. S \subseteq Nat
  BY BatchesAssumption DEF Ranked
<1>1. S \subseteq Nat /\ blocks \subseteq Nat /\ blocks # {}
  BY <1>0, Zenon DEF Ranked
<1>2. PICK k \in blocks : \A l \in blocks : k <= l
  BY <1>1, LeastNatural, Zenon
<1> DEFINE first == {c \in S : commands[c].block = k}
<1>3. first \subseteq Nat /\ first # {}
  BY <1>1, Zenon
<1>4. PICK m \in first : \A c \in first : m <= c
  BY <1>3, LeastNatural, Zenon
<1>5. ASSUME NEW c \in S \ {m}
      PROVE  Before(m, c)
  <2>1. commands[c].block \in Nat /\ k \in Nat /\ k <= commands[c].block /\ commands[m].block = k
    BY <1>1, <1>2
  <2>2. commands[c].block = k => m <= c /\ m # c
    BY <1>4, <1>5
  <2>3. m \in Nat /\ c \in Nat
    BY <1>1
  <2> QED
    BY <2>1, <2>2, <2>3 DEF Before
<1> QED
  BY <1>4, <1>5

\* f has the commands of S in their order
SortedAs(f, S) ==
    /\ f \in [1..Cardinality(S) -> S]
    /\ \A i, j \in 1..Cardinality(S) : i < j => Before(f[i], f[j])

LEMMA SortedExists ==
  \A S : IsFiniteSet(S) /\ Ranked(S) => \E f : SortedAs(f, S)
<1> DEFINE Unsorted(S) == IsFiniteSet(S) /\ Ranked(S) /\ ~ \E f : SortedAs(f, S)
           sizes == {n \in Nat : \E S \in SUBSET CommandIDs : Cardinality(S) = n /\ Unsorted(S)}
<1> SUFFICES ASSUME sizes # {} PROVE FALSE
  <2>1. ASSUME NEW S, Unsorted(S) PROVE Cardinality(S) \in sizes
    <3>1. Cardinality(S) \in Nat
      BY <2>1, FS_CardinalityType
    <3>2. S \in SUBSET CommandIDs
      BY <2>1 DEF Ranked
    <3> QED
      BY <2>1, <3>1, <3>2
  <2> QED
    BY <2>1
<1>1. PICK n \in sizes : \A m \in sizes : n <= m
  BY LeastNatural, Zenon
<1>2. PICK S \in SUBSET CommandIDs : Cardinality(S) = n /\ Unsorted(S)
  BY <1>1
<1>3. n \in Nat /\ IsFiniteSet(S) /\ Ranked(S)
  BY <1>2
<1>4. CASE S = {}
  <2>1. Cardinality(S) = 0
    BY <1>4, FS_EmptySet
  <2>2. SortedAs(<<>>, S)
    BY <1>4, <2>1 DEF SortedAs
  <2> QED
    BY <1>2, <2>2
<1>5. CASE S # {}
  <2>1. PICK m \in S : \A c \in S \ {m} : Before(m, c)
    BY <1>3, <1>5, FirstCommand
  <2> DEFINE T == S \ {m}
  <2>2. IsFiniteSet(T) /\ Cardinality(T) = n - 1
    BY <1>2, <1>3, FS_RemoveElement
  <2>3. n - 1 \in Nat
    BY <2>2, FS_CardinalityType
  <2>4. Ranked(T) /\ T \in SUBSET CommandIDs
    BY <1>3 DEF Ranked
  <2> HIDE DEF T
  <2>5. ~Unsorted(T)
    BY <1>1, <1>3, <2>2, <2>3, <2>4
  <2>6. PICK g : SortedAs(g, T)
    BY <2>2, <2>4, <2>5
  <2>7. /\ \A i \in 1..(n - 1) : g[i] \in T /\ g[i] \in S /\ Before(m, g[i])
        /\ \A i, j \in 1..(n - 1) : i < j => Before(g[i], g[j])
    BY <2>1, <2>2, <2>6, Zenon DEF SortedAs, T
  <2> DEFINE f == [i \in 1..n |-> IF i = 1 THEN m ELSE g[i - 1]]
  <2>8. f \in [1..n -> S]
    BY <1>3, <2>7
  <2>9. ASSUME NEW i \in 1..n, NEW j \in 1..n, i < j
        PROVE  Before(f[i], f[j])
    <3>1. j # 1 /\ j - 1 \in 1..(n - 1) /\ f[j] = g[j - 1]
      BY <1>3, <2>9
    <3>2. CASE i = 1
      BY <2>7, <3>1, <3>2
    <3>3. CASE i # 1
      <4>1. i - 1 \in 1..(n - 1) /\ f[i] = g[i - 1] /\ i - 1 < j - 1
        BY <1>3, <2>9, <3>3
      <4> QED
        BY <2>7, <3>1, <4>1
    <3> QED
      BY <3>2, <3>3
  <2> HIDE DEF f
  <2>10. SortedAs(f, S)
    BY <1>2, <2>8, <2>9 DEF SortedAs
  <2> QED
    BY <1>2, <2>10
<1> QED
  BY <1>4, <1>5

\* It has all of them.
LEMMA SortedIsAll ==
  ASSUME NEW S, IsFiniteSet(S), Ranked(S), NEW f, SortedAs(f, S)
  PROVE  \A c \in S : \E i \in 1..Cardinality(S) : f[i] = c
<1> DEFINE n == Cardinality(S)
<1>1. n \in Nat
  BY FS_CardinalityType
<1>2. IsFiniteSet(1..n) /\ Cardinality(1..n) = n
  BY <1>1, FS_Interval
<1>3. f \in [1..n -> S] /\ \A i, j \in 1..n : i < j => Before(f[i], f[j])
  BY DEF SortedAs
<1>4. ASSUME NEW i \in 1..n, NEW j \in 1..n, f[i] = f[j]
      PROVE  i = j
  <2>1. \A k, l \in 1..n : k < l => f[k] # f[l]
    BY <1>3, BeforeStrict
  <2> QED
    BY <1>1, <1>4, <2>1
<1>5. f \in Injection(1..n, S)
  BY <1>3, <1>4 DEF Injection, IsInjective
<1>6. f \in Surjection(1..n, S)
  BY <1>2, <1>5, FS_Injection
<1> QED
  BY <1>6 DEF Surjection

\* What a new batch takes from the queue: the first commands of the queue.
LEMMA TakenFromQueue ==
  ASSUME IsFiniteSet(queue), Ranked(queue), queue # {}
  PROVE  LET d == DequeuedCommands
         IN /\ d \in Seq(queue) /\ Len(d) \in Nat \ {0} /\ DOMAIN d = 1..Len(d)
            /\ \A i \in 1..Len(d) : commands[d[i]].key = commands[d[1]].key
            /\ \A i, j \in 1..Len(d) : i < j => Before(d[i], d[j])
            /\ Len(d) = 1 \/ Gas(d) <= GasLimit
            /\ \A q \in queue \ Range(d), i \in 1..Len(d) : Before(d[i], q)
<1> DEFINE n == Cardinality(queue)
           cmds == QueuedCommands
           fit == {i \in DOMAIN cmds : \A j \in 2..i : Fits(cmds, j)}
           m == Max(fit)
           d == DequeuedCommands
<1>1. PICK f : SortedAs(f, queue)
  BY SortedExists, Zenon
<1>2. /\ f \in [1..n -> queue]
      /\ \A i, j \in DOMAIN f : i < j => Before(f[i], f[j])
  BY <1>1 DEF SortedAs
<1>3. /\ cmds \in [1..n -> queue]
      /\ \A i, j \in DOMAIN cmds : i < j => Before(cmds[i], cmds[j])
  BY <1>2, Zenon DEF QueuedCommands
<1> HIDE DEF cmds
<1>4. SortedAs(cmds, queue)
  BY <1>3 DEF SortedAs
<1>5. \A q \in queue : \E i \in 1..n : cmds[i] = q
  BY <1>4, SortedIsAll
<1>6. n \in Nat
  BY FS_CardinalityType
<1> HIDE DEF n
<1>7. 1 \in 1..n /\ DOMAIN cmds = 1..n /\ \A i \in 1..n : cmds[i] \in queue
  <2>1. PICK q : q \in queue
    OBVIOUS
  <2>2. PICK i \in 1..n : cmds[i] = q
    BY <1>5, <2>1
  <2> QED
    BY <1>3, <1>6, <2>2
<1>8. fit \subseteq 1..n /\ 1 \in fit
  BY <1>7
<1>9. m \in fit /\ \A i \in fit : i <= m
  BY <1>6, <1>8, LastNumber
<1>10. m \in 1..n /\ m \in Nat /\ m >= 1 /\ \A j \in 2..m : Fits(cmds, j)
  BY <1>6, <1>8, <1>9
<1>11. d = SubSeq(cmds, 1, m)
  BY DEF DequeuedCommands, cmds
<1> HIDE DEF m, fit, d
<1>12. d = [i \in 1..m |-> cmds[i]]
  <2>1. 1 + m - 1 = m /\ m - 1 + 1 = m
    BY <1>10
  <2>0. cmds \in Seq(queue) /\ m \in Int /\ 1 <= m /\ m <= Len(cmds)
    BY <1>3, <1>6, <1>10
  <2>2. SubSeq(cmds, 1, m) = [i \in 1..(m - 1 + 1) |-> cmds[i + 1 - 1]]
    BY <2>0
  <2> QED
    BY <1>10, <1>11, <2>1, <2>2
<1>13. d \in Seq(queue) /\ Len(d) = m /\ DOMAIN d = 1..m
  BY <1>6, <1>7, <1>10, <1>12
<1>14. \A i \in 1..m : i \in 1..n /\ d[i] = cmds[i]
  BY <1>6, <1>10, <1>12
<1>15. ASSUME NEW i \in 1..m
       PROVE  commands[d[i]].key = commands[d[1]].key
  <2>1. i = 1 \/ i \in 2..m
    BY <1>10
  <2>2. i \in 2..m => commands[cmds[i]].key = commands[cmds[1]].key
    BY <1>10 DEF Fits
  <2>3. 1 \in 1..m
    BY <1>10
  <2> QED
    BY <1>14, <2>1, <2>2, <2>3
<1>16. \A i, j \in 1..m : i < j => Before(d[i], d[j])
  BY <1>3, <1>7, <1>14
<1>17. m = 1 \/ Gas(d) <= GasLimit
  <2>1. m = 1 \/ m \in 2..m
    BY <1>10
  <2>2. m \in 2..m => Gas(SubSeq(cmds, 1, m)) <= GasLimit
    BY <1>10, Zenon DEF Fits
  <2> QED
    BY <1>11, <2>1, <2>2
<1>18. ASSUME NEW q \in queue \ Range(d), NEW i \in 1..m
       PROVE  Before(d[i], q)
  <2>1. PICK j \in 1..n : cmds[j] = q
    BY <1>5
  <2>2. j \notin 1..m
    <3>1. j \in 1..m => q \in Range(d)
      BY <1>13, <1>14, <2>1, Zenon DEF Range
    <3> QED
      BY <1>18, <3>1
  <2>3. i < j /\ i \in 1..n
    BY <1>6, <1>10, <2>2
  <2> QED
    BY <1>3, <1>7, <1>14, <2>1, <2>3
<1>19. Len(d) \in Nat \ {0}
  BY <1>10, <1>13
<1> QED
  BY <1>13, <1>15, <1>16, <1>17, <1>18, <1>19 DEF d

-----------------------------------------------------------------------------
(* The places of the commands.                                             *)

Stored == {c \in CommandIDs : commands[c] # NoCommand}

\* Every command is of a key and a block so far, and the queue is of them.
CommandsInv ==
    /\ DOMAIN commands = CommandIDs
    /\ currentKey \in Nat \ {0} /\ block \in Nat \ {0} /\ stage \in 1..4
    /\ \A c \in Stored : commands[c].key \in 1..currentKey /\ commands[c].block \in 1..block
    /\ queue \subseteq Stored /\ IsFiniteSet(queue)

(***************************************************************************)
(* What was enqueued for an earlier key is of an earlier block than a      *)
(* transfer of operatorship: a transfer is created in a transaction, and   *)
(* the key it is created for was rotated to by the end blocker of some     *)
(* earlier block.                                                          *)
(***************************************************************************)
EpochsInv ==
    /\ stage <= Multisig =>
          \A c \in Stored : commands[c].key < currentKey => commands[c].block < block
    /\ \A t, c \in Stored :
          commands[t].kind = "transfer" /\ commands[c].key < commands[t].key
             => commands[c].block < commands[t].block

\* A batch holds commands that left the queue, of its key, in their order,
\* and within the gas limit unless it holds one command only.
GoodBatch(b) ==
    LET s == batches[b].cmds
    IN /\ DOMAIN s = 1..Len(s) /\ Len(s) \in Nat \ {0}
       /\ \A i \in 1..Len(s) : /\ s[i] \in Stored \ queue
                               /\ commands[s[i]].key = batches[b].key
       /\ \A i, j \in 1..Len(s) : i < j => Before(s[i], s[j])
       /\ Len(s) = 1 \/ Gas(s) <= GasLimit

ListsInv == \A b \in Created : GoodBatch(b)

\* What is stored and not queued is in exactly one batch.
PlacesInv ==
    /\ \A c \in Stored \ queue : \E b \in Created : InBatch(c, b)
    /\ \A b, d \in Created : \A c : InBatch(c, b) /\ InBatch(c, d) => b = d

\* Batched commands are of no later block than queued ones, and those of the
\* latest batch of no earlier block than those of the batches before it.
OrderInv ==
    /\ \A b \in Created : \A c : InBatch(c, b) =>
          \A q \in queue : commands[c].block <= commands[q].block
    /\ \A b \in Created \ {unsignedID} : \A c, e :
          InBatch(c, b) /\ unsignedID \in Created /\ InBatch(e, unsignedID)
             => commands[c].block <= commands[e].block
    /\ \A b, d \in Created : \A c, e :
          batches[d].prev = b /\ InBatch(c, b) /\ InBatch(e, d)
             => commands[c].block <= commands[e].block

PlaceInv == CommandsInv /\ ListsInv /\ PlacesInv /\ OrderInv

-----------------------------------------------------------------------------
LEMMA PlaceInit == BatchesInit => PlaceInv /\ EpochsInv
<1> SUFFICES ASSUME BatchesInit PROVE PlaceInv /\ EpochsInv
  OBVIOUS
<1>1. Created = {} /\ Stored = {} /\ queue = {}
  BY DEF BatchesInit, Created, Stored
<1>2. CommandsInv
  BY <1>1, FS_EmptySet DEF CommandsInv, BatchesInit, Transactions
<1>3. ListsInv /\ PlacesInv /\ OrderInv
  BY <1>1 DEF ListsInv, PlacesInv, OrderInv
<1>4. EpochsInv
  BY <1>1 DEF EpochsInv
<1> QED
  BY <1>2, <1>3, <1>4 DEF PlaceInv

\* The batches keep their lists when no stored command changes or is queued
\* again.
LEMMA BatchKept ==
  ASSUME NEW b, GoodBatch(b),
         batches'[b].cmds = batches[b].cmds, batches'[b].key = batches[b].key,
         Stored \subseteq Stored', \A c \in Stored : commands'[c] = commands[c],
         Stored \cap queue' \subseteq queue
  PROVE  GoodBatch(b)' /\ (\A c : InBatch(c, b)' <=> InBatch(c, b))
         /\ \A c : InBatch(c, b) => c \in Stored \ queue
<1> DEFINE s == batches[b].cmds
<1>1. batches'[b].cmds = s
  OBVIOUS
<1>2. /\ DOMAIN s = 1..Len(s) /\ Len(s) \in Nat \ {0}
      /\ \A i \in 1..Len(s) : /\ s[i] \in Stored \ queue
                              /\ commands[s[i]].key = batches[b].key
      /\ \A i, j \in 1..Len(s) : i < j => Before(s[i], s[j])
      /\ Len(s) = 1 \/ Gas(s) <= GasLimit
  BY DEF GoodBatch
<1>3. \A i \in 1..Len(s) : commands'[s[i]] = commands[s[i]] /\ s[i] \in Stored' \ queue'
  BY <1>2
<1>4. ASSUME NEW i \in 1..Len(s), NEW j \in 1..Len(s), i < j
      PROVE  \/ commands'[s[i]].block < commands'[s[j]].block
             \/ commands'[s[i]].block = commands'[s[j]].block /\ s[i] < s[j]
  <2>1. Before(s[i], s[j])
    BY <1>2, <1>4, Zenon
  <2>2. commands'[s[i]] = commands[s[i]] /\ commands'[s[j]] = commands[s[j]]
    BY <1>3, Zenon
  <2> QED
    BY <2>1, <2>2, Zenon DEF Before
<1>5. [i \in DOMAIN s |-> MaxGasCost[commands'[s[i]].kind]]
         = [i \in DOMAIN s |-> MaxGasCost[commands[s[i]].kind]]
  BY <1>2, <1>3
<1>6. SumFunction([i \in DOMAIN s |-> MaxGasCost[commands'[s[i]].kind]]) = Gas(s)
  BY <1>5, Zenon DEF Gas
<1>7. \A c : InBatch(c, b) => c \in Stored \ queue
  BY <1>2 DEF InBatch, Range
<1>8. \A c : InBatch(c, b)' <=> InBatch(c, b)
  BY <1>1 DEF InBatch
<1>9. Len(batches'[b].cmds) = 1 \/ Gas(batches[b].cmds)' <= GasLimit
  BY <1>1, <1>2, <1>6, Zenon DEF Gas
<1>10. ASSUME NEW i \in 1..Len(s), NEW j \in 1..Len(s), i < j
       PROVE  Before(batches[b].cmds[i], batches[b].cmds[j])'
  <2>1. \/ commands'[s[i]].block < commands'[s[j]].block
        \/ commands'[s[i]].block = commands'[s[j]].block /\ s[i] < s[j]
    BY <1>4, <1>10, Zenon
  <2>2. batches'[b].cmds[i] = s[i] /\ batches'[b].cmds[j] = s[j]
    BY <1>1, Zenon
  <2> QED
    BY <2>1, <2>2 DEF Before
<1>11. GoodBatch(b)'
  BY <1>1, <1>2, <1>3, <1>9, <1>10, Zenon DEF GoodBatch
<1> QED
  BY <1>7, <1>8, <1>11

LEMMA EnqueuePlaces ==
  ASSUME PlaceInv, NEW id \in CommandIDs, NEW kind, EnqueueCommand(id, kind), stage' \in 1..4,
         UNCHANGED <<batches, unsignedID, currentKey, block>>
  PROVE  /\ PlaceInv'
         /\ id \notin Stored /\ Stored' = Stored \cup {id}
         /\ commands'[id].kind = kind /\ commands'[id].key = currentKey /\ commands'[id].block = block
         /\ \A c \in Stored : commands'[c] = commands[c]
<1> DEFINE new == [kind |-> kind, key |-> currentKey, block |-> block]
<1>1. /\ DOMAIN commands = CommandIDs
      /\ currentKey \in Nat \ {0} /\ block \in Nat \ {0}
      /\ \A c \in Stored : commands[c].key \in 1..currentKey /\ commands[c].block \in 1..block
      /\ queue \subseteq Stored /\ IsFiniteSet(queue)
  BY DEF PlaceInv, CommandsInv
<1>2. commands' = [commands EXCEPT ![id] = new] /\ queue' = queue \cup {id} /\ commands[id] = NoCommand
  BY DEF EnqueueCommand
<1>3. new.kind = kind /\ new.key = currentKey /\ new.block = block /\ new # NoCommand
  BY <1>1 DEF NoCommand
<1> HIDE DEF new
<1>4. /\ DOMAIN commands' = CommandIDs /\ commands'[id] = new /\ id \notin Stored
      /\ \A c \in CommandIDs \ {id} : commands'[c] = commands[c]
  BY <1>1, <1>2 DEF Stored
<1>5. Stored' = Stored \cup {id} /\ \A c \in Stored : commands'[c] = commands[c]
  BY <1>3, <1>4 DEF Stored
<1>6. Created' = Created
  BY DEF Created
<1>7. ASSUME NEW b \in Created
      PROVE  GoodBatch(b)' /\ (\A c : InBatch(c, b)' <=> InBatch(c, b))
             /\ \A c : InBatch(c, b) => c \in Stored \ queue
  <2>1. GoodBatch(b)
    BY DEF PlaceInv, ListsInv
  <2>2. Stored \cap queue' \subseteq queue /\ Stored \subseteq Stored'
    BY <1>2, <1>4, <1>5
  <2> QED
    BY <1>5, <2>1, <2>2, BatchKept
<1>8. CommandsInv'
  <2>1. IsFiniteSet(queue')
    BY <1>1, <1>2, FS_AddElement
  <2>2. \A c \in Stored' : commands'[c].key \in 1..currentKey' /\ commands'[c].block \in 1..block'
    BY <1>1, <1>3, <1>4, <1>5
  <2> QED
    BY <1>1, <1>2, <1>4, <1>5, <2>1, <2>2 DEF CommandsInv
<1>9. ListsInv'
  BY <1>6, <1>7 DEF ListsInv
<1>10. PlacesInv'
  <2>1. ASSUME NEW c \in Stored' \ queue'
        PROVE  \E b \in Created' : InBatch(c, b)'
    <3>1. c \in Stored \ queue
      BY <1>2, <1>5
    <3>2. PICK b \in Created : InBatch(c, b)
      BY <3>1 DEF PlaceInv, PlacesInv
    <3> QED
      BY <1>6, <1>7, <3>2
  <2>2. ASSUME NEW b \in Created', NEW d \in Created', NEW c, InBatch(c, b)', InBatch(c, d)'
        PROVE  b = d
    BY <1>6, <1>7, <2>2 DEF PlaceInv, PlacesInv
  <2> QED
    BY <2>1, <2>2 DEF PlacesInv
<1>11. OrderInv'
  <2>1. \A b \in Created : \A c : InBatch(c, b)' => InBatch(c, b) /\ c \in Stored
    BY <1>7
  <2>2. ASSUME NEW b \in Created', NEW c, InBatch(c, b)', NEW q \in queue'
        PROVE  commands'[c].block <= commands'[q].block
    <3>1. InBatch(c, b) /\ c \in Stored /\ b \in Created
      BY <1>6, <2>1, <2>2
    <3>2. CASE q \in queue
      BY <1>1, <1>5, <3>1, <3>2 DEF PlaceInv, OrderInv
    <3>3. CASE q = id
      BY <1>1, <1>3, <1>4, <1>5, <3>1, <3>3
    <3> QED
      BY <1>2, <3>2, <3>3
  <2>3. ASSUME NEW b \in Created' \ {unsignedID'}, NEW c, NEW e,
               InBatch(c, b)', unsignedID' \in Created', InBatch(e, unsignedID)'
        PROVE  commands'[c].block <= commands'[e].block
    <3>1. unsignedID' = unsignedID
      OBVIOUS
    <3>2. InBatch(e, unsignedID)' <=> e \in Range(batches'[unsignedID].cmds)
      BY <3>1 DEF InBatch
    <3>3. InBatch(e, unsignedID) /\ unsignedID \in Created
      BY <1>6, <2>3, <3>1, <3>2 DEF InBatch
    <3>4. e \in Stored /\ c \in Stored /\ InBatch(c, b) /\ b \in Created \ {unsignedID}
      BY <1>6, <1>7, <2>3, <3>1, <3>3
    <3> QED
      BY <1>5, <3>3, <3>4 DEF PlaceInv, OrderInv
  <2>4. ASSUME NEW b \in Created', NEW d \in Created', NEW c, NEW e,
               batches'[d].prev = b, InBatch(c, b)', InBatch(e, d)'
        PROVE  commands'[c].block <= commands'[e].block
    <3>1. /\ InBatch(c, b) /\ InBatch(e, d) /\ c \in Stored /\ e \in Stored
          /\ b \in Created /\ d \in Created /\ batches[d].prev = b
      BY <1>6, <2>1, <2>4
    <3> QED
      BY <1>5, <3>1 DEF PlaceInv, OrderInv
  <2> QED
    BY <2>2, <2>3, <2>4 DEF OrderInv
<1>12. PlaceInv'
  BY <1>8, <1>9, <1>10, <1>11 DEF PlaceInv
<1> QED
  BY <1>3, <1>4, <1>5, <1>12

\* Nothing is stored or batched.
LEMMA SamePlaces ==
  ASSUME PlaceInv, UNCHANGED <<commands, queue, unsignedID>>,
         currentKey' \in Nat, currentKey' >= currentKey, block' \in Nat, block' >= block, stage' \in 1..4,
         Created' = Created,
         \A d \in Created : /\ batches'[d].cmds = batches[d].cmds
                            /\ batches'[d].key = batches[d].key
                            /\ batches'[d].prev = batches[d].prev
  PROVE  PlaceInv'
<1>1. Stored' = Stored /\ commands' = commands /\ queue' = queue /\ unsignedID' = unsignedID
  BY DEF Stored
<1>2. CommandsInv'
  BY <1>1 DEF PlaceInv, CommandsInv
<1>3. ASSUME NEW b \in Created
      PROVE  GoodBatch(b)' /\ (\A c : InBatch(c, b)' <=> InBatch(c, b))
  <2>1. GoodBatch(b)
    BY DEF PlaceInv, ListsInv
  <2> QED
    BY <1>1, <2>1, BatchKept
<1>4. ListsInv'
  BY <1>3 DEF ListsInv
<1>5. PlacesInv'
  BY <1>1, <1>3 DEF PlaceInv, PlacesInv
<1>6. unsignedID \in Created => \A e : InBatch(e, unsignedID)' <=> InBatch(e, unsignedID)
  BY <1>1 DEF InBatch
<1>7. OrderInv'
  <2>1. \A b \in Created' : \A c : InBatch(c, b)' =>
           \A q \in queue' : commands'[c].block <= commands'[q].block
    BY <1>1, <1>3, Zenon DEF PlaceInv, OrderInv
  <2>2. \A b \in Created' \ {unsignedID'} : \A c, e :
           InBatch(c, b)' /\ unsignedID' \in Created' /\ InBatch(e, unsignedID)'
             => commands'[c].block <= commands'[e].block
    BY <1>1, <1>3, <1>6, Zenon DEF PlaceInv, OrderInv
  <2>3. \A b, d \in Created' : \A c, e :
           batches'[d].prev = b /\ InBatch(c, b)' /\ InBatch(e, d)'
             => commands'[c].block <= commands'[e].block
    BY <1>1, <1>3 DEF PlaceInv, OrderInv
  <2> QED
    BY <2>1, <2>2, <2>3 DEF OrderInv
<1> QED
  BY <1>2, <1>4, <1>5, <1>7 DEF PlaceInv

LEMMA NewBatchPlaces ==
  ASSUME PlaceInv, BatchInv, NEW b \in BatchIDs, CreateNewBatchToSign(b), stage' \in 1..4,
         UNCHANGED <<commands, currentKey, block>>
  PROVE  /\ PlaceInv' /\ queue' \subseteq queue
         /\ \E c \in queue : batches'[b].key = commands[c].key
<1> DEFINE d == DequeuedCommands
           new == [status |-> "signing", key |-> commands[d[1]].key, cmds |-> d, prev |-> unsignedID]
<1>1. /\ batches' = [batches EXCEPT ![b] = new] /\ unsignedID' = b
      /\ queue' = queue \ Range(d) /\ queue # {}
  BY DEF CreateNewBatchToSign, GetLatestCommandBatch
<1>2. batches[b] = NoRecord
  <2> DEFINE free == {e \in BatchIDs : batches[e] = NoRecord}
  <2>1. b \in FreshIDs(free)
    BY DEF CreateNewBatchToSign
  <2>2. free \in SUBSET BatchIDs
    OBVIOUS
  <2>3. FreshIDs(free) \subseteq free
    BY <2>2, BatchesAssumption
  <2> QED
    BY <2>1, <2>3
<1>3. /\ DOMAIN batches = BatchIDs /\ b # NoBatch /\ b \notin Created
      /\ \A e \in Created : batches[e].prev \in Created \cup {NoBatch}
      /\ Created # {} => unsignedID \in Created
      /\ unsignedID # b
  BY <1>2, BatchesAssumption, Zenon DEF BatchInv, RecordsInv, ChainInv, Created
<1>4. new.key = commands[d[1]].key /\ new.cmds = d /\ new.prev = unsignedID /\ new # NoRecord
  BY DEF NoRecord
<1> HIDE DEF new
<1>5. /\ batches'[b] = new /\ Created' = Created \cup {b}
      /\ \A e \in Created : batches'[e] = batches[e]
  BY <1>1, <1>3, <1>4 DEF Created
<1>6. /\ DOMAIN commands = CommandIDs
      /\ currentKey \in Nat \ {0} /\ block \in Nat \ {0}
      /\ \A c \in Stored : commands[c].key \in 1..currentKey /\ commands[c].block \in 1..block
      /\ queue \subseteq Stored /\ IsFiniteSet(queue)
  BY DEF PlaceInv, CommandsInv
<1>7. Ranked(queue)
  BY <1>6 DEF Ranked, Stored
<1>8. /\ d \in Seq(queue) /\ Len(d) \in Nat \ {0} /\ DOMAIN d = 1..Len(d)
      /\ \A i \in 1..Len(d) : commands[d[i]].key = commands[d[1]].key
      /\ \A i, j \in 1..Len(d) : i < j => Before(d[i], d[j])
      /\ Len(d) = 1 \/ Gas(d) <= GasLimit
      /\ \A q \in queue \ Range(d), i \in 1..Len(d) : Before(d[i], q)
  BY <1>1, <1>6, <1>7, TakenFromQueue
<1> HIDE DEF d
<1>9. /\ \A i \in 1..Len(d) : d[i] \in queue /\ d[i] \in Range(d)
      /\ \A c \in Range(d) : \E i \in 1..Len(d) : c = d[i]
  BY <1>8 DEF Range
<1>10. Range(d) \subseteq queue /\ queue' \subseteq queue
  BY <1>1, <1>9
<1>11. Stored' = Stored /\ commands' = commands
  BY DEF Stored
<1>12. ASSUME NEW e \in Created
       PROVE  GoodBatch(e)' /\ (\A c : InBatch(c, e)' <=> InBatch(c, e))
              /\ \A c : InBatch(c, e) => c \in Stored \ queue
  <2>1. GoodBatch(e)
    BY DEF PlaceInv, ListsInv
  <2>2. batches'[e].cmds = batches[e].cmds /\ batches'[e].key = batches[e].key
    BY <1>5
  <2> QED
    BY <1>10, <1>11, <2>1, <2>2, BatchKept
<1>13. \A c : InBatch(c, b)' <=> c \in Range(d)
  BY <1>4, <1>5, Zenon DEF InBatch
<1>14. GoodBatch(b)'
  <2>1. batches'[b].cmds = d /\ batches'[b].key = commands[d[1]].key
    BY <1>4, <1>5
  <2>2. ASSUME NEW i \in 1..Len(d)
        PROVE  d[i] \in Stored' \ queue' /\ commands'[d[i]].key = batches'[b].key
    <3>1. d[i] \in queue /\ d[i] \in Range(d)
      BY <1>9, Zenon
    <3>2. d[i] \in Stored'
      BY <1>6, <1>11, <3>1, Zenon
    <3>3. d[i] \notin queue'
      BY <1>1, <3>1, Zenon
    <3>4. commands'[d[i]].key = batches'[b].key
      BY <1>8, <1>11, <2>1, Zenon
    <3> QED
      BY <3>2, <3>3, <3>4, Zenon
  <2>3. ASSUME NEW i \in 1..Len(d), NEW j \in 1..Len(d), i < j
        PROVE  Before(batches[b].cmds[i], batches[b].cmds[j])'
    <3>1. \/ commands[d[i]].block < commands[d[j]].block
          \/ commands[d[i]].block = commands[d[j]].block /\ d[i] < d[j]
      BY <1>8, <2>3, Zenon DEF Before
    <3>2. batches'[b].cmds[i] = d[i] /\ batches'[b].cmds[j] = d[j]
      BY <2>1, Zenon
    <3> QED
      BY <1>11, <3>1, <3>2 DEF Before
  <2>4. Gas(batches[b].cmds)' = Gas(d)
    BY <1>11, <2>1, Zenon DEF Gas
  <2>5. Len(d) = 1 \/ Gas(batches[b].cmds)' <= GasLimit
    BY <1>8, <2>4, Zenon
  <2> QED
    BY <1>8, <2>1, <2>2, <2>3, <2>5, Zenon DEF GoodBatch
<1>15. CommandsInv'
  <2>1. IsFiniteSet(queue')
    BY <1>6, <1>10, FS_Subset
  <2> QED
    BY <1>6, <1>10, <1>11, <2>1 DEF CommandsInv
<1>16. ListsInv'
  BY <1>5, <1>12, <1>14 DEF ListsInv
<1>17. PlacesInv'
  <2>1. ASSUME NEW c \in Stored' \ queue'
        PROVE  \E e \in Created' : InBatch(c, e)'
    <3>1. CASE c \in Range(d)
      BY <1>5, <1>13, <3>1
    <3>2. CASE c \notin Range(d)
      <4>1. c \in Stored \ queue
        BY <1>1, <1>11, <3>2
      <4>2. PICK e \in Created : InBatch(c, e)
        BY <4>1 DEF PlaceInv, PlacesInv
      <4> QED
        BY <1>5, <1>12, <4>2
    <3> QED
      BY <3>1, <3>2
  <2>2. ASSUME NEW e \in Created', NEW f \in Created', NEW c, InBatch(c, e)', InBatch(c, f)'
        PROVE  e = f
    <3>1. \A g \in Created : InBatch(c, g)' => c \notin Range(d)
      BY <1>10, <1>12
    <3>2. e \in Created /\ f \in Created => e = f
      BY <1>12, <2>2, Zenon DEF PlaceInv, PlacesInv
    <3> QED
      BY <1>5, <1>13, <2>2, <3>1, <3>2
  <2> QED
    BY <2>1, <2>2 DEF PlacesInv
<1>18. \A e \in Created : \A c : InBatch(c, e)' =>
          InBatch(c, e) /\ \A q \in queue : commands[c].block <= commands[q].block
  BY <1>12 DEF PlaceInv, OrderInv
<1>19. OrderInv'
  <2>1. ASSUME NEW e \in Created', NEW c, InBatch(c, e)', NEW q \in queue'
        PROVE  commands'[c].block <= commands'[q].block
    <3>1. CASE e \in Created
      BY <1>10, <1>11, <1>18, <2>1, <3>1
    <3>2. CASE e = b
      <4>1. PICK i \in 1..Len(d) : c = d[i]
        BY <1>9, <1>13, <2>1, <3>2, Zenon
      <4>2. Before(c, q) /\ c \in queue /\ q \in queue
        BY <1>1, <1>8, <1>9, <2>1, <4>1, Zenon
      <4> QED
        BY <1>7, <1>11, <4>2, BeforeStrict
    <3> QED
      BY <1>5, <3>1, <3>2
  <2>2. ASSUME NEW e \in Created' \ {unsignedID'}, NEW c, NEW f,
               InBatch(c, e)', unsignedID' \in Created', InBatch(f, unsignedID)'
        PROVE  commands'[c].block <= commands'[f].block
    <3>1. f \in Range(d)
      <4>1. unsignedID' = b
        BY <1>1
      <4>2. f \in Range(batches'[b].cmds)
        BY <2>2, <4>1 DEF InBatch
      <4> QED
        BY <1>4, <1>5, <4>2
    <3>2. e \in Created
      BY <1>1, <1>5, <2>2
    <3> QED
      BY <1>10, <1>11, <1>18, <2>2, <3>1, <3>2, Zenon
  <2>3. ASSUME NEW e \in Created', NEW g \in Created', NEW c, NEW f,
               batches'[g].prev = e, InBatch(c, e)', InBatch(f, g)'
        PROVE  commands'[c].block <= commands'[f].block
    <3>1. CASE g = b
      <4>1. e = unsignedID /\ f \in Range(d)
        BY <1>4, <1>5, <1>13, <2>3, <3>1
      <4>2. e \in Created
        BY <1>3, <1>5, <2>3, <4>1, Zenon
      <4> QED
        BY <1>10, <1>11, <1>18, <2>3, <4>1, <4>2, Zenon
    <3>2. CASE g # b
      <4>1. g \in Created /\ batches[g].prev = e /\ e \in Created
        BY <1>3, <1>5, <2>3, <3>2
      <4> QED
        BY <1>11, <1>12, <2>3, <4>1, Zenon DEF PlaceInv, OrderInv
    <3> QED
      BY <3>1, <3>2
  <2> QED
    BY <2>1, <2>2, <2>3 DEF OrderInv
<1>20. 1 \in 1..Len(d)
  BY <1>8
<1>21. batches'[b].key = commands[d[1]].key /\ d[1] \in queue
  BY <1>4, <1>5, <1>9, <1>20
<1> QED
  BY <1>10, <1>15, <1>16, <1>17, <1>19, <1>21 DEF PlaceInv

\* A batch whose status changes keeps all else.
LEMMA StatusPlaces ==
  ASSUME BatchInv, NEW b \in Created, NEW x \in {"signing", "aborted", "signed"},
         batches' = [batches EXCEPT ![b].status = x]
  PROVE  /\ Created' = Created
         /\ \A d \in Created : /\ batches'[d].cmds = batches[d].cmds
                               /\ batches'[d].key = batches[d].key
                               /\ batches'[d].prev = batches[d].prev
<1>1. DOMAIN batches = BatchIDs /\ b \in BatchIDs /\ IsBatch(batches[b])
  BY DEF BatchInv, RecordsInv, Created
<1>2. batches' = [batches EXCEPT ![b] = [batches[b] EXCEPT !.status = x]]
  BY <1>1
<1>3. batches'[b] = [status |-> x, key |-> batches[b].key, cmds |-> batches[b].cmds, prev |-> batches[b].prev]
  BY <1>1, <1>2, Zenon DEF IsBatch
<1>4. /\ batches'[b].cmds = batches[b].cmds /\ batches'[b].key = batches[b].key
      /\ batches'[b].prev = batches[b].prev /\ batches'[b] # NoRecord
  BY <1>3 DEF NoRecord
<1>5. \A d \in BatchIDs : d # b => batches'[d] = batches[d]
  BY <1>1, <1>2
<1> QED
  BY <1>1, <1>4, <1>5 DEF Created

LEMMA HandleSigningPlaces ==
  ASSUME BatchInv, NEW r \in Requests, HandleSigning(r)
  PROVE  /\ Created' = Created
         /\ \A d \in Created : /\ batches'[d].cmds = batches[d].cmds
                               /\ batches'[d].key = batches[d].key
                               /\ batches'[d].prev = batches[d].prev
<1>1. PICK lost \in SUBSET {r} : Resolve({r} \ lost, lost)
  BY Zenon DEF HandleSigning
<1>2. status[r] = "open" /\ batches' = [batches EXCEPT ![requestBatch[r]].status = StatusAfter(r, @)]
  BY DEF HandleSigning
<1>3. PICK b \in Created : b = requestBatch[r] /\ batches[b].status = "signing"
  BY <1>2 DEF BatchInv, SignInv, Waiting
<1>4. status'[r] \in {"lost", "completed", "failed"}
  BY <1>1 DEF Resolve
<1>5. PICK x \in {"signing", "aborted", "signed"} : x = StatusAfter(r, batches[b].status)
  BY <1>3, <1>4 DEF StatusAfter
<1>6. DOMAIN batches = BatchIDs /\ b \in BatchIDs
  BY DEF BatchInv, RecordsInv, Created
<1>7. batches' = [batches EXCEPT ![b] = [batches[b] EXCEPT !.status = StatusAfter(r, batches[b].status)]]
  BY <1>2, <1>3, <1>6
<1>8. batches' = [batches EXCEPT ![b].status = x]
  BY <1>5, <1>6, <1>7
<1> QED
  BY <1>8, StatusPlaces, Zenon

-----------------------------------------------------------------------------
(* The keys of the commands.                                               *)

\* What is queued, and the latest batch, is at most one epoch behind the current key and
\* one more for every transfer that was forced since the gateway executed one.
UsableInv ==
    /\ overtaken \in Nat
    /\ \A c \in queue : commands[c].key >= currentKey - 1 - overtaken
    /\ unsignedID \in Created => batches[unsignedID].key >= currentKey - 1 - overtaken

QueueInv == BatchInv /\ PlaceInv /\ EpochsInv /\ UsableInv

LEMMA BatchedKey ==
  ASSUME PlaceInv, NEW b \in Created
  PROVE  /\ \A c : InBatch(c, b) => c \in Stored \ queue /\ commands[c].key = batches[b].key
         /\ \E c : InBatch(c, b)
<1> DEFINE s == batches[b].cmds
<1>1. /\ DOMAIN s = 1..Len(s) /\ Len(s) \in Nat \ {0}
      /\ \A i \in 1..Len(s) : /\ s[i] \in Stored \ queue
                              /\ commands[s[i]].key = batches[b].key
  BY DEF PlaceInv, ListsInv, GoodBatch
<1>2. 1 \in 1..Len(s)
  BY <1>1
<1> QED
  BY <1>1, <1>2, Zenon DEF InBatch, Range

LEMMA EnqueueEpochs ==
  ASSUME QueueInv, NEW id \in CommandIDs, NEW kind, EnqueueCommand(id, kind),
         NEW s \in 1..4, RunsIn(s), kind = "transfer" => s = Transactions,
         UNCHANGED <<batches, unsignedID, currentKey, overtaken, block>>
  PROVE  PlaceInv' /\ EpochsInv' /\ UsableInv'
<1>1. stage <= s /\ stage' = s /\ stage \in 1..4
  BY DEF RunsIn, QueueInv, PlaceInv, CommandsInv
<1>2. /\ PlaceInv'
      /\ id \notin Stored /\ Stored' = Stored \cup {id}
      /\ commands'[id].kind = kind /\ commands'[id].key = currentKey /\ commands'[id].block = block
      /\ \A c \in Stored : commands'[c] = commands[c]
  BY <1>1, EnqueuePlaces DEF QueueInv
<1>3. /\ currentKey \in Nat \ {0} /\ block \in Nat \ {0} /\ currentKey' = currentKey /\ block' = block
      /\ \A c \in Stored : commands[c].key \in 1..currentKey /\ commands[c].block \in 1..block
      /\ queue \subseteq Stored
  BY DEF QueueInv, PlaceInv, CommandsInv
<1>4. stage <= Multisig =>
          \A c \in Stored : commands[c].key < currentKey => commands[c].block < block
  BY DEF QueueInv, EpochsInv
<1>5. stage' <= Multisig =>
          \A c \in Stored' : commands'[c].key < currentKey' => commands'[c].block < block'
  <2>1. ASSUME stage' <= Multisig, NEW c \in Stored', commands'[c].key < currentKey
        PROVE  commands'[c].block < block
    <3>1. stage <= Multisig
      BY <1>1, <2>1 DEF Multisig
    <3>2. c \in Stored
      BY <1>2, <1>3, <2>1
    <3> QED
      BY <1>2, <1>4, <2>1, <3>1, <3>2
  <2> QED
    BY <1>3, <2>1
<1>6. ASSUME NEW t \in Stored', NEW c \in Stored',
             commands'[t].kind = "transfer", commands'[c].key < commands'[t].key
      PROVE  commands'[c].block < commands'[t].block
  <2>1. c \in Stored
    <3>1. commands'[t].key <= currentKey /\ commands'[t].key \in Nat
      BY <1>2, <1>3
    <3> QED
      BY <1>2, <1>3, <1>6, <3>1
  <2>2. CASE t \in Stored
    BY <1>2, <1>6, <2>1, <2>2 DEF QueueInv, EpochsInv
  <2>3. CASE t = id
    <3>1. stage <= Multisig
      BY <1>1, <1>2, <1>6, <2>3 DEF Multisig, Transactions
    <3> QED
      BY <1>2, <1>4, <1>6, <2>1, <2>3, <3>1
  <2> QED
    BY <1>2, <2>2, <2>3
<1>7. EpochsInv'
  BY <1>5, <1>6 DEF EpochsInv
<1>8. UsableInv'
  <2>1. queue' = queue \cup {id} /\ unsignedID' = unsignedID /\ Created' = Created /\ batches' = batches
    BY DEF EnqueueCommand, Created
  <2>2. \A c \in queue' : commands'[c].key >= currentKey' - 1 - overtaken'
    BY <1>2, <1>3, <2>1 DEF QueueInv, UsableInv
  <2> QED
    BY <1>3, <2>1, <2>2 DEF QueueInv, UsableInv
<1> QED
  BY <1>2, <1>7, <1>8, Zenon

\* A step within a block that stores nothing and rotates no key.
LEMMA SameEpochs ==
  ASSUME QueueInv, UNCHANGED <<commands, currentKey, overtaken, block>>, NEW s \in 1..4, RunsIn(s)
  PROVE  EpochsInv' /\ stage' \in 1..4
<1>1. stage <= s /\ stage' = s /\ stage \in 1..4
  BY DEF RunsIn, QueueInv, PlaceInv, CommandsInv
<1>2. Stored' = Stored /\ commands' = commands /\ currentKey' = currentKey /\ block' = block
  BY DEF Stored
<1>3. stage' <= Multisig => stage <= Multisig
  BY <1>1 DEF Multisig
<1>4. stage' <= Multisig =>
          \A c \in Stored' : commands'[c].key < currentKey' => commands'[c].block < block'
  BY <1>2, <1>3 DEF QueueInv, EpochsInv
<1>5. \A t, c \in Stored' :
          commands'[t].kind = "transfer" /\ commands'[c].key < commands'[t].key
             => commands'[c].block < commands'[t].block
  BY <1>2 DEF QueueInv, EpochsInv
<1> QED
  BY <1>1, <1>4, <1>5 DEF EpochsInv

LEMMA SignCommandsQueue ==
  ASSUME QueueInv, NEW r \in Requests, NEW b \in BatchIDs, SignCommands(r, b)
  PROVE  PlaceInv' /\ EpochsInv' /\ UsableInv'
<1>1. /\ RunsIn(Transactions) /\ UNCHANGED <<commands, currentKey, overtaken, block>> /\ Transactions \in 1..4
  BY DEF SignCommands, keyVars, Transactions
<1>2. EpochsInv' /\ stage' \in 1..4
  BY <1>1, SameEpochs
<1>3. currentKey \in Nat /\ block \in Nat /\ queue \subseteq Stored
  BY DEF QueueInv, PlaceInv, CommandsInv
<1>4. CASE CreateNewBatchToSign(b)
  <2>1. /\ PlaceInv' /\ queue' \subseteq queue
        /\ \E c \in queue : batches'[b].key = commands[c].key
    BY <1>1, <1>2, <1>4, NewBatchPlaces, Zenon DEF QueueInv
  <2>2. unsignedID' = b
    BY <1>4 DEF CreateNewBatchToSign
  <2>3. batches'[unsignedID'].key >= currentKey' - 1 - overtaken'
    BY <1>1, <2>1, <2>2 DEF QueueInv, UsableInv
  <2>4. UsableInv'
    BY <1>1, <2>1, <2>3 DEF QueueInv, UsableInv
  <2> QED
    BY <1>2, <2>1, <2>4
<1>5. CASE /\ LatestStatus = "aborted"
           /\ b = GetLatestCommandBatch
           /\ batches' = [batches EXCEPT ![b].status = "signing"]
           /\ UNCHANGED <<queue, unsignedID>>
  <2>1. b \in Created /\ b = unsignedID
    BY <1>5 DEF LatestStatus, GetLatestCommandBatch, QueueInv, BatchInv, RecordsInv
  <2>2. /\ Created' = Created
        /\ \A d \in Created : /\ batches'[d].cmds = batches[d].cmds
                              /\ batches'[d].key = batches[d].key
                              /\ batches'[d].prev = batches[d].prev
    BY <1>5, <2>1, StatusPlaces, Zenon DEF QueueInv
  <2>3. PlaceInv'
    BY <1>1, <1>2, <1>3, <1>5, <2>2, SamePlaces DEF QueueInv
  <2>4. UsableInv'
    BY <1>1, <1>5, <2>1, <2>2 DEF QueueInv, UsableInv
  <2> QED
    BY <1>2, <2>3, <2>4
<1> QED
  BY <1>4, <1>5 DEF SignCommands

LEMMA HandleSigningQueue ==
  ASSUME QueueInv, NEW r \in Requests, HandleSigning(r)
  PROVE  PlaceInv' /\ EpochsInv' /\ UsableInv'
<1>1. /\ RunsIn(Multisig) /\ Multisig \in 1..4
      /\ UNCHANGED <<commands, queue, unsignedID, currentKey, overtaken, block>>
  BY DEF HandleSigning, keyVars, Multisig
<1>2. EpochsInv' /\ stage' \in 1..4
  BY <1>1, SameEpochs
<1>3. currentKey \in Nat /\ block \in Nat
  BY DEF QueueInv, PlaceInv, CommandsInv
<1>4. /\ Created' = Created
      /\ \A d \in Created : /\ batches'[d].cmds = batches[d].cmds
                            /\ batches'[d].key = batches[d].key
                            /\ batches'[d].prev = batches[d].prev
  BY HandleSigningPlaces DEF QueueInv
<1>5. PlaceInv'
  BY <1>1, <1>2, <1>3, <1>4, SamePlaces DEF QueueInv
<1>6. UsableInv'
  BY <1>1, <1>4 DEF QueueInv, UsableInv
<1> QED
  BY <1>2, <1>5, <1>6

\* A transfer for the current key that the gateway executed was no later than what is
\* queued or in the latest batch: nothing of an earlier key is left there.
LEMMA ExecutedLast ==
  ASSUME QueueInv, TransferExecuted
  PROVE  /\ \A q \in queue : commands[q].key >= currentKey
         /\ unsignedID \in Created => batches[unsignedID].key >= currentKey
<1>2. /\ currentKey \in Nat /\ block \in Nat /\ queue \subseteq Stored
      /\ \A c \in Stored : commands[c].key \in 1..currentKey /\ commands[c].block \in 1..block
  BY DEF QueueInv, PlaceInv, CommandsInv
<1>3. PICK b \in BatchIDs, t \in CommandIDs :
         batches[b].status = "signed" /\ InBatch(t, b)
         /\ commands[t].kind = "transfer" /\ commands[t].key = currentKey
  BY DEF TransferExecuted
<1>4. b \in Created
  <2>1. NoRecord.status # "signed"
    BY DEF NoRecord
  <2> QED
    BY <1>3, <2>1, Zenon DEF Created
<1>5. t \in Stored /\ batches[b].key = currentKey
  BY <1>3, <1>4, BatchedKey DEF QueueInv
<1>6. ASSUME NEW c \in Stored, commands[t].block <= commands[c].block
      PROVE  commands[c].key >= currentKey
  <2>1. commands[c].key < commands[t].key => commands[c].block < commands[t].block
    BY <1>3, <1>5 DEF QueueInv, EpochsInv
  <2>2. commands[c].block \in Nat /\ commands[t].block \in Nat /\ commands[c].key \in Nat
    BY <1>2, <1>5
  <2> QED
    BY <1>2, <1>3, <1>6, <2>1, <2>2
<1>7. \A q \in queue : commands[q].key >= currentKey
  <2>1. \A q \in queue : q \in Stored /\ commands[t].block <= commands[q].block
    BY <1>2, <1>3, <1>4 DEF QueueInv, PlaceInv, OrderInv
  <2> QED
    BY <1>6, <2>1
<1>8. ASSUME unsignedID \in Created
      PROVE  batches[unsignedID].key >= currentKey
  <2>1. CASE b = unsignedID
    BY <1>2, <1>5, <2>1
  <2>2. CASE b # unsignedID
    <3>1. PICK c : InBatch(c, unsignedID)
      BY <1>8, BatchedKey DEF QueueInv
    <3>2. c \in Stored /\ commands[c].key = batches[unsignedID].key
      BY <1>8, <3>1, BatchedKey DEF QueueInv
    <3>3. commands[t].block <= commands[c].block
      BY <1>3, <1>4, <1>8, <2>2, <3>1 DEF QueueInv, PlaceInv, OrderInv
    <3> QED
      BY <1>6, <3>2, <3>3
  <2> QED
    BY <2>1, <2>2
<1> QED
  BY <1>7, <1>8

\* After an executed transfer what waits is one epoch behind at most; a forced one leaves
\* it one epoch further behind.
LEMMA RotationQueue ==
  ASSUME QueueInv, applyKeyRotation
  PROVE  PlaceInv' /\ EpochsInv' /\ UsableInv'
<1>1. /\ UNCHANGED <<commands, queue, batches, unsignedID, block>> /\ currentKey' = currentKey + 1
      /\ stage' = EventHandling
      /\ overtaken' = IF TransferExecuted THEN 0 ELSE overtaken + 1
  BY DEF applyKeyRotation, batchVars, RunsIn
<1>2. /\ currentKey \in Nat /\ block \in Nat /\ queue \subseteq Stored
      /\ \A c \in Stored : commands[c].key \in 1..currentKey /\ commands[c].block \in 1..block
  BY DEF QueueInv, PlaceInv, CommandsInv
<1>9. Created' = Created /\ Stored' = Stored
  BY <1>1 DEF Created, Stored
<1>10. UsableInv'
  <2>1. /\ overtaken \in Nat
        /\ \A c \in queue : commands[c].key >= currentKey - 1 - overtaken
        /\ unsignedID \in Created => batches[unsignedID].key >= currentKey - 1 - overtaken
    BY DEF QueueInv, UsableInv
  <2>2. CASE TransferExecuted
    BY <1>1, <1>2, <1>9, <2>2, ExecutedLast DEF UsableInv
  <2>3. CASE ~TransferExecuted
    <3>1. overtaken' = overtaken + 1
      BY <1>1, <2>3
    <3>2. currentKey' - 1 - overtaken' = currentKey - 1 - overtaken
      BY <1>1, <1>2, <2>1, <3>1
    <3> QED
      BY <1>1, <1>9, <2>1, <3>1, <3>2 DEF UsableInv
  <2> QED
    BY <2>2, <2>3
<1>11. EpochsInv'
  <2>1. ~(stage' <= Multisig)
    BY <1>1 DEF EventHandling, Multisig
  <2> QED
    BY <1>1, <1>9, <2>1 DEF QueueInv, EpochsInv
<1>12. PlaceInv'
  BY <1>1, <1>2, <1>9, SamePlaces DEF QueueInv, EventHandling
<1> QED
  BY <1>10, <1>11, <1>12

\* The next block is later than every command so far.
LEMMA NextBlockQueue ==
  ASSUME QueueInv, NextBlock
  PROVE  PlaceInv' /\ EpochsInv' /\ UsableInv'
<1>1. /\ UNCHANGED <<commands, queue, batches, unsignedID, currentKey, overtaken>> /\ stage' = Transactions
      /\ block' = IF \E c \in CommandIDs : commands[c].block = block THEN block + 1 ELSE block
  BY DEF NextBlock, batchVars, keyVars
<1>2. /\ currentKey \in Nat /\ block \in Nat /\ Stored \subseteq CommandIDs
      /\ \A c \in Stored : commands[c].block \in 1..block
  BY DEF QueueInv, PlaceInv, CommandsInv, Stored
<1>3. Created' = Created /\ Stored' = Stored
  BY <1>1 DEF Created, Stored
<1>4. block' \in Nat /\ block' >= block
  BY <1>1, <1>2
<1>5. \A c \in Stored : commands[c].block < block'
  BY <1>1, <1>2
<1>6. EpochsInv'
  BY <1>1, <1>3, <1>5 DEF QueueInv, EpochsInv
<1>7. UsableInv'
  BY <1>1, <1>3 DEF QueueInv, UsableInv
<1>8. PlaceInv'
  BY <1>1, <1>2, <1>3, <1>4, SamePlaces DEF QueueInv, Transactions
<1> QED
  BY <1>6, <1>7, <1>8

LEMMA QueueStep ==
  ASSUME QueueInv, [BatchesNext]_vars
  PROVE  QueueInv'
<1>1. BatchInv'
  BY BatchStep DEF QueueInv
<1> SUFFICES PlaceInv' /\ EpochsInv' /\ UsableInv'
  BY <1>1 DEF QueueInv
<1>2. ASSUME NEW c \in CommandIDs, deliverMessage(c)
      PROVE  PlaceInv' /\ EpochsInv' /\ UsableInv'
  <2>1. Delivery \in 1..4 /\ EnqueueCommand(c, "approve") /\ RunsIn(Delivery)
        /\ UNCHANGED <<batches, unsignedID, currentKey, overtaken, block>>
    BY <1>2 DEF deliverMessage, Delivery, keyVars
  <2> QED
    BY <2>1, EnqueueEpochs
<1>3. ASSUME NEW c \in CommandIDs, CreateDeployToken(c)
      PROVE  PlaceInv' /\ EpochsInv' /\ UsableInv'
  <2>1. Transactions \in 1..4 /\ EnqueueCommand(c, "deploy") /\ RunsIn(Transactions)
        /\ UNCHANGED <<batches, unsignedID, currentKey, overtaken, block>>
    BY <1>3 DEF CreateDeployToken, Transactions, keyVars
  <2> QED
    BY <2>1, EnqueueEpochs
<1>4. ASSUME NEW c \in CommandIDs, CreateTransferOperatorship(c)
      PROVE  PlaceInv' /\ EpochsInv' /\ UsableInv'
  <2>1. Transactions \in 1..4 /\ EnqueueCommand(c, "transfer") /\ RunsIn(Transactions)
        /\ UNCHANGED <<batches, unsignedID, currentKey, overtaken, block>>
    BY <1>4 DEF CreateTransferOperatorship, Transactions
  <2> QED
    BY <2>1, EnqueueEpochs
<1>5. CASE \E r \in Requests, b \in BatchIDs : SignCommands(r, b)
  BY <1>5, SignCommandsQueue
<1>6. CASE \E r \in Requests : HandleSigning(r)
  BY <1>6, HandleSigningQueue
<1>7. CASE applyKeyRotation
  BY <1>7, RotationQueue
<1>8. CASE NextBlock
  BY <1>8, NextBlockQueue
<1>9. ASSUME UNCHANGED <<commands, queue, batches, unsignedID, currentKey, overtaken, block>>,
             EpochsInv', stage' \in 1..4
      PROVE  PlaceInv' /\ EpochsInv' /\ UsableInv'
  <2>1. Created' = Created /\ currentKey \in Nat /\ block \in Nat
    BY <1>9 DEF Created, QueueInv, PlaceInv, CommandsInv
  <2>2. PlaceInv'
    BY <1>9, <2>1, SamePlaces DEF QueueInv
  <2>3. UsableInv'
    BY <1>9, <2>1 DEF QueueInv, UsableInv
  <2> QED
    BY <1>9, <2>2, <2>3
<1>10. CASE ConfirmTransferKey \/ ActivateChain \/ DeactivateChain
  <2>1. /\ RunsIn(Transactions) /\ Transactions \in 1..4
        /\ UNCHANGED <<commands, queue, batches, unsignedID, currentKey, overtaken, block>>
    BY <1>10 DEF ConfirmTransferKey, ActivateChain, DeactivateChain, batchVars, keyVars, Transactions
  <2>2. EpochsInv' /\ stage' \in 1..4
    BY <2>1, SameEpochs
  <2> QED
    BY <1>9, <2>1, <2>2
<1>11. CASE UNCHANGED vars
  <2>1. UNCHANGED <<commands, queue, batches, unsignedID, currentKey, overtaken, block, stage>>
    BY <1>11 DEF vars, batchVars, keyVars
  <2>2. stage' \in 1..4 /\ Stored' = Stored
    BY <2>1 DEF QueueInv, PlaceInv, CommandsInv, Stored
  <2>3. EpochsInv'
    BY <2>1, <2>2 DEF QueueInv, EpochsInv
  <2> QED
    BY <1>9, <2>1, <2>2, <2>3
<1> QED
  BY <1>2, <1>3, <1>4, <1>5, <1>6, <1>7, <1>8, <1>10, <1>11 DEF BatchesNext

LEMMA QueueInvariance == BatchesSpec => []QueueInv
<1>1. BatchesInit => QueueInv
  <2> SUFFICES ASSUME BatchesInit PROVE QueueInv
    OBVIOUS
  <2>1. queue = {} /\ Created = {} /\ overtaken \in Nat
    BY DEF BatchesInit, Created
  <2> QED
    BY <2>1, BatchInitInv, PlaceInit DEF QueueInv, UsableInv
<1>2. QueueInv /\ [BatchesNext]_vars => QueueInv'
  BY QueueStep
<1> QED
  BY <1>1, <1>2, PTL DEF BatchesSpec

-----------------------------------------------------------------------------
(* EnqueueCommand and CreateNewBatchToSign: every stored command is in the *)
(* queue or in one batch, once; batches keep the order of the blocks that  *)
(* enqueued the commands, hold commands of their own key, and exceed the   *)
(* gas limit with a single command only.                                   *)
THEOREM EveryCommandBatched == BatchesSpec => []CommandsBatched
<1>1. ASSUME QueueInv PROVE CommandsBatched
  <2>1. ASSUME NEW b \in Created
        PROVE  LET s == batches[b].cmds
               IN /\ DOMAIN s = 1..Len(s) /\ Len(s) \in Nat \ {0}
                  /\ \A i \in 1..Len(s) : /\ s[i] \in Stored \ queue
                                          /\ commands[s[i]].key = batches[b].key
                  /\ \A i, j \in 1..Len(s) : i < j => Before(s[i], s[j])
                  /\ Len(s) = 1 \/ Gas(s) <= GasLimit
    BY <1>1 DEF QueueInv, PlaceInv, ListsInv, GoodBatch
  <2>2. ASSUME NEW b \in Created
        PROVE  \A c : InBatch(c, b) => c \in Stored \ queue /\ commands[c].key = batches[b].key
    BY <1>1, BatchedKey DEF QueueInv
  <2>3. ASSUME NEW c \in CommandIDs
        PROVE  LET places == {b \in Created : InBatch(c, b)}
               IN /\ c \in queue => places = {}
                  /\ commands[c] # NoCommand /\ c \notin queue => Cardinality(places) = 1
                  /\ \A b \in places : Cardinality({i \in DOMAIN batches[b].cmds : batches[b].cmds[i] = c}) = 1
    <3> DEFINE places == {b \in Created : InBatch(c, b)}
    <3>1. c \in queue => places = {}
      BY <2>2
    <3>2. ASSUME commands[c] # NoCommand, c \notin queue
          PROVE  Cardinality(places) = 1
      <4>1. PICK b \in Created : InBatch(c, b)
        BY <1>1, <3>2 DEF QueueInv, PlaceInv, PlacesInv, Stored
      <4>2. \A d \in Created : InBatch(c, d) => d = b
        BY <1>1, <4>1 DEF QueueInv, PlaceInv, PlacesInv
      <4>3. places = {b}
        BY <4>1, <4>2
      <4> QED
        BY <4>3, FS_Singleton
    <3>3. ASSUME NEW b \in places
          PROVE  Cardinality({i \in DOMAIN batches[b].cmds : batches[b].cmds[i] = c}) = 1
      <4> DEFINE s == batches[b].cmds
      <4>1. /\ DOMAIN s = 1..Len(s) /\ Len(s) \in Nat \ {0}
            /\ \A i \in 1..Len(s) : s[i] \in Stored \ queue
            /\ \A i, j \in 1..Len(s) : i < j => Before(s[i], s[j])
        BY <2>1
      <4>2. PICK i \in 1..Len(s) : s[i] = c
        BY <4>1 DEF InBatch, Range
      <4>3. Ranked(Stored)
        BY <1>1 DEF QueueInv, PlaceInv, CommandsInv, Ranked, Stored
      <4>4. \A j, k \in 1..Len(s) : j < k => s[j] # s[k]
        BY <4>1, <4>3, BeforeStrict, Zenon
      <4>5. \A j \in 1..Len(s) : s[j] = c => j = i
        BY <4>1, <4>2, <4>4
      <4>6. {j \in DOMAIN s : s[j] = c} = {i}
        BY <4>1, <4>2, <4>5
      <4> QED
        BY <4>6, FS_Singleton, Zenon
    <3> QED
      BY <3>1, <3>2, <3>3
  <2>4. CommandsOnce
    BY <2>3, Zenon DEF CommandsOnce
  <2>5. OrderKept
    BY <1>1, <2>1, Zenon DEF OrderKept, QueueInv, PlaceInv, OrderInv
  <2>6. BatchFits
    BY <2>1, <2>2 DEF BatchFits
  <2> QED
    BY <2>4, <2>5, <2>6, Zenon DEF CommandsBatched
<1> QED
  BY <1>1, QueueInvariance, PTL

(* ConfirmTransferKey, applyKeyRotation and RotateKey: what waits for a signature can get   *)
(* one as long as fewer than ActiveEpochCount - 1 transfers were forced since the gateway   *)
(* executed one.                                                                           *)
THEOREM NothingStranded == BatchesSpec => []KeysStayUsable
<1>1. ASSUME QueueInv, overtaken + 1 < ActiveEpochCount PROVE WaitingUsable
  <2>1. /\ currentKey \in Nat /\ queue \subseteq Stored
        /\ \A c \in Stored : commands[c].key \in 1..currentKey
    BY <1>1 DEF QueueInv, PlaceInv, CommandsInv
  <2>2. overtaken \in Nat /\ \A k \in 1..currentKey : k >= currentKey - 1 - overtaken => IsActive(k)
    BY <1>1, <2>1, BatchesAssumption DEF IsActive, QueueInv, UsableInv
  <2>3. \A c \in queue : IsActive(commands[c].key)
    BY <1>1, <2>1, <2>2 DEF QueueInv, UsableInv
  <2>4. ASSUME LatestStatus = "aborted"
        PROVE  IsActive(batches[GetLatestCommandBatch].key)
    <3>1. unsignedID \in Created
      BY <1>1, <2>4 DEF LatestStatus, GetLatestCommandBatch, QueueInv, BatchInv, RecordsInv
    <3>2. PICK c : InBatch(c, unsignedID)
      BY <1>1, <3>1, BatchedKey DEF QueueInv
    <3>3. c \in Stored /\ commands[c].key = batches[unsignedID].key
      BY <1>1, <3>1, <3>2, BatchedKey DEF QueueInv
    <3>4. batches[unsignedID].key \in 1..currentKey /\ batches[unsignedID].key >= currentKey - 1 - overtaken
      BY <1>1, <2>1, <3>1, <3>3 DEF QueueInv, UsableInv
    <3> QED
      BY <2>2, <3>4 DEF GetLatestCommandBatch
  <2> QED
    BY <2>3, <2>4 DEF WaitingUsable
<1> QED
  BY <1>1, QueueInvariance, PTL DEF KeysStayUsable

=============================================================================
