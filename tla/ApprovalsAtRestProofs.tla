------------------------ MODULE ApprovalsAtRestProofs ------------------------
(***************************************************************************)
(* What ApprovalWorkflow leaves behind when its controllers have come to   *)
(* rest, for every set of keys, every environment and every number of user *)
(* actions.                                                                *)
(*                                                                         *)
(* The properties at rest say that no wake-up is lost.  They follow from   *)
(* an invariant that says of each controller, at any time: if it is not    *)
(* queued, then every difference it would find in the caches is about an   *)
(* object whose change the informer has still to deliver, and delivery     *)
(* queues it.                                                              *)
(***************************************************************************)
EXTENDS ApprovalWorkflowProofs

\* What the informer has not been told of has not changed.
Fresh ==
  /\ \A k \in Keys \ stale.apiKey : cache.apiKey[k] = apiKey[k]
  /\ \A k \in Keys \ stale.request : cache.request[k] = request[k]
  /\ \A a \in ApprovalIds \ stale.approval : cache.approval[a] = approval[a]

\* Nothing is left of an object that is gone.
GoneObjects ==
  \A k \in Keys : /\ request[k].uid = 0 => request[k] = NoRequest
                  /\ apiKey[k].phase = "absent" => apiKey[k] = NoKey

StoreInv == Fresh /\ GoneObjects

\* apikeyrequest, apikeyapproval and apikeyapproval-status, unless queued, have
\* work only for objects whose change is on its way, or that a running call has
\* still to write.
RequestsHandled ==
  "apikeyrequest" \notin queue => ToCreate \cup ToDelete \cup Orphans \subseteq stale.request

ApprovalsOwned ==
  "apikeyapproval" \notin queue => ToOwn \subseteq stale.approval \cup Owning

ApprovalsValidated ==
  "apikeyapproval-status" \notin queue => ToValidate \subseteq stale.approval

HandledInv == StoreInv /\ RequestsHandled /\ ApprovalsOwned /\ ApprovalsValidated

-----------------------------------------------------------------------------
(* What writes to the API server preserve *)

\* No change is forgotten, nor what a running call has to write.
Grows ==
  /\ stale.apiKey \subseteq stale'.apiKey
  /\ stale.request \subseteq stale'.request
  /\ stale.approval \subseteq stale'.approval
  /\ Owning \subseteq stale'.approval \cup Owning'

LEMMA PutKeysInv ==
  ASSUME TypeOK, StoreInv, NEW objects, NEW changed \in SUBSET Keys,
         PutKeys(objects, changed), UNCHANGED cache,
         \A k \in Keys \ changed : objects[k] = apiKey[k],
         \A k \in changed : objects[k].phase = "absent" => objects[k] = NoKey
  PROVE  StoreInv' /\ Grows /\ changed \subseteq stale'.apiKey
<1>1. /\ apiKey' = objects /\ UNCHANGED <<request, approval, owning>>
      /\ stale'.apiKey = stale.apiKey \cup changed
      /\ stale'.request = stale.request /\ stale'.approval = stale.approval
  BY DEF PutKeys, TypeOK, call
<1> QED BY <1>1 DEF StoreInv, Fresh, GoneObjects, Grows, Owning

LEMMA PutRequestsInv ==
  ASSUME TypeOK, StoreInv, NEW objects, NEW changed \in SUBSET Keys,
         PutRequests(objects, changed), UNCHANGED cache,
         \A k \in Keys \ changed : objects[k] = request[k],
         \A k \in changed : objects[k].uid = 0 => objects[k] = NoRequest
  PROVE  StoreInv' /\ Grows /\ changed \subseteq stale'.request
<1>1. /\ request' = objects /\ UNCHANGED <<apiKey, approval, owning>>
      /\ stale'.request = stale.request \cup changed
      /\ stale'.apiKey = stale.apiKey /\ stale'.approval = stale.approval
  BY DEF PutRequests, TypeOK, call
<1> QED BY <1>1 DEF StoreInv, Fresh, GoneObjects, Grows, Owning

LEMMA StoreApprovalsInv ==
  ASSUME TypeOK, StoreInv, NEW objects, NEW changed \in SUBSET ApprovalIds,
         StoreApprovals(objects, changed), UNCHANGED cache,
         \A a \in ApprovalIds \ changed : objects[a] = approval[a],
         Owning \subseteq changed \cup Owning'
  PROVE  StoreInv' /\ Grows /\ changed \subseteq stale'.approval
<1>1. /\ approval' = objects /\ UNCHANGED <<apiKey, request>>
      /\ stale'.approval = stale.approval \cup changed
      /\ stale'.apiKey = stale.apiKey /\ stale'.request = stale.request
  BY DEF StoreApprovals, TypeOK
<1> QED BY <1>1 DEF StoreInv, Fresh, GoneObjects, Grows

LEMMA PutApprovalsInv ==
  ASSUME TypeOK, StoreInv, NEW objects, NEW changed \in SUBSET ApprovalIds,
         PutApprovals(objects, changed), UNCHANGED cache,
         \A a \in ApprovalIds \ changed : objects[a] = approval[a]
  PROVE  StoreInv' /\ Grows /\ changed \subseteq stale'.approval
<1>1. Owning' = Owning /\ StoreApprovals(objects, changed)
  BY DEF PutApprovals, Owning
<1> QED BY <1>1, StoreApprovalsInv

LEMMA WriteKeyStatusInv ==
  ASSUME TypeOK, StoreInv, NEW new \in KeyStatuses,
         NEW written \in SUBSET ActiveKeys, written \cap stale.apiKey = {},
         WriteKeyStatus(new, written), UNCHANGED cache
  PROVE  StoreInv' /\ Grows /\ written \subseteq stale'.apiKey
<1> DEFINE objects == [k \in Keys |-> IF k \in written
                                      THEN [apiKey[k] EXCEPT !.cond = new[k]]
                                      ELSE apiKey[k]]
<1>1. written \subseteq Keys
  BY DEF ActiveKeys
<1>2. \A k \in Keys \ written : objects[k] = apiKey[k]
  OBVIOUS
<1>3. \A k \in written : objects[k].phase = "live"
  BY <1>1 DEF StoreInv, Fresh, ActiveKeys, TypeOK, KeyObjects
<1>4. PutKeys(objects, written)
  BY DEF WriteKeyStatus
<1> HIDE DEF objects
<1> QED BY <1>1, <1>2, <1>3, <1>4, PutKeysInv

LEMMA WriteRequestsInv ==
  ASSUME TypeOK, StoreInv, NEW written \in SUBSET (ToCreate \cup ToDelete \cup Orphans),
         WriteRequests(written), UNCHANGED cache
  PROVE  StoreInv' /\ Grows /\ written \subseteq stale'.request
<1> DEFINE new  == written \cap ToCreate
           gone == written \ ToCreate
           next == [k \in Keys |-> created[k] + (IF k \in new THEN 1 ELSE 0)]
           objects == [k \in Keys |-> IF k \in new THEN [NoRequest EXCEPT !.uid = next[k]]
                                      ELSE IF k \in gone THEN NoRequest ELSE request[k]]
           changed == new \cup {k \in gone : request[k].uid # 0}
<1>1. PutRequests(objects, changed)
  BY DEF WriteRequests
<1>2. written \subseteq Keys /\ changed \subseteq Keys
  BY RequestSets
<1>3. ASSUME NEW k \in Keys \ changed PROVE objects[k] = request[k]
  BY <1>3 DEF StoreInv, GoneObjects
<1>4. ASSUME NEW k \in changed, objects[k].uid = 0 PROVE objects[k] = NoRequest
  BY <1>2, <1>4 DEF NoRequest
<1>5. \A k \in gone : request[k].uid = 0 => k \in stale.request
  <2> SUFFICES ASSUME NEW k \in gone, request[k].uid = 0, k \notin stale.request PROVE FALSE
    OBVIOUS
  <2>1. cache.request[k] = request[k]
    BY <1>2 DEF StoreInv, Fresh
  <2> QED BY <2>1 DEF ToDelete, Orphans
<1> HIDE DEF objects
<1>6. StoreInv' /\ Grows /\ changed \subseteq stale'.request
  BY <1>1, <1>2, <1>3, <1>4, PutRequestsInv
<1> QED BY <1>5, <1>6 DEF Grows

LEMMA WriteRequestStatusInv ==
  ASSUME TypeOK, StoreInv, NEW written \in SUBSET ToMirror, written \cap stale.request = {},
         WriteRequestStatus(written), UNCHANGED cache
  PROVE  StoreInv' /\ Grows
<1> DEFINE objects == [k \in Keys |-> IF k \in written
                                      THEN [request[k] EXCEPT !.cond = cache.apiKey[k].cond]
                                      ELSE request[k]]
<1>1. written \subseteq Keys
  BY DEF ToMirror, ActiveKeys
<1>2. \A k \in Keys \ written : objects[k] = request[k]
  OBVIOUS
<1>3. \A k \in written : objects[k].uid # 0
  BY <1>1 DEF StoreInv, Fresh, ToMirror, TypeOK, RequestObjects
<1>4. PutRequests(objects, written)
  BY DEF WriteRequestStatus
<1> HIDE DEF objects
<1> QED BY <1>1, <1>2, <1>3, <1>4, PutRequestsInv

LEMMA WriteValidityInv ==
  ASSUME TypeOK, StoreInv, NEW written \in SUBSET ApprovalIds, UNCHANGED cache,
         WriteValidity(written)
  PROVE  StoreInv' /\ Grows /\ written \subseteq stale'.approval
<1>1. PICK objects : /\ PutApprovals(objects, written)
                     /\ \A a \in ApprovalIds \ written : objects[a] = approval[a]
  BY DEF WriteValidity
<1> QED BY <1>1, PutApprovalsInv

LEMMA OwnApprovalInv ==
  ASSUME TypeOK, StoreInv, NEW a \in ApprovalIds, OwnApproval(a)
  PROVE  StoreInv' /\ Grows
<1> DEFINE objects == [approval EXCEPT ![a].owner = owning[a]]
<1>1. \A b \in ApprovalIds \ {a} : objects[b] = approval[b]
  BY DEF TypeOK
<1>2. Owning \subseteq {a} \cup Owning'
  BY DEF OwnApproval, Owning, TypeOK
<1>3. StoreApprovals(objects, {a}) /\ UNCHANGED cache
  BY DEF OwnApproval
<1> HIDE DEF objects
<1> QED BY <1>1, <1>2, <1>3, StoreApprovalsInv

-----------------------------------------------------------------------------
(* What keeps the work of the three controllers handled *)

\* As long as the caches stay, work is not added, and no change is delivered.
LEMMA StillHandled ==
  ASSUME UNCHANGED cache, Grows
  PROVE  /\ RequestsHandled /\ ("apikeyrequest" \in queue => "apikeyrequest" \in queue')
              => RequestsHandled'
         /\ ApprovalsOwned /\ ("apikeyapproval" \in queue => "apikeyapproval" \in queue')
              => ApprovalsOwned'
         /\ ApprovalsValidated
            /\ ("apikeyapproval-status" \in queue => "apikeyapproval-status" \in queue')
              => ApprovalsValidated'
<1>1. /\ ToCreate' = ToCreate /\ ToDelete' = ToDelete /\ Orphans' = Orphans
      /\ ToOwn' = ToOwn /\ ToValidate' = ToValidate
  BY DEF ToCreate, ToDelete, Orphans, ToOwn, ToValidate, ActiveKeys, Failed, Validity
<1> QED BY <1>1 DEF RequestsHandled, ApprovalsOwned, ApprovalsValidated, Grows

LEMMA HandledKept ==
  ASSUME HandledInv, StoreInv', Grows, UNCHANGED cache, queue \subseteq queue'
  PROVE  HandledInv'
BY StillHandled DEF HandledInv

\* A call that is given up is queued again.
LEMMA AbandonHandled == ASSUME TypeOK, HandledInv, AbandonOwning PROVE HandledInv'
<1>1. /\ "apikeyapproval" \in queue' /\ queue \subseteq queue'
      /\ UNCHANGED <<apiKey, request, approval, cache, stale>>
  BY DEF AbandonOwning, store
<1>2. StoreInv'
  BY <1>1 DEF HandledInv, StoreInv, Fresh, GoneObjects
<1>3. /\ ToCreate' = ToCreate /\ ToDelete' = ToDelete /\ Orphans' = Orphans
      /\ ToValidate' = ToValidate
  BY <1>1 DEF ToCreate, ToDelete, Orphans, ToValidate, ActiveKeys, Failed, Validity
<1> QED BY <1>1, <1>2, <1>3
           DEF HandledInv, RequestsHandled, ApprovalsOwned, ApprovalsValidated

LEMMA HandledInit == Init => HandledInv
<1> SUFFICES ASSUME Init PROVE HandledInv
  OBVIOUS
<1>1. StoreInv
  BY DEF Init, StoreInv, Fresh, GoneObjects, NoKey, NoRequest
<1>2. ToCreate = {} /\ ToDelete = {} /\ Orphans = {}
  BY DEF Init, ToCreate, ToDelete, Orphans, ActiveKeys, NoKey, NoRequest
<1>3. ToOwn = {} /\ ToValidate = {}
  BY DEF Init, ToOwn, ToValidate, NoApproval
<1> QED BY <1>1, <1>2, <1>3 DEF HandledInv, RequestsHandled, ApprovalsOwned, ApprovalsValidated

LEMMA SyncHandled == ASSUME TypeOK, HandledInv, Sync PROVE HandledInv'
<1>1. CASE SyncKeys
  <2>1. /\ cache'.apiKey = apiKey /\ cache'.request = cache.request
        /\ cache'.approval = cache.approval
        /\ stale'.apiKey = {} /\ stale'.request = stale.request
        /\ stale'.approval = stale.approval
        /\ UNCHANGED <<apiKey, request, approval, owning>>
    BY <1>1 DEF SyncKeys, TypeOK, store, call
  <2>2. StoreInv'
    BY <2>1 DEF HandledInv, StoreInv, Fresh, GoneObjects
  <2>3. "apikeyrequest" \in queue' /\ queue \subseteq queue'
    BY <1>1 DEF SyncKeys
  <2>4. ToOwn' = ToOwn /\ Owning' = Owning /\ ToValidate' = ToValidate
    BY <2>1 DEF ToOwn, Owning, ToValidate, Validity
  <2> QED BY <2>1, <2>2, <2>3, <2>4
             DEF HandledInv, RequestsHandled, ApprovalsOwned, ApprovalsValidated
<1>2. CASE SyncRequests
  <2>1. /\ cache'.apiKey = cache.apiKey /\ cache'.request = request
        /\ cache'.approval = cache.approval
        /\ stale'.apiKey = stale.apiKey /\ stale'.request = {}
        /\ stale'.approval = stale.approval
        /\ UNCHANGED <<apiKey, request, approval>>
    BY <1>2 DEF SyncRequests, TypeOK, store
  <2>2. StoreInv'
    BY <2>1 DEF HandledInv, StoreInv, Fresh, GoneObjects
  <2>3. {"apikeyrequest", "apikeyapproval", "apikeyapproval-status"} \subseteq queue'
    BY <1>2 DEF SyncRequests
  <2> QED BY <2>2, <2>3 DEF HandledInv, RequestsHandled, ApprovalsOwned, ApprovalsValidated
<1>3. CASE SyncApprovals
  <2>1. /\ cache'.apiKey = cache.apiKey /\ cache'.request = cache.request
        /\ cache'.approval = approval
        /\ stale'.apiKey = stale.apiKey /\ stale'.request = stale.request
        /\ stale'.approval = {}
        /\ UNCHANGED <<apiKey, request, approval>>
    BY <1>3 DEF SyncApprovals, TypeOK, store
  <2>2. StoreInv'
    BY <2>1 DEF HandledInv, StoreInv, Fresh, GoneObjects
  <2>3. {"apikeyapproval", "apikeyapproval-status"} \subseteq queue' /\ queue \subseteq queue'
    BY <1>3 DEF SyncApprovals
  <2>4. ToCreate' = ToCreate /\ ToDelete' = ToDelete /\ Orphans' = Orphans
    BY <2>1 DEF ToCreate, ToDelete, Orphans, ActiveKeys, Failed
  <2> QED BY <2>1, <2>2, <2>3, <2>4
             DEF HandledInv, RequestsHandled, ApprovalsOwned, ApprovalsValidated
<1> QED BY <1>1, <1>2, <1>3 DEF Sync

\* A call that succeeds has handled what it found: it wrote all of it.
LEMMA ReconcileHandled == ASSUME TypeOK, HandledInv, Reconcile PROVE HandledInv'
<1> USE DEF HandledInv
<1>1. CASE ReconcileKeyStatus
  <2>1. StoreInv' /\ Grows
    BY <1>1, WriteKeyStatusInv DEF ReconcileKeyStatus
  <2>2. UNCHANGED cache /\ queue' = queue \ {"apikey-status"}
    BY <1>1 DEF ReconcileKeyStatus
  <2> QED BY <2>1, <2>2, StillHandled
<1>2. CASE ReconcileRequest
  <2>1. UNCHANGED cache /\ queue' = queue \ {"apikeyrequest"}
    BY <1>2 DEF ReconcileRequest
  <2>2. StoreInv' /\ Grows /\ ToCreate \cup ToDelete \cup Orphans \subseteq stale'.request
    BY <1>2, WriteRequestsInv DEF ReconcileRequest
  <2>3. ToCreate' = ToCreate /\ ToDelete' = ToDelete /\ Orphans' = Orphans
    BY <2>1 DEF ToCreate, ToDelete, Orphans, ActiveKeys, Failed
  <2>4. RequestsHandled'
    BY <2>2, <2>3 DEF RequestsHandled
  <2> QED BY <2>1, <2>2, <2>4, StillHandled
<1>3. CASE ReconcileRequestStatus
  <2>1. StoreInv' /\ Grows
    BY <1>3, WriteRequestStatusInv DEF ReconcileRequestStatus
  <2>2. UNCHANGED cache /\ queue' = queue \ {"apikeyrequeststatus"}
    BY <1>3 DEF ReconcileRequestStatus
  <2> QED BY <2>1, <2>2, StillHandled
<1>4. CASE ReconcileApprovalStatus
  <2>1. UNCHANGED cache /\ queue' = queue \ {"apikeyapproval-status"}
    BY <1>4 DEF ReconcileApprovalStatus
  <2>2. StoreInv' /\ Grows /\ ToValidate \subseteq stale'.approval
    BY <1>4, WriteValidityInv DEF ReconcileApprovalStatus, ToValidate
  <2>3. ToValidate' = ToValidate
    BY <2>1 DEF ToValidate, Validity
  <2>4. ApprovalsValidated'
    BY <2>2, <2>3 DEF ApprovalsValidated
  <2> QED BY <2>1, <2>2, <2>4, StillHandled
<1>5. CASE ReconcileApproval
  <2>1. CASE StartOwning
    <3>1. UNCHANGED <<store, cache, stale>> /\ queue' = queue \ {"apikeyapproval"}
      BY <2>1 DEF StartOwning
    <3>2. StoreInv' /\ Grows
      BY <2>1, <3>1 DEF StoreInv, Fresh, GoneObjects, Grows, StartOwning, store
    <3>3. ToOwn \subseteq Owning' /\ ToOwn' = ToOwn
      BY <2>1, <3>1 DEF StartOwning, Owning, ToOwn
    <3>4. ApprovalsOwned'
      BY <3>3 DEF ApprovalsOwned
    <3> QED BY <3>1, <3>2, <3>4, StillHandled
  <2>2. ASSUME NEW a \in ApprovalIds, OwnApproval(a) PROVE HandledInv'
    BY <2>2, OwnApprovalInv, HandledKept DEF OwnApproval
  <2>3. ASSUME NEW a \in ApprovalIds, OwnerConflict(a) PROVE HandledInv'
    BY <2>3, AbandonHandled DEF OwnerConflict
  <2> QED BY <1>5, <2>1, <2>2, <2>3 DEF ReconcileApproval
<1>6. ASSUME NEW k \in Keys, ReconcileAutoApproval(k) PROVE HandledInv'
  <2>1. UNCHANGED <<cache, queue>>
    BY <1>6 DEF ReconcileAutoApproval
  <2>2. CASE UNCHANGED <<store, stale, call, created>>
    <3>1. StoreInv' /\ Grows
      BY <2>1, <2>2 DEF StoreInv, Fresh, GoneObjects, Grows, store, call, Owning
    <3> QED BY <2>1, <3>1, HandledKept
  <2>3. CASE ~UNCHANGED <<store, stale, call, created>>
    <3> DEFINE a == <<k, "auto">>
               objects == [approval EXCEPT ![a] =
                             [NoApproval EXCEPT !.present = TRUE, !.approved = TRUE]]
    <3>1. PutApprovals(objects, {a})
      BY <1>6, <2>3 DEF ReconcileAutoApproval
    <3>2. {a} \subseteq ApprovalIds /\ \A b \in ApprovalIds \ {a} : objects[b] = approval[b]
      BY DEF ApprovalIds, TypeOK
    <3> HIDE DEF objects, a
    <3>3. StoreInv' /\ Grows
      BY <2>1, <3>1, <3>2, PutApprovalsInv
    <3> QED BY <2>1, <3>3, HandledKept
  <2> QED BY <2>2, <2>3
<1> QED BY <1>1, <1>2, <1>3, <1>4, <1>5, <1>6 DEF Reconcile

\* A call that fails stays in the queue.
LEMMA FailHandled == ASSUME TypeOK, HandledInv, Fail PROVE HandledInv'
<1> USE DEF HandledInv
<1>1. CASE FailKeyStatus
  <2>1. StoreInv' /\ Grows
    BY <1>1, WriteKeyStatusInv DEF FailKeyStatus
  <2> QED BY <1>1, <2>1, HandledKept DEF FailKeyStatus
<1>2. CASE FailRequest
  <2>1. StoreInv' /\ Grows
    BY <1>2, WriteRequestsInv DEF FailRequest
  <2> QED BY <1>2, <2>1, HandledKept DEF FailRequest
<1>3. CASE FailRequestStatus
  <2>1. StoreInv' /\ Grows
    BY <1>3, WriteRequestStatusInv DEF FailRequestStatus
  <2> QED BY <1>3, <2>1, HandledKept DEF FailRequestStatus
<1>4. CASE FailApprovalStatus
  <2>1. StoreInv' /\ Grows
    BY <1>4, WriteValidityInv DEF FailApprovalStatus, ToValidate
  <2> QED BY <1>4, <2>1, HandledKept DEF FailApprovalStatus
<1>5. CASE FailApproval
  BY <1>5, AbandonHandled DEF FailApproval
<1> QED BY <1>1, <1>2, <1>3, <1>4, <1>5 DEF Fail

\* What users and the cluster do to one key.
LEMMA KeyChanged ==
  ASSUME TypeOK, StoreInv, UNCHANGED cache, NEW k \in Keys, NEW object,
         object.phase = "absent" => object = NoKey,
         PutKeys([apiKey EXCEPT ![k] = object], {k})
  PROVE  StoreInv' /\ Grows
<1> DEFINE objects == [apiKey EXCEPT ![k] = object]
<1>1. /\ \A j \in Keys \ {k} : objects[j] = apiKey[j]
      /\ objects[k] = object
  BY DEF TypeOK
<1> HIDE DEF objects
<1>2. PutKeys(objects, {k})
  BY DEF objects
<1> QED BY <1>1, <1>2, PutKeysInv

\* And to one approval.
LEMMA ApprovalChanged ==
  ASSUME TypeOK, StoreInv, UNCHANGED cache, NEW a \in ApprovalIds, NEW object,
         PutApprovals([approval EXCEPT ![a] = object], {a})
  PROVE  StoreInv' /\ Grows
<1> DEFINE objects == [approval EXCEPT ![a] = object]
<1>1. \A b \in ApprovalIds \ {a} : objects[b] = approval[b]
  BY DEF TypeOK
<1> HIDE DEF objects
<1>2. PutApprovals(objects, {a})
  BY DEF objects
<1> QED BY <1>1, <1>2, PutApprovalsInv

\* Neither writes to requests, and a change of anything else is no write.
LEMMA NothingWritten ==
  ASSUME StoreInv, UNCHANGED <<store, cache, stale, call>>
  PROVE  StoreInv' /\ Grows
BY DEF StoreInv, Fresh, GoneObjects, Grows, store, call, Owning

LEMMA ClusterHandled == ASSUME TypeOK, HandledInv, Cluster PROVE HandledInv'
<1> USE DEF HandledInv
<1>1. ASSUME NEW a \in ApprovalIds, CollectGarbage(a) PROVE HandledInv'
  BY <1>1, ApprovalChanged, HandledKept DEF CollectGarbage
<1>2. ASSUME NEW k \in Keys, Expire(k) PROVE HandledInv'
  BY <1>2, NothingWritten, HandledKept DEF Expire
<1>3. ASSUME NEW k \in Keys, FinishDeletion(k) PROVE HandledInv'
  BY <1>3, KeyChanged, HandledKept DEF FinishDeletion
<1> QED BY <1>1, <1>2, <1>3 DEF Cluster

LEMMA UserHandled == ASSUME TypeOK, HandledInv, User PROVE HandledInv'
<1> USE DEF HandledInv
<1>1. ASSUME NEW k \in Keys, CreateKey(k) PROVE HandledInv'
  <2>1. [apiKey EXCEPT ![k].phase = "live"] = [apiKey EXCEPT ![k] = [@ EXCEPT !.phase = "live"]]
    BY DEF TypeOK
  <2>2. [apiKey[k] EXCEPT !.phase = "live"].phase # "absent"
    BY DEF TypeOK, KeyObjects
  <2> QED BY <1>1, <2>1, <2>2, KeyChanged, HandledKept DEF CreateKey
<1>2. ASSUME NEW k \in Keys, DeleteKey(k) PROVE HandledInv'
  <2>1. [apiKey EXCEPT ![k].phase = "deleting"]
          = [apiKey EXCEPT ![k] = [@ EXCEPT !.phase = "deleting"]]
    BY DEF TypeOK
  <2>2. [apiKey[k] EXCEPT !.phase = "deleting"].phase # "absent"
    BY DEF TypeOK, KeyObjects
  <2>3. StoreInv' /\ Grows
    BY <1>2, <2>1, <2>2, KeyChanged DEF DeleteKey
  <2> QED BY <1>2, <2>3, HandledKept DEF DeleteKey
<1>3. ASSUME NEW k \in Keys, ChangeSecret(k) PROVE HandledInv'
  BY <1>3, NothingWritten, HandledKept DEF ChangeSecret
<1>4. ASSUME NEW a \in ApprovalIds, WithdrawApproval(a) PROVE HandledInv'
  BY <1>4, ApprovalChanged, HandledKept DEF WithdrawApproval
<1>5. ASSUME NEW a \in ApprovalIds, NEW d \in BOOLEAN, Decide(a, d) PROVE HandledInv'
  <2>1. [approval EXCEPT ![a].approved = d] = [approval EXCEPT ![a] = [@ EXCEPT !.approved = d]]
    BY DEF TypeOK
  <2>2. StoreInv' /\ Grows
    BY <1>5, <2>1, ApprovalChanged DEF Decide
  <2> QED BY <1>5, <2>2, HandledKept DEF Decide
<1>6. CASE ChangeProduct \/ ToggleKuadrant
  BY <1>6, NothingWritten, HandledKept DEF ChangeProduct, ToggleKuadrant
<1>7. CASE Restart
  <2>1. StoreInv'
    BY <1>7 DEF Restart, store, StoreInv, Fresh, GoneObjects
  <2>2. queue' = Controllers
    BY <1>7 DEF Restart
  <2> QED BY <2>1, <2>2
             DEF Controllers, RequestsHandled, ApprovalsOwned, ApprovalsValidated
<1> QED BY <1>1, <1>2, <1>3, <1>4, <1>5, <1>6, <1>7 DEF User

LEMMA HandledNext == TypeOK /\ HandledInv /\ [Next]_vars => HandledInv'
<1> SUFFICES ASSUME TypeOK, HandledInv, [Next]_vars PROVE HandledInv'
  OBVIOUS
<1>1. CASE UNCHANGED vars
  BY <1>1, NothingWritten, HandledKept DEF vars, HandledInv, store
<1> QED BY <1>1, SyncHandled, ReconcileHandled, FailHandled, ClusterHandled, UserHandled DEF Next

LEMMA HandledInvariance == Spec => [](TypeOK /\ HandledInv)
BY TypeInit, TypeNext, HandledInit, HandledNext, PTL DEF Spec

-----------------------------------------------------------------------------
(* What there is at rest *)

LEMMA CachesAtRest ==
  ASSUME TypeOK, HandledInv, Quiet
  PROVE  /\ cache.apiKey = apiKey /\ cache.request = request /\ cache.approval = approval
         /\ ToCreate = {} /\ ToDelete = {} /\ Orphans = {} /\ ToOwn = {} /\ ToValidate = {}
<1>1. /\ queue = {} /\ Owning = {}
      /\ stale.apiKey = {} /\ stale.request = {} /\ stale.approval = {}
  BY DEF Quiet
<1>2. /\ \A k \in Keys : cache.apiKey[k] = apiKey[k] /\ cache.request[k] = request[k]
      /\ \A a \in ApprovalIds : cache.approval[a] = approval[a]
  BY <1>1 DEF HandledInv, StoreInv, Fresh
<1>3. cache.apiKey = apiKey /\ cache.request = request /\ cache.approval = approval
  BY <1>2 DEF TypeOK
<1> QED BY <1>1, <1>3
           DEF HandledInv, RequestsHandled, ApprovalsOwned, ApprovalsValidated

LEMMA ShadowsAtRest == TypeOK /\ HandledInv => RequestsShadowKeys
<1> SUFFICES ASSUME TypeOK, HandledInv, Quiet, NEW k \in Keys
             PROVE  request[k].uid # 0 <=> Live(k) /\ apiKey[k].cond["Failed"] = None
  BY DEF RequestsShadowKeys
<1>1. apiKey[k].phase \in {"absent", "live", "deleting"}
  BY DEF TypeOK, KeyObjects
<1> QED BY <1>1, CachesAtRest DEF ToCreate, ToDelete, Orphans, ActiveKeys, Failed, Live

LEMMA ApprovalsAtRest == TypeOK /\ HandledInv => ApprovalsFollowRequests
<1> SUFFICES ASSUME TypeOK, HandledInv, Quiet, NEW a \in ApprovalIds, approval[a].present
             PROVE  /\ approval[a].owner = request[a[1]].uid
                    /\ approval[a].valid = IF request[a[1]].uid # 0 THEN "True" ELSE "False"
  BY DEF ApprovalsFollowRequests
<1>1. ~Dangling(a)
  BY DEF Quiet
<1>2. approval[a].owner = request[a[1]].uid
  BY <1>1, CachesAtRest DEF ToOwn, Dangling
<1>3. approval[a].valid = Validity(a)
  BY CachesAtRest DEF ToValidate
<1> QED BY <1>2, <1>3, CachesAtRest DEF Validity

\* When the controllers have come to rest exactly the live keys that have not
\* failed have a request, however many keys there are and whatever calls failed,
\* conflicted or were cut short by a restart on the way.
THEOREM RequestsShadowKeysAtRest == Spec => []RequestsShadowKeys
BY HandledInvariance, ShadowsAtRest, PTL

\* When the controllers have come to rest, and the garbage collector with them,
\* every approval belongs to the request that exists and is valid exactly if
\* there is one.
THEOREM ApprovalsFollowRequestsAtRest == Spec => []ApprovalsFollowRequests
BY HandledInvariance, ApprovalsAtRest, PTL

-----------------------------------------------------------------------------
(* How a decision reaches its key.  The status depends on more than objects: *)
(* on the product, the Secret and the clock.  The first two are watched, and *)
(* as long as apikey-status is not queued a timer runs for every key that    *)
(* may expire.                                                               *)

\* A Kuadrant resource, which no controller of the workflow watches, stays.
KuadrantStays == "ToggleKuadrant" \notin UserActions

\* The conditions in the cache are those that the next call may compute.
Computed(k) ==
  \E d \in FindAPIKeyApproval(k) :
    cache.apiKey[k].cond
      = CalculateStatusConditions(cache.apiKey[k].cond, Why(k), d, k \in expired)

StatusComputed ==
  "apikey-status" \notin queue => \A k \in ActiveKeys \ stale.apiKey : Computed(k)

TimersSet ==
  "apikey-status" \notin queue => (ActiveKeys \cap ExpiringKeys) \ expired \subseteq timer

StatusInv == StatusComputed /\ TimersSet

LEMMA StatusInit == Init => StatusInv
BY DEF Init, StatusInv, StatusComputed, TimersSet, ActiveKeys, NoKey

\* As long as the caches and what the status depends on stay, too.
LEMMA StatusKept ==
  ASSUME StatusInv, UNCHANGED <<env, timer>>,
         cache'.apiKey = cache.apiKey, cache'.approval = cache.approval,
         stale.apiKey \subseteq stale'.apiKey,
         "apikey-status" \in queue => "apikey-status" \in queue'
  PROVE  StatusInv'
<1>1. ActiveKeys' = ActiveKeys
  BY DEF ActiveKeys
<1>2. \A k \in Keys : FindAPIKeyApproval(k)' = FindAPIKeyApproval(k)
  BY DEF FindAPIKeyApproval
<1>3. \A k \in Keys : Why(k)' = Why(k) /\ (k \in expired)' = (k \in expired)
  BY DEF Why, env
<1>4. \A k \in Keys : Computed(k) => Computed(k)'
  BY <1>2, <1>3 DEF Computed
<1> QED BY <1>1, <1>4 DEF StatusInv, StatusComputed, TimersSet, ActiveKeys, env

\* Which is also so when apikey-status is queued.
LEMMA StatusQueued == "apikey-status" \in queue' => StatusInv'
BY DEF StatusInv, StatusComputed, TimersSet

\* A call of apikey-status writes what it has computed or finds it there.
LEMMA ReconcileComputes ==
  ASSUME TypeOK, ReconcileKeyStatus
  PROVE  StatusInv'
<1> DEFINE Todo(new) == {k \in ActiveKeys : new[k] # cache.apiKey[k].cond}
<1>1. PICK new \in KeyStatuses : Todo(new) \cap stale.apiKey = {} /\ WriteKeyStatus(new, Todo(new))
  BY DEF ReconcileKeyStatus
<1>2. PICK decision \in [Keys -> Decisions] :
        /\ \A k \in Keys : decision[k] \in FindAPIKeyApproval(k)
        /\ new = [k \in Keys |-> CalculateStatusConditions(
                                   cache.apiKey[k].cond, Why(k), decision[k], k \in expired)]
  BY DEF KeyStatuses, Why
<1>3. stale'.apiKey = stale.apiKey \cup Todo(new)
  BY <1>1 DEF WriteKeyStatus, PutKeys, TypeOK
<1>4. UNCHANGED <<env, cache>> /\ timer' = timer \cup ((ActiveKeys \cap ExpiringKeys) \ expired)
  BY DEF ReconcileKeyStatus
<1>5. ActiveKeys' = ActiveKeys /\ ActiveKeys \subseteq Keys
  BY <1>4 DEF ActiveKeys
<1>6. ASSUME NEW k \in ActiveKeys, k \notin stale'.apiKey PROVE Computed(k)'
  <2>1. new[k] = cache.apiKey[k].cond
    BY <1>3, <1>6
  <2>2. cache.apiKey[k].cond
          = CalculateStatusConditions(cache.apiKey[k].cond, Why(k), decision[k], k \in expired)
    BY <1>2, <1>5, <2>1
  <2>3. FindAPIKeyApproval(k)' = FindAPIKeyApproval(k)
    BY <1>4 DEF FindAPIKeyApproval
  <2>4. Why(k)' = Why(k) /\ cache' = cache /\ expired' = expired
    BY <1>4 DEF Why, env
  <2> QED BY <1>2, <1>5, <2>2, <2>3, <2>4 DEF Computed
<1> QED BY <1>4, <1>5, <1>6 DEF StatusInv, StatusComputed, TimersSet, env

\* A key expires: its timer fires, or apikey-status does not look at it.
LEMMA ExpireComputes ==
  ASSUME StatusInv, NEW k \in Keys, Expire(k)
  PROVE  StatusInv'
<1>1. CASE k \in timer \/ "apikey-status" \in queue
  BY <1>1, StatusQueued DEF Expire
<1>2. CASE k \notin timer /\ "apikey-status" \notin queue
  <2>1. /\ k \in ExpiringKeys \ expired /\ expired' = expired \cup {k}
        /\ UNCHANGED <<queue, timer, kuadrant, product, secret, cache, stale>>
    BY <1>2 DEF Expire
  <2>2. k \notin ActiveKeys
    BY <1>2, <2>1 DEF StatusInv, TimersSet
  <2>3. ActiveKeys' = ActiveKeys /\ ActiveKeys \subseteq Keys
    BY <2>1 DEF ActiveKeys
  <2>4. ASSUME NEW j \in ActiveKeys, Computed(j) PROVE Computed(j)'
    <3>1. Why(j)' = Why(j)
      BY <2>1 DEF Why
    <3>2. FindAPIKeyApproval(j)' = FindAPIKeyApproval(j)
      BY <2>1 DEF FindAPIKeyApproval
    <3>3. (j \in expired)' = (j \in expired)
      BY <2>1, <2>2
    <3> QED BY <2>1, <2>4, <3>1, <3>2, <3>3 DEF Computed
  <2> QED BY <1>2, <2>1, <2>3, <2>4 DEF StatusInv, StatusComputed, TimersSet
<1> QED BY <1>1, <1>2

LEMMA StatusNext ==
  ASSUME KuadrantStays
  PROVE  TypeOK /\ HandledInv /\ StatusInv /\ [Next]_vars => StatusInv'
<1> SUFFICES ASSUME TypeOK, HandledInv, StatusInv, [Next]_vars PROVE StatusInv'
  OBVIOUS
<1> USE DEF HandledInv
<1>1. CASE Sync
  BY <1>1, StatusQueued DEF Sync, SyncKeys, SyncRequests, SyncApprovals
<1>2. CASE ReconcileKeyStatus
  BY <1>2, ReconcileComputes
<1>3. CASE ReconcileRequest
  <2>1. Grows
    BY <1>3, WriteRequestsInv DEF ReconcileRequest
  <2> QED BY <1>3, <2>1, StatusKept DEF ReconcileRequest, Grows
<1>4. CASE ReconcileRequestStatus
  <2>1. Grows
    BY <1>4, WriteRequestStatusInv DEF ReconcileRequestStatus
  <2> QED BY <1>4, <2>1, StatusKept DEF ReconcileRequestStatus, Grows
<1>5. CASE ReconcileApprovalStatus
  <2>1. Grows
    BY <1>5, WriteValidityInv DEF ReconcileApprovalStatus, ToValidate
  <2> QED BY <1>5, <2>1, StatusKept DEF ReconcileApprovalStatus, Grows
<1>6. CASE ReconcileApproval
  <2>1. CASE StartOwning
    BY <2>1, StatusKept DEF StartOwning
  <2>2. ASSUME NEW a \in ApprovalIds, OwnApproval(a) PROVE StatusInv'
    <3>1. Grows
      BY <2>2, OwnApprovalInv
    <3> QED BY <2>2, <3>1, StatusKept DEF OwnApproval, Grows
  <2>3. ASSUME NEW a \in ApprovalIds, OwnerConflict(a) PROVE StatusInv'
    BY <2>3, StatusKept DEF OwnerConflict, AbandonOwning
  <2> QED BY <1>6, <2>1, <2>2, <2>3 DEF ReconcileApproval
<1>7. ASSUME NEW k \in Keys, ReconcileAutoApproval(k) PROVE StatusInv'
  <2>1. stale'.apiKey = stale.apiKey
    BY <1>7 DEF ReconcileAutoApproval, PutApprovals, StoreApprovals, TypeOK
  <2> QED BY <1>7, <2>1, StatusKept DEF ReconcileAutoApproval
<1>8. CASE FailKeyStatus \/ FailRequest \/ FailRequestStatus \/ FailApprovalStatus
  <2>1. Grows /\ UNCHANGED <<env, cache, queue, timer>>
    BY <1>8, WriteKeyStatusInv, WriteRequestsInv, WriteRequestStatusInv, WriteValidityInv
       DEF FailKeyStatus, FailRequest, FailRequestStatus, FailApprovalStatus, ToValidate
  <2> QED BY <2>1, StatusKept DEF Grows
<1>9. ASSUME NEW a \in ApprovalIds, CollectGarbage(a) \/ WithdrawApproval(a) PROVE StatusInv'
  <2>1. Grows
    BY <1>9, ApprovalChanged DEF CollectGarbage, WithdrawApproval
  <2> QED BY <1>9, <2>1, StatusKept DEF CollectGarbage, WithdrawApproval, Grows
<1>10. ASSUME NEW k \in Keys, Expire(k) PROVE StatusInv'
  BY <1>10, ExpireComputes
<1>11. ASSUME NEW k \in Keys, FinishDeletion(k) \/ CreateKey(k) \/ DeleteKey(k) PROVE StatusInv'
  <2>1. UNCHANGED <<env, cache, queue, timer>> /\ stale.apiKey \subseteq stale'.apiKey
    BY <1>11 DEF FinishDeletion, CreateKey, DeleteKey, PutKeys, TypeOK
  <2> QED BY <2>1, StatusKept
<1>12. ASSUME NEW k \in Keys, ChangeSecret(k) PROVE StatusInv'
  BY <1>12, StatusQueued DEF ChangeSecret
<1>13. ASSUME NEW a \in ApprovalIds, NEW d \in BOOLEAN, Decide(a, d) PROVE StatusInv'
  <2>1. UNCHANGED <<env, cache, queue, timer>> /\ stale.apiKey \subseteq stale'.apiKey
    BY <1>13 DEF Decide, PutApprovals, StoreApprovals, TypeOK
  <2> QED BY <2>1, StatusKept
<1>14. CASE ChangeProduct
  BY <1>14, StatusQueued DEF ChangeProduct
<1>15. CASE ToggleKuadrant
  BY <1>15 DEF ToggleKuadrant, UserAction, KuadrantStays
<1>16. CASE Restart
  BY <1>16, StatusQueued DEF Restart, Controllers
<1>17. CASE UNCHANGED vars
  BY <1>17, StatusKept DEF vars
<1>18. CASE FailApproval
  BY <1>18, StatusKept DEF FailApproval, AbandonOwning
<1> QED
  BY <1>1, <1>2, <1>3, <1>4, <1>5, <1>6, <1>7, <1>8, <1>9, <1>10, <1>11, <1>12, <1>13, <1>14,
     <1>15, <1>16, <1>17, <1>18
     DEF Next, Reconcile, Fail, Cluster, User

\* At rest the approvals that are valid are all that exist, so that the search
\* answers what they say.
LEMMA FoundAtRest ==
  ASSUME TypeOK, HandledInv, Quiet, NEW k \in Keys, request[k].uid # 0,
         NEW d \in FindAPIKeyApproval(k)
  PROVE  /\ Verdicts(k) = {}      => d = "undecided"
         /\ Verdicts(k) = {FALSE} => d = "denied"
         /\ Verdicts(k) = {TRUE}  => d = "approved"
<1> DEFINE found == {a \in ApprovalIds : a[1] = k /\ cache.approval[a].present
                                         /\ cache.approval[a].valid = "True"}
<1>1. ASSUME NEW a \in ApprovalsOf(k) PROVE approval[a].valid = "True"
  BY ApprovalsAtRest DEF ApprovalsOf, ApprovalsFollowRequests
<1>2. found = ApprovalsOf(k)
  BY <1>1, CachesAtRest DEF ApprovalsOf
<1>3. d \in IF found = {} THEN {"undecided"}
            ELSE {IF cache.approval[a].approved THEN "approved" ELSE "denied" : a \in found}
  BY DEF FindAPIKeyApproval
<1>4. CASE found = {}
  <2>1. d = "undecided" /\ Verdicts(k) = {}
    BY <1>2, <1>3, <1>4 DEF Verdicts
  <2> QED BY <2>1
<1>5. CASE found # {}
  <2>1. PICK a \in found : d = IF cache.approval[a].approved THEN "approved" ELSE "denied"
    BY <1>3, <1>5
  <2>2. cache.approval[a].approved = approval[a].approved
    BY CachesAtRest
  <2>3. approval[a].approved \in Verdicts(k)
    BY <1>2 DEF Verdicts
  <2> QED BY <2>1, <2>2, <2>3
<1> QED BY <1>4, <1>5

LEMMA DecisionAtRest ==
  ASSUME TypeOK, HandledInv, StatusInv
  PROVE  DecisionReachesKey
<1> SUFFICES ASSUME Quiet, NEW k \in Keys, Live(k)
             PROVE  /\ apiKey[k].cond["Failed"] = Why(k)
                    /\ Why(k) = None =>
                         /\ Verdicts(k) = {}      => Listed(apiKey[k].cond) = {"Pending"}
                         /\ Verdicts(k) = {FALSE} => Listed(apiKey[k].cond) = {"Denied"}
                         /\ Verdicts(k) = {TRUE}  => Listed(apiKey[k].cond) =
                                        {IF k \in expired THEN "Expired" ELSE "Approved"}
  BY DEF DecisionReachesKey
<1> DEFINE c == apiKey[k].cond
<1>1. Computed(k) /\ cache.apiKey[k].cond = c
  BY CachesAtRest DEF StatusInv, StatusComputed, ActiveKeys, Live, Quiet
<1>2. PICK d \in FindAPIKeyApproval(k) :
        c = CalculateStatusConditions(c, Why(k), d, k \in expired)
  BY <1>1 DEF Computed
<1>3. d \in Decisions
  BY <1>2 DEF FindAPIKeyApproval, Decisions
<1>4. c = IF Why(k) # None        THEN OnlyCondition("Failed", Why(k))
          ELSE IF d = "denied"    THEN OnlyCondition("Denied", "Denied")
          ELSE IF d = "undecided" THEN OnlyCondition("Pending", "AwaitingApproval")
          ELSE IF k \in expired   THEN OnlyCondition("Expired", "KeyExpired")
          ELSE OnlyCondition("Approved", "Approved")
  <2> DEFINE isExpired == k \in expired
  <2>1. isExpired \in BOOLEAN
    OBVIOUS
  <2>2. c = CalculateStatusConditions(c, Why(k), d, isExpired)
    BY <1>2
  <2> HIDE DEF c, isExpired
  <2>3. c = IF Why(k) # None        THEN OnlyCondition("Failed", Why(k))
            ELSE IF d = "denied"    THEN OnlyCondition("Denied", "Denied")
            ELSE IF d = "undecided" THEN OnlyCondition("Pending", "AwaitingApproval")
            ELSE IF isExpired       THEN OnlyCondition("Expired", "KeyExpired")
            ELSE OnlyCondition("Approved", "Approved")
    BY <1>3, <2>1, <2>2, OneConditionLeft
  <2> QED BY <2>3 DEF isExpired
<1>5. c["Failed"] = Why(k)
  BY <1>4 DEF OnlyCondition, ConditionTypes
<1>6. ASSUME Why(k) = None
      PROVE  /\ Verdicts(k) = {}      => Listed(c) = {"Pending"}
             /\ Verdicts(k) = {FALSE} => Listed(c) = {"Denied"}
             /\ Verdicts(k) = {TRUE}  => Listed(c) =
                                           {IF k \in expired THEN "Expired" ELSE "Approved"}
  <2>1. request[k].uid # 0
    BY <1>5, <1>6, ShadowsAtRest DEF RequestsShadowKeys
  <2>2. /\ Verdicts(k) = {}      => d = "undecided"
        /\ Verdicts(k) = {FALSE} => d = "denied"
        /\ Verdicts(k) = {TRUE}  => d = "approved"
    BY <2>1, FoundAtRest
  <2>3. /\ Listed(OnlyCondition("Denied", "Denied")) = {"Denied"}
        /\ Listed(OnlyCondition("Pending", "AwaitingApproval")) = {"Pending"}
        /\ Listed(OnlyCondition("Expired", "KeyExpired")) = {"Expired"}
        /\ Listed(OnlyCondition("Approved", "Approved")) = {"Approved"}
    BY OnlyConditionListed DEF ConditionTypes, Reasons, None
  <2> QED BY <1>4, <1>6, <2>2, <2>3
<1> QED BY <1>5, <1>6

\* When the controllers have come to rest, a key that cannot be served says why,
\* and any other shows the one decision taken about it, or that none was taken,
\* or that it has expired, provided that the Kuadrant resource stays.
THEOREM DecisionReachesKeyAtRest ==
  ASSUME KuadrantStays
  PROVE  Spec => []DecisionReachesKey
<1>1. TypeOK /\ HandledInv /\ StatusInv /\ [Next]_vars => (TypeOK /\ HandledInv /\ StatusInv)'
  BY TypeNext, HandledNext, StatusNext
<1>2. Init => TypeOK /\ HandledInv /\ StatusInv
  BY TypeInit, HandledInit, StatusInit
<1>3. TypeOK /\ HandledInv /\ StatusInv => DecisionReachesKey
  BY DecisionAtRest
<1> QED BY <1>1, <1>2, <1>3, PTL DEF Spec

-----------------------------------------------------------------------------
(* Owners *)

LEMMA LostOwners == TypeOK /\ HandledInv => LostOwnersAreReplaced
<1> SUFFICES ASSUME TypeOK, HandledInv, "apikeyapproval" \notin queue,
                    NEW a \in ApprovalIds, Dangling(a), request[a[1]].uid # 0,
                    a \notin stale.approval, a[1] \notin stale.request
             PROVE  a \in Owning
  BY DEF LostOwnersAreReplaced
<1>1. a[1] \in Keys
  BY DEF ApprovalIds
<1>2. cache.approval[a] = approval[a] /\ cache.request[a[1]] = request[a[1]]
  BY <1>1 DEF HandledInv, StoreInv, Fresh
<1>3. a \in ToOwn
  BY <1>2 DEF ToOwn, Dangling
<1> QED BY <1>3 DEF HandledInv, ApprovalsOwned

\* An approval that names an earlier request as its owner, although the request it
\* decides is there, is about to be handled by apikeyapproval: be it that the
\* collector was slow, or that the controller itself gave it to the earlier one.
THEOREM LostOwnersAreAlwaysReplaced == Spec => []LostOwnersAreReplaced
BY HandledInvariance, LostOwners, PTL
=============================================================================
